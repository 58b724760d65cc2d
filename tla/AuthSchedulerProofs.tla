------------------------ MODULE AuthSchedulerProofs ------------------------
(***************************************************************************)
(* What is proved about the scheduler for any credentials, providers,      *)
(* priorities, settings and durations: its types, that its views never     *)
(* drift from the credentials, that a request gets the best credential or  *)
(* fails for a reason, and that turns make progress, within a view and     *)
(* among the providers of a mixed request.                                 *)
(*                                                                         *)
(* The invariant is that each provider knows its own enabled credentials   *)
(* and that every shard is Sound: an entry is what was true of its         *)
(* credential at some earlier time, and the views are what the entries     *)
(* say.  That is all an operation needs to keep it.  Old entries do no     *)
(* harm because a block ends but never begins by itself: what was free is  *)
(* free, and what was blocked is promoted when the end it reported is due. *)
(***************************************************************************)
EXTENDS AuthScheduler, FiniteSetTheorems, WellFoundedInduction, TLAPS

-----------------------------------------------------------------------------
(* Numbers.                                                                *)

\* A non-empty set of naturals has a least element, and Min returns it.
LEMMA MinOfNaturals ==
  ASSUME NEW S \in SUBSET Nat, S # {}
  PROVE  /\ Min(S) \in S
         /\ \A x \in S : Min(S) <= x
<1>1. PICK x \in S : \A y \in S : ~(<<y, x>> \in OpToRel(<, Nat))
  <2> DEFINE R == OpToRel(<, Nat)
  <2>1. IsWellFoundedOn(R, Nat)
    BY NatLessThanWellFounded
  <2> HIDE DEF R
  <2>2. \E x \in S : \A y \in S : ~(<<y, x>> \in R)
    BY <2>1, WFMin
  <2> QED
    BY <2>2 DEF R
<1>2. \A y \in S : x <= y
  <2>1. ASSUME NEW y \in S
        PROVE  ~(y < x)
    BY <1>1, Zenon DEF OpToRel
  <2> QED
    BY <2>1
<1> QED
  BY <1>2 DEF Min

\* A cursor one past a view of n is its first place.
LEMMA Wraps ==
  ASSUME NEW n \in Nat, n # 0, NEW x \in 0 .. 2 * n - 1
  PROVE  x % n = IF x < n THEN x ELSE x - n
  OBVIOUS

\* s lists the elements of S in increasing order.
Increasing(s, S) ==
  /\ s \in [1 .. Cardinality(S) -> S]
  /\ \A i, j \in 1 .. Cardinality(S) : i < j => s[i] < s[j]

\* A list of the other elements, with the least before it.
LEMMA PutFirst ==
  ASSUME NEW S \in SUBSET Nat, IsFiniteSet(S), S # {},
         NEW s, Increasing(s, S \ {Min(S)})
  PROVE  \E q : Increasing(q, S)
<1> DEFINE m == Min(S)
           n == Cardinality(S)
           q == [i \in 1 .. n |-> IF i = 1 THEN m ELSE s[i - 1]]
<1>1. m \in S /\ \A x \in S : m <= x
  BY MinOfNaturals
<1>2. n \in Nat \ {0}
  BY FS_CardinalityType, FS_EmptySet
<1>3. Cardinality(S \ {m}) = n - 1
  BY <1>1, FS_RemoveElement
<1> HIDE DEF m, n
<1>4. /\ s \in [1 .. n - 1 -> S \ {m}]
      /\ \A i, j \in 1 .. n - 1 : i < j => s[i] < s[j]
  BY <1>3 DEF Increasing, m
<1>5. \A i \in 1 .. n : i # 1 => i - 1 \in 1 .. n - 1
  BY <1>2
<1>6. q \in [1 .. n -> S]
  BY <1>1, <1>4, <1>5
<1>7. ASSUME NEW i \in 1 .. n, NEW j \in 1 .. n, i < j
      PROVE  q[i] < q[j]
  <2>1. j # 1 /\ j - 1 \in 1 .. n - 1 /\ q[j] = s[j - 1] /\ s[j - 1] \in S \ {m}
    BY <1>4, <1>5, <1>7
  <2>2. CASE i = 1
    <3>1. q[i] = m
      BY <2>2
    <3>2. m <= s[j - 1] /\ m # s[j - 1] /\ m \in Nat /\ s[j - 1] \in Nat
      BY <1>1, <2>1
    <3> QED
      BY <2>1, <3>1, <3>2
  <2>3. CASE i # 1
    <3>1. i - 1 \in 1 .. n - 1 /\ i - 1 < j - 1 /\ q[i] = s[i - 1]
      BY <1>5, <1>7, <2>3
    <3> QED
      BY <1>4, <2>1, <3>1
  <2> QED
    BY <2>2, <2>3
<1> HIDE DEF q
<1>8. Increasing(q, S)
  BY <1>6, <1>7 DEF Increasing, n
<1> QED
  BY <1>8

\* Every finite set of naturals can be listed in order: there is no smallest one
\* that cannot.
LEMMA CanBeListed ==
  ASSUME NEW S \in SUBSET Nat, IsFiniteSet(S)
  PROVE  \E s : Increasing(s, S)
<1> DEFINE Unlisted == {T \in SUBSET S : \A s : ~Increasing(s, T)}
           Sizes == {Cardinality(T) : T \in Unlisted}
<1>1. \A T \in SUBSET S : IsFiniteSet(T) /\ Cardinality(T) \in Nat
  BY FS_Subset, FS_CardinalityType
<1>2. SUFFICES ASSUME Unlisted # {}
               PROVE  FALSE
  <2>1. S \notin Unlisted
    BY <1>2
  <2> QED
    BY <2>1
<1>3. Sizes \in SUBSET Nat /\ Sizes # {}
  BY <1>1, <1>2
<1>4. PICK T \in Unlisted : Cardinality(T) = Min(Sizes)
  BY <1>3, MinOfNaturals
<1>5. T \in SUBSET S /\ (\A s : ~Increasing(s, T)) /\ T \in SUBSET Nat /\ IsFiniteSet(T)
  BY <1>1
<1>6. T # {}
  <2>1. ASSUME T = {}
        PROVE  Increasing([i \in 1 .. 0 |-> 0], T)
    <3>1. Cardinality(T) = 0 /\ 1 .. 0 = {}
      BY <2>1, FS_EmptySet
    <3> QED
      BY <3>1 DEF Increasing
  <2> QED
    BY <1>5, <2>1
<1>7. LET U == T \ {Min(T)} IN Cardinality(U) = Cardinality(T) - 1 /\ U \in SUBSET S
  BY <1>5, <1>6, MinOfNaturals, FS_RemoveElement
<1>8. T \ {Min(T)} \notin Unlisted
  <2>1. \A x \in Sizes : Min(Sizes) <= x
    BY <1>3, MinOfNaturals
  <2>2. Cardinality(T) \in Nat
    BY <1>1, <1>5
  <2>3. ~(Cardinality(T) <= Cardinality(T) - 1)
    BY <2>2
  <2> HIDE DEF Unlisted
  <2> QED
    BY <1>4, <1>7, <2>1, <2>3
<1>9. PICK s : Increasing(s, T \ {Min(T)})
  BY <1>7, <1>8
<1> QED
  BY <1>5, <1>6, <1>9, PutFirst

\* What Sorted returns: every element once, in order.
LEMMA SortedLists ==
  ASSUME NEW S \in SUBSET Nat, IsFiniteSet(S)
  PROVE  /\ Cardinality(S) \in Nat
         /\ Sorted(S) \in [1 .. Cardinality(S) -> S]
         /\ Sorted(S) \in Seq(S)
         /\ Len(Sorted(S)) = Cardinality(S)
         /\ \A i, j \in 1 .. Cardinality(S) : i < j => Sorted(S)[i] < Sorted(S)[j]
         /\ \A x \in S : \E i \in 1 .. Cardinality(S) : Sorted(S)[i] = x
<1> DEFINE n == Cardinality(S)
           s == Sorted(S)
<1>1. n \in Nat
  BY FS_CardinalityType
<1>2. Increasing(s, S)
  <2>1. PICK q : Increasing(q, S)
    BY CanBeListed
  <2> QED
    BY <2>1 DEF Increasing, Sorted
<1> HIDE DEF s
<1>3. s \in [1 .. n -> S] /\ \A i, j \in 1 .. n : i < j => s[i] < s[j]
  BY <1>2 DEF Increasing
<1>4. s \in Injection(1 .. n, S)
  <2>1. ASSUME NEW i \in 1 .. n, NEW j \in 1 .. n, i # j
        PROVE  s[i] # s[j]
    <3>1. s[i] \in Nat /\ s[j] \in Nat
      BY <1>3
    <3>2. i < j \/ j < i
      BY <1>1, <2>1
    <3> QED
      BY <1>3, <3>1, <3>2
  <2> QED
    BY <1>3, <2>1 DEF Injection, IsInjective
<1>5. Cardinality(1 .. n) = n
  BY <1>1, FS_Interval
<1>6. s \in Surjection(1 .. n, S)
  BY <1>4, <1>5, FS_Injection
<1>7. \A x \in S : \E i \in 1 .. n : s[i] = x
  BY <1>6 DEF Surjection
<1>8. s \in Seq(S) /\ Len(s) = n
  BY <1>1, <1>3
<1> QED
  BY <1>1, <1>3, <1>7, <1>8 DEF s

-----------------------------------------------------------------------------
(* Credentials keep their types.                                           *)

\* A finite set of integers has a greatest element, and Max returns it: there is no
\* smallest one that has none.
LEMMA Greatest ==
  ASSUME NEW S \in SUBSET Int, IsFiniteSet(S), S # {}
  PROVE  /\ Max(S) \in S
         /\ \A x \in S : Max(S) >= x
<1> DEFINE HasTop(T) == \E g \in T : \A x \in T : g >= x
           Flat == {T \in SUBSET S : T # {} /\ ~HasTop(T)}
           Sizes == {Cardinality(T) : T \in Flat}
<1>1. \A T \in SUBSET S : IsFiniteSet(T) /\ Cardinality(T) \in Nat
  BY FS_Subset, FS_CardinalityType
<1>2. SUFFICES ASSUME Flat # {}
               PROVE  FALSE
  <2>1. S \notin Flat
    BY <1>2
  <2> QED
    BY <2>1 DEF Max
<1>3. Sizes \in SUBSET Nat /\ Sizes # {}
  BY <1>1, <1>2
<1>4. Min(Sizes) \in Sizes /\ \A n \in Sizes : Min(Sizes) <= n
  BY <1>3, MinOfNaturals
<1>5. PICK T \in Flat : Cardinality(T) = Min(Sizes)
  BY <1>4
<1>6. PICK x \in T : TRUE
  OBVIOUS
<1> DEFINE U == T \ {x}
<1>7. T \in SUBSET S /\ x \in Int /\ ~HasTop(T)
  OBVIOUS
<1>8. U \in SUBSET S /\ Cardinality(U) = Cardinality(T) - 1 /\ Cardinality(T) \in Nat
  BY <1>1, <1>7, FS_RemoveElement
<1>9. U \notin Flat
  <2>1. U \in Flat => Min(Sizes) <= Cardinality(U)
    BY <1>4
  <2> HIDE DEF U, Flat
  <2> QED
    BY <2>1, <1>5, <1>8
<1>10. U = {} \/ HasTop(U)
  BY <1>8, <1>9
<1>11. CASE U = {}
  <2>1. \A y \in T : y = x
    BY <1>11
  <2>2. x >= x
    BY <1>7
  <2> QED
    BY <2>1, <2>2, <1>7
<1>12. CASE HasTop(U)
  <2>1. PICK g \in U : \A y \in U : g >= y
    BY <1>12
  <2>2. g \in Int /\ g \in T /\ \A y \in T : y \in Int
    BY <1>7
  <2>3. CASE g >= x
    <3>1. \A y \in T : g >= y
      BY <2>1, <2>3
    <3> QED
      BY <3>1, <2>2, <1>7
  <2>4. CASE ~(g >= x)
    <3>1. \A y \in T : x >= y
      <4> SUFFICES ASSUME NEW y \in T PROVE x >= y
        OBVIOUS
      <4>1. y = x \/ g >= y
        BY <2>1
      <4> QED
        BY <4>1, <2>2, <2>4, <1>7
    <3> QED
      BY <3>1, <1>7
  <2> QED
    BY <2>3, <2>4
<1> QED
  BY <1>10, <1>11, <1>12

\* The constants have their types.
LEMMA Durations ==
  /\ QuotaBackoffBase \in Nat /\ QuotaBackoffMax \in Nat /\ CloudflareMin \in Nat
  /\ MaxLevel \in Nat /\ Transient \in Nat /\ Medium \in Nat /\ Long \in Nat
  /\ \A n \in 0 .. MaxLevel : 2^n \in Nat
  /\ \A n \in 0 .. MaxLevel :
       QuotaBackoffBase * 2^n >= QuotaBackoffMax <=> n = MaxLevel
  BY DurationsAssumption

\* The fields of a quota record and of a model state.
LEMMA Fields ==
  /\ \A q \in Quotas : q.exceeded \in BOOLEAN /\ q.recover \in Nat /\ q.level \in 0 .. MaxLevel
  /\ \A s \in ModelStates : /\ s.has \in BOOLEAN /\ s.error \in BOOLEAN /\ s.unavail \in BOOLEAN
                       /\ s.next \in Nat /\ s.quota \in Quotas /\ s.lastErr \in BOOLEAN
  /\ \A a \in Credentials : /\ a.disabled \in BOOLEAN /\ a.status \in {"active", "error", "disabled"}
                      /\ a.unavail \in BOOLEAN /\ a.next \in Nat /\ a.quota \in Quotas
                      /\ a.lastErr \in BOOLEAN /\ a.ms \in [Models -> ModelStates]
  BY DEF Quotas, ModelStates, Credentials

\* The empty quota record, the absent and the clean state.
LEMMA EmptyTypes ==
  NoQuota \in Quotas /\ NoState \in ModelStates /\ Clean \in ModelStates
<1>1. NoQuota \in Quotas
  BY Durations DEF NoQuota, Quotas, ZeroTime
<1> QED
  BY <1>1 DEF NoState, Clean, ModelStates, ZeroTime

\* A fresh credential.
LEMMA FreshType ==
  ASSUME NEW d \in BOOLEAN
  PROVE  FreshAuth(d) \in Credentials
  BY EmptyTypes DEF FreshAuth, Credentials, ZeroTime

-----------------------------------------------------------------------------
(* Cooldown lengths.                                                       *)

\* nextQuotaCooldown returns a length and a level within the bound.
LEMMA QuotaCooldownType ==
  ASSUME NEW level \in 0 .. MaxLevel
  PROVE  QuotaCooldown(level)[1] \in Nat /\ QuotaCooldown(level)[2] \in 0 .. MaxLevel
<1> DEFINE c == QuotaBackoffBase * 2^level
<1>1. c \in Nat
  <2>1. ASSUME NEW x \in Nat, NEW y \in Nat
        PROVE  x * y \in Nat
    OBVIOUS
  <2> QED
    BY <2>1, Durations
<1>2. c >= QuotaBackoffMax <=> level = MaxLevel
  BY Durations
<1> HIDE DEF c
<1>3. CASE c >= QuotaBackoffMax
  <2>1. QuotaCooldown(level) = <<QuotaBackoffMax, level>>
    BY <1>3 DEF QuotaCooldown, c
  <2> QED
    BY <2>1, Durations
<1>4. CASE ~(c >= QuotaBackoffMax)
  <2>1. QuotaCooldown(level) = <<c, level + 1>>
    BY <1>4 DEF QuotaCooldown, c
  <2>2. level + 1 \in 0 .. MaxLevel
    BY <1>2, <1>4, Durations
  <2> QED
    BY <2>1, <2>2, <1>1
<1> QED
  BY <1>3, <1>4

\* nextCloudflareCooldown likewise.
LEMMA CloudflareCooldownType ==
  ASSUME NEW level \in 0 .. MaxLevel
  PROVE  CloudflareCooldown(level)[1] \in Nat /\ CloudflareCooldown(level)[2] \in 0 .. MaxLevel
<1> DEFINE q == QuotaCooldown(level)
<1>1. q[1] \in Nat /\ q[2] \in 0 .. MaxLevel
  BY QuotaCooldownType
<1> HIDE DEF q
<1>2. CloudflareCooldown(level) = <<MaxOf(q[1], CloudflareMin), q[2]>>
  BY DEF CloudflareCooldown, q
<1>3. MaxOf(q[1], CloudflareMin) \in Nat
  BY <1>1, Durations DEF MaxOf
<1> QED
  BY <1>1, <1>2, <1>3

\* A failure leaves a quota record within the bound.
LEMMA FailedQuotaType ==
  ASSUME NEW q \in Quotas, NEW kind \in Kinds, NEW hint \in HintsFor(kind),
         NEW switch \in BOOLEAN, NEW t \in Nat
  PROVE  FailedQuota(q, kind, hint, switch, t) \in Quotas
<1>1. ASSUME NEW r \in Nat, NEW l \in 0 .. MaxLevel
      PROVE  [exceeded |-> TRUE, recover |-> r, level |-> l] \in Quotas
  BY DEF Quotas
<1>2. q.level \in 0 .. MaxLevel
  BY Fields
<1>3. CASE kind = "cloudflare"
  <2>1. CASE switch
    BY <1>1, <1>2, <1>3, <2>1 DEF FailedQuota, ZeroTime
  <2>2. CASE ~switch
    <3> DEFINE c == CloudflareCooldown(q.level)
    <3>1. c[1] \in Nat /\ c[2] \in 0 .. MaxLevel
      BY <1>2, CloudflareCooldownType
    <3>2. FailedQuota(q, kind, hint, switch, t)
            = [exceeded |-> TRUE, recover |-> t + c[1], level |-> c[2]]
      BY <1>3, <2>2 DEF FailedQuota
    <3> HIDE DEF c
    <3>3. t + c[1] \in Nat
      BY <3>1
    <3> QED
      BY <1>1, <3>1, <3>2, <3>3
  <2> QED
    BY <2>1, <2>2
<1>4. CASE kind = "quota"
  <2>1. CASE switch
    BY <1>1, <1>2, <1>4, <2>1 DEF FailedQuota, ZeroTime
  <2>2. CASE ~switch /\ hint # NoHint
    <3>1. hint \in Nat
      BY <2>2, SchedulerAssumption DEF HintsFor
    <3>2. FailedQuota(q, kind, hint, switch, t)
            = [exceeded |-> TRUE, recover |-> t + hint, level |-> q.level]
      BY <1>4, <2>2 DEF FailedQuota
    <3>3. t + hint \in Nat
      BY <3>1
    <3> QED
      BY <1>1, <1>2, <3>2, <3>3
  <2>3. CASE ~switch /\ hint = NoHint
    <3> DEFINE c == QuotaCooldown(q.level)
    <3>1. c[1] \in Nat /\ c[2] \in 0 .. MaxLevel
      BY <1>2, QuotaCooldownType
    <3>2. FailedQuota(q, kind, hint, switch, t)
            = [exceeded |-> TRUE, recover |-> t + c[1], level |-> c[2]]
      BY <1>4, <2>3 DEF FailedQuota
    <3> HIDE DEF c
    <3>3. t + c[1] \in Nat
      BY <3>1
    <3> QED
      BY <1>1, <3>1, <3>2, <3>3
  <2> QED
    BY <2>1, <2>2, <2>3
<1>5. CASE kind \notin {"cloudflare", "quota"}
  <2>1. FailedQuota(q, kind, hint, switch, t) = q
    BY <1>5 DEF FailedQuota
  <2> QED
    BY <2>1
<1> QED
  BY <1>3, <1>4, <1>5

\* A failure leaves a retry time.
LEMMA FailedNextType ==
  ASSUME NEW q \in Quotas, NEW kind \in Kinds, NEW hint \in HintsFor(kind),
         NEW switch \in BOOLEAN, NEW t \in Nat
  PROVE  FailedNext(q, kind, hint, switch, t) \in Nat
<1>1. FailedQuota(q, kind, hint, switch, t).recover \in Nat
  BY FailedQuotaType, Fields
<1>2. /\ t + Long \in Nat /\ t + Medium \in Nat /\ ZeroTime \in Nat
      /\ After(t, Transient) \in Nat
  BY Durations DEF After, ZeroTime
<1> HIDE DEF ZeroTime
<1> QED
  BY <1>1, <1>2 DEF FailedNext, Kinds

-----------------------------------------------------------------------------
(* The functions on a credential keep its types.                           *)

\* A new retry time of a model, without and with a new quota record.
LEMMA SetRetry ==
  ASSUME NEW s \in ModelStates, NEW u \in BOOLEAN, NEW n \in Nat
  PROVE  [s EXCEPT !.unavail = u, !.next = n] \in ModelStates
  BY DEF ModelStates

\* New model states.
LEMMA SetStates ==
  ASSUME NEW a \in Credentials, NEW f \in [Models -> ModelStates]
  PROVE  [a EXCEPT !.ms = f] \in Credentials
  BY DEF Credentials

\* A new aggregate.
LEMMA SetAggregate ==
  ASSUME NEW a \in Credentials, NEW f \in [Models -> ModelStates], NEW u \in BOOLEAN,
         NEW n \in Nat, NEW q \in Quotas
  PROVE  [a EXCEPT !.ms = f, !.unavail = u, !.next = n, !.quota = q] \in Credentials
  BY DEF Credentials

\* A new status.
LEMMA SetHealth ==
  ASSUME NEW a \in Credentials, NEW e \in BOOLEAN,
         NEW st \in {"active", "error", "disabled"}
  PROVE  [a EXCEPT !.lastErr = e, !.status = st] \in Credentials
  BY DEF Credentials

\* New model states and status.
LEMMA SetFailed ==
  ASSUME NEW a \in Credentials, NEW f \in [Models -> ModelStates],
         NEW st \in {"active", "error", "disabled"}, NEW e \in BOOLEAN
  PROVE  [a EXCEPT !.ms = f, !.status = st, !.lastErr = e] \in Credentials
  BY DEF Credentials

\* A new disabled flag.
LEMMA SetFlag ==
  ASSUME NEW a \in Credentials, NEW d \in BOOLEAN,
         NEW st \in {"active", "error", "disabled"}
  PROVE  [a EXCEPT !.disabled = d, !.status = st] \in Credentials
  BY DEF Credentials

\* An expired cooldown is swept to a state.
LEMMA SweptType ==
  ASSUME NEW s \in ModelStates, NEW t \in Nat
  PROVE  Swept(s, t) \in ModelStates
<1>1. ZeroTime \in Nat
  BY DEF ZeroTime
<1>2. [s EXCEPT !.unavail = FALSE, !.next = ZeroTime] \in ModelStates
  BY <1>1, SetRetry
<1> QED
  BY <1>2 DEF Swept

\* updateAggregatedAvailability.
LEMMA UpdateAggregatedType ==
  ASSUME NEW a \in Credentials, NEW t \in Nat
  PROVE  UpdateAggregated(a, t) \in Credentials
<1> DEFINE ms   == [m \in Models |-> Swept(a.ms[m], t)]
           P    == Present(a)
           over == {m \in P : ms[m].quota.exceeded}
           recs == {ms[m].quota.recover : m \in over} \ {ZeroTime}
           lvls == {ms[m].quota.level : m \in over}
           nxts == {ms[m].next : m \in P}
           all  == P # {} /\ \A m \in P : Cooling(ms[m], t)
           nxt  == IF all THEN Min(nxts) ELSE ZeroTime
           quo  == IF over = {} THEN NoQuota
                   ELSE [exceeded |-> TRUE,
                         recover |-> IF recs = {} THEN ZeroTime ELSE Min(recs),
                         level |-> Max(lvls)]
<1>1. ms \in [Models -> ModelStates]
  BY SweptType, Fields
<1>2. P \subseteq Models
  BY DEF Present
<1>3. UpdateAggregated(a, t) = [a EXCEPT !.ms = ms, !.unavail = all, !.next = nxt, !.quota = quo]
  BY DEF UpdateAggregated
<1>4. over \subseteq P
  OBVIOUS
<1> HIDE DEF ms, P, over
<1>5. \A m \in Models : ms[m].next \in Nat /\ ms[m].quota \in Quotas
  BY <1>1, Fields
<1>6. nxt \in Nat
  <2>1. CASE all
    <3>1. nxts \in SUBSET Nat /\ nxts # {}
      BY <1>2, <1>5, <2>1
    <3> HIDE DEF nxts
    <3> QED
      BY <3>1, <2>1, MinOfNaturals
  <2> QED
    BY <2>1 DEF ZeroTime
<1>7. quo \in Quotas
  <2>1. CASE over = {}
    BY <2>1, EmptyTypes
  <2>2. CASE over # {}
    <3>1. \A m \in over : ms[m].quota.recover \in Nat /\ ms[m].quota.level \in 0 .. MaxLevel
      BY <1>2, <1>4, <1>5, Fields
    <3>2. recs \in SUBSET Nat
      BY <3>1
    <3>3. lvls \in SUBSET (0 .. MaxLevel) /\ lvls # {}
      BY <3>1, <2>2
    <3> HIDE DEF recs, lvls
    <3>4. (IF recs = {} THEN ZeroTime ELSE Min(recs)) \in Nat
      BY <3>2, MinOfNaturals DEF ZeroTime
    <3>5. Max(lvls) \in 0 .. MaxLevel
      <4>1. IsFiniteSet(lvls) /\ lvls \in SUBSET Int
        <5>1. IsFiniteSet(0 .. MaxLevel) /\ 0 .. MaxLevel \subseteq Int
          BY Durations, FS_Interval
        <5> QED
          BY <3>3, <5>1, FS_Subset
      <4> QED
        BY <3>3, <4>1, Greatest
    <3> QED
      BY <2>2, <3>4, <3>5 DEF Quotas
  <2> QED
    BY <2>1, <2>2
<1>8. all \in BOOLEAN
  OBVIOUS
<1> HIDE DEF nxt, quo, all
<1>9. [a EXCEPT !.ms = ms, !.unavail = all, !.next = nxt, !.quota = quo] \in Credentials
  BY <1>1, <1>6, <1>7, <1>8, SetAggregate
<1> QED
  BY <1>3, <1>9

\* The tail of a success.
LEMMA HealedType ==
  ASSUME NEW a \in Credentials, NEW t \in Nat
  PROVE  Healed(a, t) \in Credentials
  BY SetHealth DEF Healed

\* MarkResult, success.
LEMMA SucceedType ==
  ASSUME NEW a \in Credentials, NEW m \in Models, NEW t \in Nat
  PROVE  Succeed(a, m, t) \in Credentials
<1>1. [a.ms EXCEPT ![m] = Clean] \in [Models -> ModelStates]
  BY Fields, EmptyTypes
<1>2. [a EXCEPT !.ms = [a.ms EXCEPT ![m] = Clean]] \in Credentials
  BY <1>1, SetStates
<1> QED
  BY <1>2, UpdateAggregatedType, HealedType DEF Succeed

\* The state of a model after a failure.
FailedState(s, kind, hint, switch, t) ==
  [has |-> TRUE, error |-> TRUE, unavail |-> TRUE, lastErr |-> TRUE,
   next  |-> FailedNext(s.quota, kind, hint, switch, t),
   quota |-> FailedQuota(s.quota, kind, hint, switch, t)]

\* MarkResult, failure.
LEMMA FailType ==
  ASSUME NEW a \in Credentials, NEW m \in Models, NEW kind \in Kinds, NEW hint \in HintsFor(kind),
         NEW switch \in BOOLEAN, NEW t \in Nat
  PROVE  Fail(a, m, kind, hint, switch, t) \in Credentials
<1> DEFINE s == FailedState(a.ms[m], kind, hint, switch, t)
           b == [a EXCEPT !.ms = [a.ms EXCEPT ![m] = s], !.status = "error", !.lastErr = TRUE]
<1>1. CASE kind = "request"
  BY <1>1 DEF Fail
<1>2. CASE kind # "request"
  <2>1. a.ms[m] \in ModelStates /\ a.ms[m].quota \in Quotas
    BY Fields
  <2>2. s \in ModelStates
    <3>1. /\ FailedNext(a.ms[m].quota, kind, hint, switch, t) \in Nat
          /\ FailedQuota(a.ms[m].quota, kind, hint, switch, t) \in Quotas
      BY <2>1, FailedNextType, FailedQuotaType
    <3> QED
      BY <3>1 DEF FailedState, ModelStates
  <2> HIDE DEF s
  <2>3. [a.ms EXCEPT ![m] = s] \in [Models -> ModelStates]
    BY <2>2, Fields
  <2>4. b \in Credentials
    BY <2>3, SetFailed
  <2>5. Fail(a, m, kind, hint, switch, t) = UpdateAggregated(b, t)
    BY <1>2 DEF Fail, FailedState, s
  <2> QED
    BY <2>4, <2>5, UpdateAggregatedType
<1> QED
  BY <1>1, <1>2

-----------------------------------------------------------------------------
(* Entries, views and shards.                                              *)

Entries == [in : BOOLEAN, state : {"ready", "cooldown", "blocked", "disabled"}, next : Nat]
Views == [flat : Seq(Auths), cursor : Nat]
Buckets == [all : Views, ws : Views]
ShardRecords == [made : BOOLEAN, entries : [Auths -> Entries], ready : [Priorities -> Buckets],
                 blocked : SUBSET Auths]
Pictures == [Auths -> Snapshots \union {NoAuth}]   \* what a provider knows

\* An entry says what was true of the credential when it was last looked at, and
\* there is one for each credential that supports the model.
EntriesFollow(entries, k, ms, t) ==
  \A a \in Auths :
    /\ entries[a].in <=> ms[a] # NoAuth /\ Supports(ms[a], k)
    /\ entries[a].in => \E u \in 1 .. t : entries[a] = Judged(ms[a], k, u)

\* A view lists these credentials, and its cursor is in it or one past it.
ViewOf(v, ids) == v.flat = Sorted(ids) /\ v.cursor \in 0 .. Cardinality(ids)

\* The views are what the entries say.
ViewsSay(s, ms) ==
  /\ s.blocked = {a \in Auths : s.entries[a].in /\ s.entries[a].state \in {"cooldown", "blocked"}}
  /\ \A pr \in Priorities :
       /\ ViewOf(s.ready[pr].all, ReadyAt(s.entries, ms, pr))
       /\ ViewOf(s.ready[pr].ws, {a \in ReadyAt(s.entries, ms, pr) : ms[a].ws})

\* A shard of model k for a provider that knows ms.
Sound(s, k, ms, t) ==
  /\ s \in ShardRecords
  /\ IF s.made THEN EntriesFollow(s.entries, k, ms, t) /\ ViewsSay(s, ms) ELSE s = NoShard

\* One that requests use.
Live(s, k, ms, t) == Sound(s, k, ms, t) /\ s.made

\* The fields of a snapshot, an entry, a view and a shard.
LEMMA ShardFields ==
  /\ \A x \in Snapshots : /\ x.prov \in Providers /\ x.prio \in Priorities /\ x.ws \in BOOLEAN
                          /\ x.supports \subseteq Models /\ x.cred \in Credentials
                          /\ x # NoAuth
  /\ \A e \in Entries : e.in \in BOOLEAN /\ e.next \in Nat
  /\ \A v \in Views : v.flat \in Seq(Auths) /\ v.cursor \in Nat
  /\ \A b \in Buckets : b.all \in Views /\ b.ws \in Views
  /\ \A s \in ShardRecords : /\ s.made \in BOOLEAN /\ s.entries \in [Auths -> Entries]
                             /\ s.ready \in [Priorities -> Buckets] /\ s.blocked \subseteq Auths
  BY SchedulerAssumption DEF Snapshots, Entries, Views, Buckets, ShardRecords

\* A list of credentials is one of naturals, and finite.
LEMMA ListedAuths ==
  ASSUME NEW ids \in SUBSET Auths
  PROVE  /\ IsFiniteSet(ids) /\ ids \in SUBSET Nat
         /\ Cardinality(ids) \in Nat /\ (ids # {} <=> Cardinality(ids) # 0)
         /\ Sorted(ids) \in [1 .. Cardinality(ids) -> ids]
         /\ Sorted(ids) \in Seq(Auths) /\ Len(Sorted(ids)) = Cardinality(ids)
<1>1. IsFiniteSet(ids) /\ ids \in SUBSET Nat
  BY SchedulerAssumption, FS_Subset
<1>2. ids # {} <=> Cardinality(ids) # 0
  BY <1>1, FS_EmptySet
<1>3. /\ Cardinality(ids) \in Nat /\ Sorted(ids) \in [1 .. Cardinality(ids) -> ids]
      /\ Sorted(ids) \in Seq(ids) /\ Len(Sorted(ids)) = Cardinality(ids)
  BY <1>1, SortedLists
<1>4. Sorted(ids) \in Seq(Auths)
  BY <1>3
<1> QED
  BY <1>1, <1>2, <1>3, <1>4

\* What is known of the models a request may ask for.
LEMMA KeyIsModel == \A k \in Keys : k = AnyModel \/ k \in Models
  BY SchedulerAssumption DEF Keys

\* The state a verdict is about: the model's or the credential's own.
About(snap, k) == IF k = AnyModel THEN snap.cred ELSE snap.cred.ms[k]

LEMMA AboutFields ==
  ASSUME NEW snap \in Snapshots, NEW k \in Keys
  PROVE  /\ About(snap, k).next \in Nat /\ About(snap, k).quota.recover \in Nat
         /\ About(snap, k).unavail \in BOOLEAN
<1>1. snap.cred \in Credentials
  BY ShardFields
<1>2. CASE k = AnyModel
  BY <1>1, <1>2, Fields DEF About
<1>3. CASE k # AnyModel
  <2>1. snap.cred.ms[k] \in ModelStates
    BY <1>1, <1>3, KeyIsModel, Fields
  <2> QED
    BY <1>3, <2>1, Fields DEF About
<1> QED
  BY <1>2, <1>3

\* A verdict as an entry.  One that waits for a retry time waits for one to come.
LEMMA JudgedEntry ==
  ASSUME NEW snap \in Snapshots, NEW k \in Keys, NEW t \in Nat
  PROVE  /\ Judged(snap, k, t) \in Entries
         /\ Judged(snap, k, t).in
         /\ Judged(snap, k, t).state = "ready" <=> ~BlockedAt(snap, k, t)
         /\ Judged(snap, k, t).state = "disabled" => IsDisabled(snap.cred)
         /\ Judged(snap, k, t).state \in {"cooldown", "blocked"} =>
              /\ Cooling(About(snap, k), t)
              /\ Judged(snap, k, t).next = ReportedEnd(About(snap, k), t)
<1> DEFINE s == About(snap, k)
           e == Judged(snap, k, t)
<1>1. s.next \in Nat /\ s.quota.recover \in Nat
  BY AboutFields
<1>2. ReportedEnd(s, t) \in Nat /\ ZeroTime \in Nat
  BY <1>1 DEF ReportedEnd, ZeroTime
<1>3. BlockedAt(snap, k, t) => IsDisabled(snap.cred) \/ Cooling(s, t)
  BY DEF BlockedAt, BlockedAny, BlockedFor, About
<1>4. e = IF ~BlockedAt(snap, k, t) THEN [in |-> TRUE, state |-> "ready", next |-> ZeroTime]
          ELSE IF IsDisabled(snap.cred) THEN [in |-> TRUE, state |-> "disabled", next |-> ZeroTime]
          ELSE [in |-> TRUE, state |-> IF s.quota.exceeded THEN "cooldown" ELSE "blocked",
                next |-> ReportedEnd(s, t)]
  BY DEF Judged, About
<1> HIDE DEF s, e, ZeroTime
<1>5. CASE ~BlockedAt(snap, k, t)
  <2>1. e = [in |-> TRUE, state |-> "ready", next |-> ZeroTime]
    BY <1>4, <1>5
  <2>2. e \in Entries /\ e.in = TRUE /\ e.state = "ready"
    BY <1>2, <2>1 DEF Entries
  <2> QED
    BY <1>5, <2>2 DEF e
<1>6. CASE BlockedAt(snap, k, t) /\ IsDisabled(snap.cred)
  <2>1. e = [in |-> TRUE, state |-> "disabled", next |-> ZeroTime]
    BY <1>4, <1>6
  <2>2. e \in Entries /\ e.in = TRUE /\ e.state = "disabled"
    BY <1>2, <2>1 DEF Entries
  <2> QED
    BY <1>6, <2>2 DEF e
<1>7. CASE BlockedAt(snap, k, t) /\ ~IsDisabled(snap.cred)
  <2>1. e = [in |-> TRUE, state |-> IF s.quota.exceeded THEN "cooldown" ELSE "blocked",
             next |-> ReportedEnd(s, t)]
    BY <1>4, <1>7
  <2>2. e.in = TRUE /\ e.next = ReportedEnd(s, t) /\ e.state \in {"cooldown", "blocked"}
    BY <2>1
  <2>3. e \in Entries
    BY <1>2, <2>1 DEF Entries
  <2> QED
    BY <1>3, <1>7, <2>2, <2>3 DEF s, e
<1> QED
  BY <1>5, <1>6, <1>7 DEF s, e

-----------------------------------------------------------------------------
(* Rebuilding a shard.                                                     *)

\* buildReadyView.
LEMMA ViewIsOf ==
  ASSUME NEW ids \in SUBSET Auths, NEW c \in Nat
  PROVE  View(ids, c) \in Views /\ ViewOf(View(ids, c), ids)
<1>1. /\ Cardinality(ids) \in Nat /\ (ids # {} <=> Cardinality(ids) # 0)
      /\ Sorted(ids) \in Seq(Auths)
  BY ListedAuths
<1> DEFINE n == Cardinality(ids)
           cursor == IF ids = {} THEN 0 ELSE c % n
<1>2. cursor \in 0 .. n
  BY <1>1
<1>3. View(ids, c) = [flat |-> Sorted(ids), cursor |-> cursor]
  BY DEF View
<1> HIDE DEF cursor
<1> QED
  BY <1>1, <1>2, <1>3 DEF ViewOf, Views

\* Sets of credentials a view may be of.
LEMMA ReadyAuths ==
  ASSUME NEW e, NEW ms, NEW pr
  PROVE  /\ ReadyAt(e, ms, pr) \in SUBSET Auths
         /\ {a \in ReadyAt(e, ms, pr) : ms[a].ws} \in SUBSET Auths
  BY DEF ReadyAt

\* rebuildIndexesLocked: a shard with these entries is sound, whatever it was.
LEMMA RebuiltIsSound ==
  ASSUME NEW s \in ShardRecords, NEW k \in Keys, NEW ms, NEW t,
         NEW e \in [Auths -> Entries], EntriesFollow(e, k, ms, t)
  PROVE  Sound(Rebuilt(s, e, ms), k, ms, t)
<1> DEFINE r == Rebuilt(s, e, ms)
           ready == [p \in Priorities |->
                       [all |-> View(ReadyAt(e, ms, p), s.ready[p].all.cursor),
                        ws  |-> View({a \in ReadyAt(e, ms, p) : ms[a].ws}, s.ready[p].ws.cursor)]]
           blocked == {a \in Auths : e[a].in /\ e[a].state \in {"cooldown", "blocked"}}
<1>1. r = [made |-> TRUE, entries |-> e, ready |-> ready, blocked |-> blocked]
  BY DEF Rebuilt
<1>2. ASSUME NEW p \in Priorities
      PROVE  /\ ready[p] \in Buckets
             /\ ViewOf(ready[p].all, ReadyAt(e, ms, p))
             /\ ViewOf(ready[p].ws, {a \in ReadyAt(e, ms, p) : ms[a].ws})
  <2>1. s.ready[p].all.cursor \in Nat /\ s.ready[p].ws.cursor \in Nat
    BY ShardFields
  <2> DEFINE v == View(ReadyAt(e, ms, p), s.ready[p].all.cursor)
             w == View({a \in ReadyAt(e, ms, p) : ms[a].ws}, s.ready[p].ws.cursor)
  <2>2. v \in Views /\ ViewOf(v, ReadyAt(e, ms, p))
    BY <2>1, ReadyAuths, ViewIsOf
  <2>3. w \in Views /\ ViewOf(w, {a \in ReadyAt(e, ms, p) : ms[a].ws})
    BY <2>1, ReadyAuths, ViewIsOf
  <2>4. ready[p] = [all |-> v, ws |-> w]
    OBVIOUS
  <2> HIDE DEF v, w, ready
  <2> QED
    BY <2>2, <2>3, <2>4 DEF Buckets
<1>3. blocked \in SUBSET Auths
  OBVIOUS
<1>4. ready \in [Priorities -> Buckets]
  BY <1>2
<1> HIDE DEF ready, blocked
<1>5. r \in ShardRecords
  BY <1>1, <1>3, <1>4 DEF ShardRecords
<1>6. r.made = TRUE /\ r.entries = e /\ r.ready = ready /\ r.blocked = blocked
  BY <1>1
<1>7. ViewsSay(r, ms)
  BY <1>2, <1>6 DEF ViewsSay, blocked
<1> HIDE DEF r
<1>8. Sound(r, k, ms, t)
  BY <1>5, <1>6, <1>7 DEF Sound
<1> QED
  BY <1>8 DEF r

\* Views say the same of another picture in which the credentials with an entry have
\* the same priority and websocket support.
LEMMA SameViews ==
  ASSUME NEW s \in ShardRecords, NEW ms, NEW ms2, ViewsSay(s, ms),
         \A a \in Auths : s.entries[a].in => ms[a].prio = ms2[a].prio /\ ms[a].ws = ms2[a].ws
  PROVE  ViewsSay(s, ms2)
<1>1. ASSUME NEW p \in Priorities
      PROVE  /\ ReadyAt(s.entries, ms, p) = ReadyAt(s.entries, ms2, p)
             /\ {a \in ReadyAt(s.entries, ms, p) : ms[a].ws}
                  = {a \in ReadyAt(s.entries, ms2, p) : ms2[a].ws}
  BY DEF ReadyAt
<1> QED
  BY <1>1 DEF ViewsSay

\* The picture changes for one credential.
Differs(ms, ms2, a) == \A b \in Auths \ {a} : ms2[b] = ms[b]

\* removeEntryLocked, for a credential that is gone or does not support the model.
LEMMA WithoutEntryIsSound ==
  ASSUME NEW k \in Keys, NEW t \in Nat, NEW a \in Auths, NEW ms, NEW ms2,
         NEW s, Sound(s, k, ms, t), s.made, Differs(ms, ms2, a),
         ~(ms2[a] # NoAuth /\ Supports(ms2[a], k))
  PROVE  Sound(WithoutEntry(s, a, ms2), k, ms2, t)
<1>1. /\ s \in ShardRecords /\ EntriesFollow(s.entries, k, ms, t) /\ ViewsSay(s, ms)
      /\ s.entries \in [Auths -> Entries]
  BY ShardFields DEF Sound
<1>2. CASE ~s.entries[a].in
  <2>1. EntriesFollow(s.entries, k, ms2, t)
    BY <1>1, <1>2 DEF EntriesFollow, Differs
  <2>2. ViewsSay(s, ms2)
    BY <1>1, <1>2, SameViews DEF Differs
  <2>3. WithoutEntry(s, a, ms2) = s
    BY <1>2 DEF WithoutEntry
  <2> QED
    BY <1>1, <2>1, <2>2, <2>3 DEF Sound
<1>3. CASE s.entries[a].in
  <2> DEFINE e == [s.entries EXCEPT ![a] = NoEntry]
  <2>1. NoEntry \in Entries /\ NoEntry.in = FALSE
    BY DEF NoEntry, Entries, ZeroTime
  <2>2. e \in [Auths -> Entries] /\ e[a] = NoEntry /\ \A b \in Auths \ {a} : e[b] = s.entries[b]
    BY <1>1, <2>1
  <2> HIDE DEF e
  <2>3. EntriesFollow(e, k, ms2, t)
    BY <1>1, <2>1, <2>2 DEF EntriesFollow, Differs
  <2>4. Sound(Rebuilt(s, e, ms2), k, ms2, t)
    BY <1>1, <2>2, <2>3, RebuiltIsSound
  <2>5. WithoutEntry(s, a, ms2) = Rebuilt(s, e, ms2)
    BY <1>3 DEF WithoutEntry, e
  <2> QED
    BY <2>4, <2>5
<1> QED
  BY <1>2, <1>3

\* upsertEntryLocked, for one that does.
LEMMA WithEntryIsSound ==
  ASSUME NEW k \in Keys, NEW t \in Nat \ {0}, NEW a \in Auths, NEW ms, NEW ms2,
         NEW s, Sound(s, k, ms, t), s.made, Differs(ms, ms2, a),
         ms2[a] \in Snapshots, Supports(ms2[a], k)
  PROVE  Sound(WithEntry(s, a, k, ms, ms2, t), k, ms2, t)
<1> DEFINE new == Judged(ms2[a], k, t)
           e == [s.entries EXCEPT ![a] = new]
<1>1. /\ s \in ShardRecords /\ EntriesFollow(s.entries, k, ms, t) /\ ViewsSay(s, ms)
      /\ s.entries \in [Auths -> Entries]
  BY ShardFields DEF Sound
<1>2. new \in Entries /\ new.in
  BY JudgedEntry
<1>3. ms2[a] # NoAuth
  BY ShardFields
<1>4. t \in 1 .. t
  OBVIOUS
<1>5. e \in [Auths -> Entries] /\ e[a] = new /\ \A b \in Auths \ {a} : e[b] = s.entries[b]
  BY <1>1, <1>2
<1>6. EntriesFollow(e, k, ms2, t)
  <2> SUFFICES ASSUME NEW b \in Auths
               PROVE  /\ e[b].in <=> ms2[b] # NoAuth /\ Supports(ms2[b], k)
                      /\ e[b].in => \E u \in 1 .. t : e[b] = Judged(ms2[b], k, u)
    BY DEF EntriesFollow
  <2> HIDE DEF e
  <2>1. CASE b = a
    BY <1>2, <1>3, <1>4, <1>5, <2>1
  <2>2. CASE b # a
    BY <1>1, <1>5, <2>2 DEF EntriesFollow, Differs
  <2> QED
    BY <2>1, <2>2
<1>7. CASE s.entries[a].in /\ SameForViews(s.entries[a], new, ms[a], ms2[a])
  <2>1. s.entries[a] = new /\ ms[a].prio = ms2[a].prio /\ ms[a].ws = ms2[a].ws
    BY <1>7 DEF SameForViews
  <2>2. WithEntry(s, a, k, ms, ms2, t) = s
    BY <1>7 DEF WithEntry
  <2>3. \A b \in Auths : e[b] = s.entries[b]
    BY <1>5, <2>1
  <2>4. e = s.entries
    BY <1>1, <1>5, <2>3
  <2>5. ViewsSay(s, ms2)
    BY <1>1, <2>1, SameViews DEF Differs
  <2> QED
    BY <1>1, <1>6, <2>2, <2>4, <2>5 DEF Sound
<1>8. CASE ~(s.entries[a].in /\ SameForViews(s.entries[a], new, ms[a], ms2[a]))
  <2>1. WithEntry(s, a, k, ms, ms2, t) = Rebuilt(s, e, ms2)
    BY <1>8 DEF WithEntry
  <2> HIDE DEF e
  <2>2. Sound(Rebuilt(s, e, ms2), k, ms2, t)
    BY <1>1, <1>5, <1>6, RebuiltIsSound
  <2> QED
    BY <2>1, <2>2
<1> QED
  BY <1>7, <1>8

\* Time passes: what was true of an entry stays so.
LEMMA LaterIsSound ==
  ASSUME NEW k, NEW ms, NEW s, NEW t \in Nat, NEW t2 \in Nat, t <= t2, Sound(s, k, ms, t)
  PROVE  Sound(s, k, ms, t2)
<1>1. \A u \in 1 .. t : u \in 1 .. t2
  OBVIOUS
<1>2. EntriesFollow(s.entries, k, ms, t) => EntriesFollow(s.entries, k, ms, t2)
  BY <1>1 DEF EntriesFollow
<1> QED
  BY <1>2 DEF Sound

\* The credentials promoteExpiredLocked looks at again.
Due(s, t) == {a \in s.blocked : s.entries[a].next # ZeroTime /\ s.entries[a].next <= t}

\* promoteExpiredLocked.
LEMMA PromotedIsSound ==
  ASSUME NEW k \in Keys, NEW t \in Nat \ {0}, NEW ms \in Pictures,
         NEW s, Sound(s, k, ms, t), s.made
  PROVE  Sound(Promoted(s, k, ms, t), k, ms, t) /\ Promoted(s, k, ms, t).made
<1> DEFINE due == Due(s, t)
           e == [a \in Auths |-> IF a \in due THEN Judged(ms[a], k, t) ELSE s.entries[a]]
<1>1. /\ s \in ShardRecords /\ EntriesFollow(s.entries, k, ms, t) /\ ViewsSay(s, ms)
      /\ s.entries \in [Auths -> Entries]
  BY ShardFields DEF Sound
<1>2. ASSUME NEW a \in due
      PROVE  /\ a \in Auths /\ ms[a] \in Snapshots /\ ms[a] # NoAuth /\ Supports(ms[a], k)
             /\ Judged(ms[a], k, t) \in Entries /\ Judged(ms[a], k, t).in
  <2>1. a \in Auths /\ s.entries[a].in
    BY <1>1 DEF Due, ViewsSay
  <2>2. ms[a] # NoAuth /\ Supports(ms[a], k) /\ ms[a] \in Snapshots
    BY <1>1, <2>1 DEF EntriesFollow, Pictures
  <2> QED
    BY <2>1, <2>2, JudgedEntry
<1>3. t \in 1 .. t
  OBVIOUS
<1> HIDE DEF due
<1>4. e \in [Auths -> Entries]
  BY <1>1, <1>2
<1>5. ASSUME NEW a \in Auths
      PROVE  /\ e[a].in <=> ms[a] # NoAuth /\ Supports(ms[a], k)
             /\ e[a].in => \E u \in 1 .. t : e[a] = Judged(ms[a], k, u)
  <2>1. CASE a \in due
    <3>1. e[a] = Judged(ms[a], k, t)
      BY <2>1
    <3> QED
      BY <1>2, <1>3, <2>1, <3>1
  <2>2. CASE a \notin due
    <3>1. e[a] = s.entries[a]
      BY <2>2
    <3> QED
      BY <1>1, <3>1 DEF EntriesFollow
  <2> QED
    BY <2>1, <2>2
<1> HIDE DEF e
<1>6. Sound(Rebuilt(s, e, ms), k, ms, t)
  BY <1>1, <1>4, <1>5, RebuiltIsSound DEF EntriesFollow
<1>7. Promoted(s, k, ms, t) = IF due = {} THEN s ELSE Rebuilt(s, e, ms)
  BY DEF Promoted, Due, due, e
<1>8. Rebuilt(s, e, ms).made = TRUE
  BY DEF Rebuilt
<1> QED
  BY <1>6, <1>7, <1>8

\* The entries of a shard that a request asks for first.
FirstEntries(k, ms, t) ==
  [a \in Auths |-> IF ms[a] # NoAuth /\ Supports(ms[a], k) THEN Judged(ms[a], k, t) ELSE NoEntry]

LEMMA FirstEntriesFollow ==
  ASSUME NEW k \in Keys, NEW t \in Nat \ {0}, NEW ms \in Pictures
  PROVE  FirstEntries(k, ms, t) \in [Auths -> Entries] /\ EntriesFollow(FirstEntries(k, ms, t), k, ms, t)
<1>1. NoEntry \in Entries /\ NoEntry.in = FALSE
  BY DEF NoEntry, Entries, ZeroTime
<1>2. \A a \in Auths : ms[a] # NoAuth => Judged(ms[a], k, t) \in Entries /\ Judged(ms[a], k, t).in
  BY JudgedEntry DEF Pictures
<1>3. t \in 1 .. t
  OBVIOUS
<1> QED
  BY <1>1, <1>2, <1>3 DEF FirstEntries, EntriesFollow

\* ensureModelLocked.
LEMMA EnsuredIsSound ==
  ASSUME NEW k \in Keys, NEW t \in Nat \ {0}, NEW ms \in Pictures,
         NEW s, Sound(s, k, ms, t)
  PROVE  Sound(Ensured(s, k, ms, t), k, ms, t) /\ Ensured(s, k, ms, t).made
<1>1. s \in ShardRecords
  BY DEF Sound
<1>2. CASE s.made
  BY <1>2, PromotedIsSound DEF Ensured
<1>3. CASE ~s.made
  <2>1. Ensured(s, k, ms, t) = Rebuilt(s, FirstEntries(k, ms, t), ms)
    BY <1>3 DEF Ensured, FirstEntries
  <2>2. Sound(Rebuilt(s, FirstEntries(k, ms, t), ms), k, ms, t)
    BY <1>1, FirstEntriesFollow, RebuiltIsSound
  <2>3. Rebuilt(s, FirstEntries(k, ms, t), ms).made = TRUE
    BY DEF Rebuilt
  <2> QED
    BY <2>1, <2>2, <2>3
<1> QED
  BY <1>2, <1>3

-----------------------------------------------------------------------------
(* Picking.                                                                *)

\* What a view has for a request.
LEMMA ElementsOfView ==
  ASSUME NEW ids \in SUBSET Auths, NEW v, ViewOf(v, ids), NEW cands
  PROVE  Elements(v, cands) = ids \intersect cands
<1>1. ids \in SUBSET Nat /\ IsFiniteSet(ids)
  BY ListedAuths
<1>2. /\ Sorted(ids) \in [1 .. Cardinality(ids) -> ids]
      /\ \A x \in ids : \E i \in 1 .. Cardinality(ids) : Sorted(ids)[i] = x
  BY <1>1, SortedLists
<1>3. ToSet(v.flat) = ids
  BY <1>2 DEF ToSet, ViewOf
<1> QED
  BY <1>3 DEF Elements

\* A position in a view, and how far it is from the cursor.
LEMMA StepsInView ==
  ASSUME NEW ids \in SUBSET Auths, NEW v, ViewOf(v, ids), NEW a \in ids
  PROVE  Steps(v, a) \in 0 .. Cardinality(ids) - 1
<1> DEFINE n == Len(v.flat)
           i == CHOOSE i \in 1 .. n : v.flat[i] = a
           c == v.cursor % n
<1>1. ids \in SUBSET Nat /\ IsFiniteSet(ids)
  BY ListedAuths
<1>2. /\ n = Cardinality(ids) /\ n \in Nat \ {0}
      /\ \E j \in 1 .. n : v.flat[j] = a
  BY <1>1, SortedLists DEF ViewOf
<1>3. i \in 1 .. n
  BY <1>2
<1>4. c \in 0 .. n - 1
  BY <1>2 DEF ViewOf
<1> HIDE DEF i, c, n
<1>5. (i - 1 + n - c) % n \in 0 .. n - 1
  BY <1>2, <1>3, <1>4
<1> QED
  BY <1>2, <1>5 DEF Steps, n, i, c

\* Where a credential is in a view.
Place(v, a) == CHOOSE i \in 1 .. Len(v.flat) : v.flat[i] = a

LEMMA PlaceInView ==
  ASSUME NEW ids \in SUBSET Auths, NEW v, ViewOf(v, ids), NEW a \in ids
  PROVE  /\ Len(v.flat) = Cardinality(ids) /\ Len(v.flat) \in Nat \ {0}
         /\ Place(v, a) \in 1 .. Len(v.flat) /\ v.flat[Place(v, a)] = a
<1>1. ids \in SUBSET Nat /\ IsFiniteSet(ids)
  BY ListedAuths
<1>2. /\ Len(v.flat) = Cardinality(ids) /\ Len(v.flat) \in Nat \ {0}
      /\ \E i \in 1 .. Len(v.flat) : v.flat[i] = a
  BY <1>1, SortedLists DEF ViewOf
<1> QED
  BY <1>2 DEF Place

\* The way from cursor c to place i of a ring of n.
Way(n, c, i) == IF i - 1 < c THEN i - 1 + n - c ELSE i - 1 - c

\* A turn that goes to place i, which is no further than j, leaves j closer.
LEMMA CloserAfterTurn ==
  ASSUME NEW n \in Nat \ {0}, NEW c \in 0 .. n - 1, NEW i \in 1 .. n, NEW j \in 1 .. n,
         i # j, Way(n, c, i) <= Way(n, c, j)
  PROVE  Way(n, IF i = n THEN 0 ELSE i, j) < Way(n, c, j)
  BY DEF Way

\* The way from the cursor to a credential, in one formula for each side of the end.
LEMMA StepsAre ==
  ASSUME NEW ids \in SUBSET Auths, NEW v, ViewOf(v, ids), NEW a \in ids
  PROVE  LET n == Len(v.flat)
             c == IF v.cursor = n THEN 0 ELSE v.cursor
             i == Place(v, a)
         IN /\ n \in Nat \ {0} /\ c \in 0 .. n - 1 /\ c = v.cursor % n /\ i \in 1 .. n
            /\ Steps(v, a) = Way(n, c, i)
<1> DEFINE n == Len(v.flat)
           c == IF v.cursor = n THEN 0 ELSE v.cursor
           i == Place(v, a)
<1>1. n = Cardinality(ids) /\ n \in Nat \ {0} /\ i \in 1 .. n
  BY PlaceInView
<1>2. v.cursor \in 0 .. n
  BY <1>1 DEF ViewOf
<1>3. c \in 0 .. n - 1 /\ c = v.cursor % n
  <2>1. v.cursor % n = IF v.cursor < n THEN v.cursor ELSE v.cursor - n
    BY <1>1, <1>2, Wraps
  <2> QED
    BY <1>1, <1>2, <2>1
<1>4. Steps(v, a) = (i - 1 + n - (v.cursor % n)) % n
  BY DEF Steps, Place
<1> DEFINE x == i - 1 + n - c
<1> HIDE DEF n, c, i
<1>5. x \in 0 .. 2 * n - 1
  BY <1>1, <1>3
<1>6. Steps(v, a) = x % n
  BY <1>3, <1>4
<1> HIDE DEF x
<1>7. x % n = IF x < n THEN x ELSE x - n
  BY <1>1, <1>5, Wraps
<1>8. Steps(v, a) = Way(n, c, i)
  BY <1>1, <1>3, <1>6, <1>7 DEF x, Way
<1> QED
  BY <1>1, <1>3, <1>8 DEF n, c, i

\* pickRoundRobin takes the first candidate from the cursor on and leaves the cursor
\* behind it.
LEMMA TurnTaken ==
  ASSUME NEW ids \in SUBSET Auths, NEW v \in Views, ViewOf(v, ids), NEW cands,
         ids \intersect cands # {}
  PROVE  LET a == NextInTurn(v, cands)[1]
             w == NextInTurn(v, cands)[2]
         IN /\ a \in ids \intersect cands
            /\ \A b \in ids \intersect cands : Steps(v, a) <= Steps(v, b)
            /\ w \in Views /\ ViewOf(w, ids) /\ w.flat = v.flat
            /\ w.cursor = Place(v, a)
<1> DEFINE E == ids \intersect cands
           a == CHOOSE a \in E : \A b \in E : Steps(v, a) <= Steps(v, b)
           n == Len(v.flat)
           cursor == (((v.cursor % n) + Steps(v, a)) % n) + 1
           w == [v EXCEPT !.cursor = cursor]
           Ways == {Steps(v, b) : b \in E}
<1>1. Elements(v, cands) = E
  BY ElementsOfView
<1>2. NextInTurn(v, cands) = <<a, w>>
  BY <1>1 DEF NextInTurn
<1>3. \A b \in E : Steps(v, b) \in Nat
  <2> SUFFICES ASSUME NEW b \in E
               PROVE  Steps(v, b) \in Nat
    OBVIOUS
  <2>1. Cardinality(ids) \in Nat
    BY ListedAuths
  <2> QED
    BY <2>1, StepsInView
<1>4. \E x \in E : \A b \in E : Steps(v, x) <= Steps(v, b)
  <2>1. Ways \in SUBSET Nat /\ Ways # {}
    BY <1>3
  <2>2. Min(Ways) \in Ways /\ \A y \in Ways : Min(Ways) <= y
    BY <2>1, MinOfNaturals
  <2> QED
    BY <2>2
<1>5. a \in E /\ \A b \in E : Steps(v, a) <= Steps(v, b)
  BY <1>4
<1> HIDE DEF a, Ways
<1>6. cursor = Place(v, a) /\ Place(v, a) \in 1 .. n /\ n = Cardinality(ids)
  <2> DEFINE c == IF v.cursor = n THEN 0 ELSE v.cursor
             i == Place(v, a)
  <2>1. /\ n \in Nat \ {0} /\ c \in 0 .. n - 1 /\ c = v.cursor % n /\ i \in 1 .. n
        /\ Steps(v, a) = IF i - 1 < c THEN i - 1 + n - c ELSE i - 1 - c
    BY <1>5, StepsAre DEF Way
  <2>2. n = Cardinality(ids)
    BY <1>5, PlaceInView
  <2> DEFINE x == c + Steps(v, a)
  <2>3. x = IF i - 1 < c THEN i - 1 + n ELSE i - 1
    BY <2>1
  <2>4. cursor = (x % n) + 1
    BY <2>1
  <2> HIDE DEF n, c, i, x, cursor
  <2>5. x \in 0 .. 2 * n - 1
    BY <2>1, <2>3
  <2>6. x % n = IF x < n THEN x ELSE x - n
    BY <2>1, <2>5, Wraps
  <2>7. x % n = i - 1
    BY <2>1, <2>3, <2>6
  <2> QED
    BY <2>1, <2>2, <2>4, <2>7 DEF i
<1> HIDE DEF cursor
<1>7. cursor \in Nat /\ cursor \in 0 .. n
  <2>1. n \in Nat
    BY <1>6, ListedAuths
  <2> QED
    BY <1>6, <2>1
<1>8. w \in Views /\ w.flat = v.flat /\ w.cursor = cursor
  BY <1>7 DEF Views
<1>9. ViewOf(w, ids)
  BY <1>6, <1>7, <1>8 DEF ViewOf
<1> HIDE DEF w
<1> QED
  BY <1>2, <1>5, <1>6, <1>8, <1>9

\* It puts the picked one last and brings every other candidate closer.
LEMMA TurnProgresses ==
  ASSUME NEW ids \in SUBSET Auths, NEW v \in Views, ViewOf(v, ids), NEW cands,
         ids \intersect cands # {}
  PROVE  LET a == NextInTurn(v, cands)[1]
             w == NextInTurn(v, cands)[2]
         IN /\ Steps(w, a) = Len(v.flat) - 1
            /\ \A b \in (ids \intersect cands) \ {a} : Steps(w, b) < Steps(v, b)
<1> DEFINE a == NextInTurn(v, cands)[1]
           w == NextInTurn(v, cands)[2]
           n == Len(v.flat)
           c == IF v.cursor = n THEN 0 ELSE v.cursor
           i == Place(v, a)
           c2 == IF i = n THEN 0 ELSE i
<1>1. /\ a \in ids \intersect cands
      /\ \A b \in ids \intersect cands : Steps(v, a) <= Steps(v, b)
      /\ w \in Views /\ ViewOf(w, ids) /\ w.flat = v.flat /\ w.cursor = i
  BY TurnTaken
<1> HIDE DEF a, w
<1>2. \A b \in Auths : Place(w, b) = Place(v, b)
  BY <1>1 DEF Place
<1>3. /\ n \in Nat \ {0} /\ c \in 0 .. n - 1 /\ i \in 1 .. n
      /\ Steps(v, a) = Way(n, c, i)
  BY <1>1, StepsAre
<1>4. v.flat[i] = a
  BY <1>1, PlaceInView
<1>5. ASSUME NEW b \in ids \intersect cands
      PROVE  Steps(w, b) = Way(n, c2, Place(v, b))
  BY <1>1, <1>2, StepsAre
<1>6. Steps(w, a) = n - 1
  <2>1. Steps(w, a) = Way(n, c2, i)
    BY <1>1, <1>5
  <2> HIDE DEF n, i
  <2> QED
    BY <1>3, <2>1 DEF Way
<1>7. ASSUME NEW b \in (ids \intersect cands) \ {a}
      PROVE  Steps(w, b) < Steps(v, b)
  <2> DEFINE j == Place(v, b)
  <2>1. j \in 1 .. n /\ v.flat[j] = b
    BY <1>7, PlaceInView
  <2>2. j # i
    BY <1>4, <1>7, <2>1
  <2>3. Steps(v, b) = Way(n, c, j) /\ Steps(w, b) = Way(n, c2, j)
    BY <1>5, <1>7, StepsAre
  <2>4. Way(n, c, i) <= Way(n, c, j)
    BY <1>1, <1>3, <1>7, <2>3
  <2> HIDE DEF n, c, i, j
  <2>5. Way(n, c2, j) < Way(n, c, j)
    BY <1>3, <2>1, <2>2, <2>4, CloserAfterTurn
  <2> QED
    BY <2>3, <2>5
<1> HIDE DEF n, c, i
<1> QED
  BY <1>6, <1>7 DEF a, w, n

\* The credentials a view of a shard is of.
Ready(s, ms, pr, which) ==
  IF which = "ws" THEN {a \in ReadyAt(s.entries, ms, pr) : ms[a].ws} ELSE ReadyAt(s.entries, ms, pr)

LEMMA ShardViews ==
  ASSUME NEW s \in ShardRecords, NEW ms, ViewsSay(s, ms), NEW pr \in Priorities,
         NEW which \in {"all", "ws"}
  PROVE  /\ Ready(s, ms, pr, which) \in SUBSET Auths
         /\ s.ready[pr][which] \in Views
         /\ ViewOf(s.ready[pr][which], Ready(s, ms, pr, which))
<1>1. s.ready[pr] \in Buckets
  BY ShardFields
<1>2. /\ s.ready[pr].all \in Views /\ s.ready[pr].ws \in Views
      /\ ViewOf(s.ready[pr].all, ReadyAt(s.entries, ms, pr))
      /\ ViewOf(s.ready[pr].ws, {a \in ReadyAt(s.entries, ms, pr) : ms[a].ws})
  BY <1>1, ShardFields DEF ViewsSay
<1>3. CASE which = "all"
  BY <1>2, <1>3, ReadyAuths DEF Ready
<1>4. CASE which = "ws"
  BY <1>2, <1>4, ReadyAuths DEF Ready
<1> QED
  BY <1>3, <1>4

\* A shard whose cursor moved in one view is as sound as before.
LEMMA CursorMoved ==
  ASSUME NEW s, NEW k, NEW ms, NEW t, Live(s, k, ms, t),
         NEW pr \in Priorities, NEW which \in {"all", "ws"},
         NEW v \in Views, ViewOf(v, Ready(s, ms, pr, which))
  PROVE  LET s2 == [s EXCEPT !.ready[pr][which] = v]
         IN Live(s2, k, ms, t) /\ s2.entries = s.entries
<1> DEFINE b == [s.ready[pr] EXCEPT ![which] = v]
           r == [s.ready EXCEPT ![pr] = b]
           s2 == [s EXCEPT !.ready = r]
<1>1. /\ s \in ShardRecords /\ ViewsSay(s, ms) /\ EntriesFollow(s.entries, k, ms, t)
      /\ s.ready \in [Priorities -> Buckets] /\ s.ready[pr] \in Buckets
  BY ShardFields DEF Live, Sound
<1>2. /\ b \in Buckets
      /\ b.all = IF which = "all" THEN v ELSE s.ready[pr].all
      /\ b.ws = IF which = "ws" THEN v ELSE s.ready[pr].ws
  <2>1. CASE which = "all"
    BY <1>1, <2>1 DEF Buckets
  <2>2. CASE which = "ws"
    BY <1>1, <2>2 DEF Buckets
  <2> QED
    BY <2>1, <2>2
<1> HIDE DEF b
<1>3. r \in [Priorities -> Buckets] /\ r[pr] = b /\ \A p \in Priorities \ {pr} : r[p] = s.ready[p]
  BY <1>1, <1>2
<1> HIDE DEF r
<1>4. /\ s2 \in ShardRecords /\ s2.made = s.made /\ s2.entries = s.entries
      /\ s2.ready = r /\ s2.blocked = s.blocked
  BY <1>1, <1>3 DEF ShardRecords
<1>5. [s EXCEPT !.ready[pr][which] = v] = s2
  BY DEF b, r
<1> HIDE DEF s2
<1>6. ViewsSay(s2, ms)
  <2> SUFFICES ASSUME NEW p \in Priorities
               PROVE  /\ ViewOf(r[p].all, ReadyAt(s.entries, ms, p))
                      /\ ViewOf(r[p].ws, {a \in ReadyAt(s.entries, ms, p) : ms[a].ws})
    BY <1>1, <1>4 DEF ViewsSay
  <2>1. CASE p = pr
    BY <1>1, <1>2, <1>3, <2>1 DEF ViewsSay, Ready
  <2>2. CASE p # pr
    BY <1>1, <1>3, <2>2 DEF ViewsSay
  <2> QED
    BY <2>1, <2>2
<1> QED
  BY <1>1, <1>4, <1>5, <1>6 DEF Live, Sound

\* Which candidates a view has.
Offered(s, ms, pr, which, cands) == Ready(s, ms, pr, which) \intersect cands

LEMMA ElementsOfShard ==
  ASSUME NEW s, NEW k, NEW ms, NEW t, Live(s, k, ms, t), NEW cands,
         NEW pr \in Priorities, NEW which \in {"all", "ws"}
  PROVE  Elements(s.ready[pr][which], cands) = Offered(s, ms, pr, which, cands)
  BY ShardViews, ElementsOfView DEF Live, Sound, Offered

LEMMA ElementsOfWs ==
  ASSUME NEW s, NEW k, NEW ms, NEW t, Live(s, k, ms, t), NEW cands, NEW pr \in Priorities
  PROVE  Elements(s.ready[pr].ws, cands) = Offered(s, ms, pr, "ws", cands)
<1>1. s \in ShardRecords /\ ViewsSay(s, ms)
  BY DEF Live, Sound
<1>2. ViewOf(s.ready[pr].ws, Ready(s, ms, pr, "ws"))
  BY <1>1 DEF ViewsSay, Ready
<1>3. Ready(s, ms, pr, "ws") \in SUBSET Auths
  BY <1>1, ShardViews
<1> QED
  BY <1>2, <1>3, ElementsOfView DEF Offered

\* The priorities that have a candidate.
LEMMA UsableOfShard ==
  ASSUME NEW s, NEW k, NEW ms, NEW t, Live(s, k, ms, t), NEW cands,
         NEW which \in {"all", "ws"}
  PROVE  /\ Usable(s, which, cands) = {p \in Priorities : Offered(s, ms, p, which, cands) # {}}
         /\ IsFiniteSet(Usable(s, which, cands)) /\ Usable(s, which, cands) \in SUBSET Int
         /\ Usable(s, which, cands) # {} =>
              /\ Max(Usable(s, which, cands)) \in Usable(s, which, cands)
              /\ \A p \in Usable(s, which, cands) : Max(Usable(s, which, cands)) >= p
<1> DEFINE U == Usable(s, which, cands)
<1>1. U = {p \in Priorities : Offered(s, ms, p, which, cands) # {}}
  <2>1. ASSUME NEW p \in Priorities
        PROVE  Elements(s.ready[p][which], cands) = Offered(s, ms, p, which, cands)
    BY ElementsOfShard
  <2> QED
    BY <2>1 DEF Usable
<1>2. IsFiniteSet(Priorities) /\ Priorities \in SUBSET Int /\ U \in SUBSET Priorities
  BY <1>1, SchedulerAssumption
<1> HIDE DEF U
<1>3. IsFiniteSet(U) /\ U \in SUBSET Int
  BY <1>2, FS_Subset
<1>4. U # {} => Max(U) \in U /\ \A p \in U : Max(U) >= p
  BY <1>3, Greatest
<1> QED
  BY <1>1, <1>3, <1>4 DEF U

\* The view a request looks at.
Viewed(s, ms, prio, preferWs, cands) ==
  IF preferWs /\ Offered(s, ms, prio, "ws", cands) # {} THEN "ws" ELSE "all"

\* pickReadyAtPriorityLocked hands out a candidate of the view if there is one, and
\* leaves the shard sound.
LEMMA PickedAt ==
  ASSUME NEW s, NEW k, NEW ms, NEW t, Live(s, k, ms, t), NEW cands,
         NEW prio \in Priorities, NEW preferWs, NEW strat
  PROVE  LET r == PickAt(s, prio, preferWs, strat, cands)
             E == Offered(s, ms, prio, Viewed(s, ms, prio, preferWs, cands), cands)
         IN /\ Live(r[2], k, ms, t)
            /\ IF E = {} THEN r[1] = NoAuth ELSE r[1] \in E
<1> DEFINE which == Viewed(s, ms, prio, preferWs, cands)
           view == s.ready[prio][which]
           ids == Ready(s, ms, prio, which)
           E == Offered(s, ms, prio, which, cands)
           turn == NextInTurn(view, cands)
           s2 == [s EXCEPT !.ready[prio][which] = turn[2]]
<1>1. which \in {"all", "ws"}
  BY DEF Viewed
<1>2. Elements(s.ready[prio].ws, cands) = Offered(s, ms, prio, "ws", cands)
  BY ElementsOfWs
<1>3. which = IF preferWs /\ Elements(s.ready[prio].ws, cands) # {} THEN "ws" ELSE "all"
  BY <1>2 DEF Viewed
<1>4. Elements(view, cands) = E
  <2>1. ASSUME NEW w \in {"all", "ws"}
        PROVE  Elements(s.ready[prio][w], cands) = Offered(s, ms, prio, w, cands)
    BY ElementsOfShard
  <2> HIDE DEF which
  <2> QED
    BY <1>1, <2>1
<1>5. view \in Views /\ ids \in SUBSET Auths /\ ViewOf(view, ids)
  BY <1>1, ShardViews DEF Live, Sound
<1>6. PickAt(s, prio, preferWs, strat, cands) =
        IF E = {} THEN <<NoAuth, s>>
        ELSE IF strat = "fill-first" THEN <<FirstOf(view, cands), s>>
        ELSE <<turn[1], s2>>
  <2>1. PickAt(s, prio, preferWs, strat, cands) =
          IF Elements(view, cands) = {} THEN <<NoAuth, s>>
          ELSE IF strat = "fill-first" THEN <<FirstOf(view, cands), s>>
          ELSE <<turn[1], s2>>
    BY <1>3 DEF PickAt
  <2> QED
    BY <1>4, <2>1
<1>7. E # {} => FirstOf(view, cands) \in E
  <2>1. E \in SUBSET Nat
    BY <1>5, ListedAuths DEF Offered
  <2> QED
    BY <1>4, <2>1, MinOfNaturals DEF FirstOf
<1>8. E # {} => turn[1] \in E /\ Live(s2, k, ms, t)
  <2> SUFFICES ASSUME E # {}
               PROVE  turn[1] \in E /\ Live(s2, k, ms, t)
    OBVIOUS
  <2>1. turn[1] \in E /\ turn[2] \in Views /\ ViewOf(turn[2], ids)
    <3>1. E = ids \intersect cands
      BY DEF Offered
    <3> HIDE DEF view, ids, E
    <3> QED
      BY <1>5, <3>1, TurnTaken
  <2> HIDE DEF turn, which
  <2> QED
    BY <1>1, <2>1, CursorMoved
<1> HIDE DEF E, turn, s2, view
<1>9. /\ Live(PickAt(s, prio, preferWs, strat, cands)[2], k, ms, t)
      /\ IF E = {} THEN PickAt(s, prio, preferWs, strat, cands)[1] = NoAuth
         ELSE PickAt(s, prio, preferWs, strat, cands)[1] \in E
  BY <1>6, <1>7, <1>8
<1> QED
  BY <1>9 DEF E

\* The candidates that are ready in a shard.
ReadyAmong(s, cands) == {a \in cands : a \in Auths /\ s.entries[a].in /\ s.entries[a].state = "ready"}

\* pickReadyLocked: what it hands out is ready, and no other candidate is better, by
\* websocket support first if that is preferred, then by priority.
LEMMA PickedSingle ==
  ASSUME NEW s, NEW k, NEW ms \in Pictures, NEW t, Live(s, k, ms, t), NEW cands,
         NEW preferWs \in BOOLEAN, NEW strat
  PROVE  LET r == PickSingle(s, preferWs, strat, cands)
             ready == ReadyAmong(s, cands)
         IN /\ Live(r[2], k, ms, t)
            /\ IF ready = {} THEN r[1] = NoAuth
               ELSE /\ r[1] \in ready
                    /\ \A b \in ready :
                         /\ preferWs /\ ms[b].ws => ms[r[1]].ws
                         /\ (preferWs /\ ms[r[1]].ws => preferWs /\ ms[b].ws) => ms[b].prio <= ms[r[1]].prio
<1> DEFINE U == Usable(s, "all", cands)
           W == Usable(s, "ws", cands)
           best == BestPriority(s, preferWs, cands)
           which == Viewed(s, ms, best, preferWs, cands)
           r == PickAt(s, best, preferWs, strat, cands)
           ready == ReadyAmong(s, cands)
<1>1. /\ U = {p \in Priorities : Offered(s, ms, p, "all", cands) # {}}
      /\ W = {p \in Priorities : Offered(s, ms, p, "ws", cands) # {}}
      /\ U # {} => Max(U) \in U /\ \A p \in U : Max(U) >= p
      /\ W # {} => Max(W) \in W /\ \A p \in W : Max(W) >= p
  BY UsableOfShard
<1>2. \A a \in ready : ms[a] \in Snapshots /\ ms[a].prio \in Priorities /\ ms[a].prio \in Int
  <2> SUFFICES ASSUME NEW a \in ready
               PROVE  ms[a] \in Snapshots
    BY ShardFields, SchedulerAssumption
  <2>1. a \in Auths /\ ms[a] # NoAuth
    BY DEF Live, Sound, EntriesFollow, ReadyAmong
  <2> QED
    BY <2>1 DEF Pictures
<1>3. \A p, a : /\ a \in Offered(s, ms, p, "all", cands) <=> a \in ready /\ ms[a].prio = p
                /\ a \in Offered(s, ms, p, "ws", cands) <=> a \in ready /\ ms[a].prio = p /\ ms[a].ws
  BY DEF Offered, Ready, ReadyAt, ReadyAmong
<1>4. best = IF preferWs /\ W # {} THEN Max(W) ELSE Max(U)
  BY DEF BestPriority
<1>5. PickSingle(s, preferWs, strat, cands) = IF U = {} THEN <<NoAuth, s>> ELSE r
  BY DEF PickSingle
<1> HIDE DEF U, W, best, r, ready
<1>6. U = {} <=> ready = {}
  BY <1>1, <1>2, <1>3
<1>7. CASE ready = {}
  BY <1>5, <1>6, <1>7 DEF ready
<1>8. CASE ready # {}
  <2>1. best \in Priorities
    BY <1>1, <1>4, <1>6, <1>8
  <2>2. /\ Live(r[2], k, ms, t)
        /\ IF Offered(s, ms, best, which, cands) = {} THEN r[1] = NoAuth
           ELSE r[1] \in Offered(s, ms, best, which, cands)
    BY <2>1, PickedAt DEF r
  <2>3. CASE preferWs /\ W # {}
    <3>1. best \in W /\ \A p \in W : best >= p
      BY <1>1, <1>4, <2>3
    <3>2. which = "ws"
      BY <1>1, <2>3, <3>1 DEF Viewed
    <3>3. r[1] \in ready /\ ms[r[1]].prio = best /\ ms[r[1]].ws
      BY <1>1, <1>3, <2>2, <3>1, <3>2
    <3>4. \A b \in ready : ms[b].ws => ms[b].prio \in W
      BY <1>1, <1>2, <1>3
    <3>5. \A b \in ready : ms[b].ws => ms[b].prio <= best
      BY <1>2, <2>1, <3>1, <3>4, SchedulerAssumption
    <3>6. /\ r[1] \in ready
          /\ \A b \in ready :
               /\ preferWs /\ ms[b].ws => ms[r[1]].ws
               /\ (preferWs /\ ms[r[1]].ws => preferWs /\ ms[b].ws) => ms[b].prio <= ms[r[1]].prio
      BY <2>3, <3>3, <3>5
    <3> QED
      BY <1>5, <1>6, <1>8, <2>2, <3>6 DEF ready
  <2>4. CASE ~(preferWs /\ W # {})
    <3>1. best \in U /\ \A p \in U : best >= p
      BY <1>1, <1>4, <1>6, <1>8, <2>4
    <3>2. ~(preferWs /\ Offered(s, ms, best, "ws", cands) # {})
      BY <1>1, <2>1, <2>4
    <3>3. which = "all"
      BY <3>2 DEF Viewed
    <3>4. r[1] \in ready /\ ms[r[1]].prio = best
      BY <1>1, <1>3, <2>2, <3>1, <3>3
    <3>5. \A b \in ready : ms[b].prio <= best
      <4>1. \A b \in ready : ms[b].prio \in U
        BY <1>1, <1>2, <1>3
      <4> QED
        BY <1>2, <2>1, <3>1, <4>1, SchedulerAssumption
    <3>6. \A b \in ready : ~(preferWs /\ ms[b].ws)
      BY <1>1, <1>2, <1>3, <2>4
    <3>7. /\ r[1] \in ready
          /\ \A b \in ready :
               /\ preferWs /\ ms[b].ws => ms[r[1]].ws
               /\ (preferWs /\ ms[r[1]].ws => preferWs /\ ms[b].ws) => ms[b].prio <= ms[r[1]].prio
      BY <3>4, <3>5, <3>6
    <3> QED
      BY <1>5, <1>6, <1>8, <2>2, <3>7 DEF ready
  <2> QED
    BY <2>3, <2>4
<1> QED
  BY <1>7, <1>8

-----------------------------------------------------------------------------
(* The scheduler.                                                          *)

Typed ==
  /\ pool \in Pictures
  /\ \A a \in Auths : pool[a] # NoAuth =>
       [prov |-> pool[a].prov, prio |-> pool[a].prio, ws |-> pool[a].ws,
        supports |-> pool[a].supports] \in Settings[a]
  /\ strategy \in Strategies
  /\ metas \in [Providers -> Pictures]
  /\ shards \in [Providers -> [Keys -> ShardRecords]]
  /\ now \in 1 .. MaxTime

\* What a provider ought to know of a credential.
Known(a, p) ==
  IF pool[a] # NoAuth /\ ~pool[a].cred.disabled /\ pool[a].prov = p THEN pool[a] ELSE NoAuth

IInv ==
  /\ Typed
  /\ \A p \in Providers, a \in Auths : metas[p][a] = Known(a, p)
  /\ \A p \in Providers, k \in Keys : Sound(shards[p][k], k, metas[p], now)

\* A shard nobody has asked for is sound whatever the provider knows.
LEMMA NoShardIsSound ==
  /\ NoShard \in ShardRecords /\ ~NoShard.made /\ \A a \in Auths : ~NoShard.entries[a].in
  /\ \A k, ms, t : Sound(NoShard, k, ms, t)
<1>1. NoEntry \in Entries /\ ~NoEntry.in
  BY DEF NoEntry, Entries, ZeroTime
<1>2. EmptyBucket \in Buckets
  BY DEF EmptyBucket, EmptyView, Buckets, Views
<1>3. NoShard \in ShardRecords /\ NoShard.made = FALSE /\ NoShard.entries = [a \in Auths |-> NoEntry]
  BY <1>1, <1>2 DEF NoShard, ShardRecords
<1> QED
  BY <1>1, <1>3 DEF Sound

\* providerScheduler.removeAuthLocked.
LEMMA DroppedIsSound ==
  ASSUME NEW ms \in Pictures, NEW sh \in [Keys -> ShardRecords], NEW a \in Auths, NEW t \in Nat,
         \A k \in Keys : Sound(sh[k], k, ms, t)
  PROVE  LET d == Dropped(ms, sh, a)
         IN /\ d[1] \in Pictures /\ d[1][a] = NoAuth /\ Differs(ms, d[1], a)
            /\ d[2] \in [Keys -> ShardRecords]
            /\ \A k \in Keys : Sound(d[2][k], k, d[1], t)
<1> DEFINE ms2 == [ms EXCEPT ![a] = NoAuth]
           sh2 == [k \in Keys |-> WithoutEntry(sh[k], a, ms2)]
<1>1. ms2 \in Pictures /\ ms2[a] = NoAuth /\ Differs(ms, ms2, a)
  BY DEF Pictures, Differs
<1>2. Dropped(ms, sh, a) = <<ms2, sh2>>
  BY DEF Dropped
<1> HIDE DEF ms2
<1>3. ASSUME NEW k \in Keys
      PROVE  Sound(sh2[k], k, ms2, t) /\ sh2[k] \in ShardRecords
  <2>1. sh2[k] = WithoutEntry(sh[k], a, ms2)
    OBVIOUS
  <2>2. Sound(WithoutEntry(sh[k], a, ms2), k, ms2, t)
    <3>1. CASE sh[k].made
      BY <1>1, <3>1, WithoutEntryIsSound
    <3>2. CASE ~sh[k].made
      <4>1. sh[k] = NoShard
        BY <3>2 DEF Sound
      <4> QED
        BY <4>1, NoShardIsSound DEF WithoutEntry
    <3> QED
      BY <3>1, <3>2
  <2> QED
    BY <2>1, <2>2 DEF Sound
<1>4. sh2 \in [Keys -> ShardRecords]
  BY <1>3
<1> HIDE DEF sh2
<1> QED
  BY <1>1, <1>2, <1>3, <1>4

\* providerScheduler.upsertAuthLocked.
LEMMA UpsertedIsSound ==
  ASSUME NEW ms \in Pictures, NEW sh \in [Keys -> ShardRecords], NEW a \in Auths,
         NEW snap \in Snapshots, NEW t \in Nat \ {0},
         \A k \in Keys : Sound(sh[k], k, ms, t)
  PROVE  LET d == Upserted(ms, sh, a, snap, t)
         IN /\ d[1] \in Pictures /\ d[1][a] = snap /\ Differs(ms, d[1], a)
            /\ d[2] \in [Keys -> ShardRecords]
            /\ \A k \in Keys : Sound(d[2][k], k, d[1], t)
<1> DEFINE ms2 == [ms EXCEPT ![a] = snap]
           sh2 == [k \in Keys |-> IF ~sh[k].made THEN sh[k]
                                  ELSE IF Supports(snap, k) THEN WithEntry(sh[k], a, k, ms, ms2, t)
                                  ELSE WithoutEntry(sh[k], a, ms2)]
<1>1. ms2 \in Pictures /\ ms2[a] = snap /\ Differs(ms, ms2, a)
  BY DEF Pictures, Differs
<1>2. Upserted(ms, sh, a, snap, t) = <<ms2, sh2>>
  BY DEF Upserted
<1> HIDE DEF ms2
<1>3. ASSUME NEW k \in Keys
      PROVE  Sound(sh2[k], k, ms2, t) /\ sh2[k] \in ShardRecords
  <2>1. CASE ~sh[k].made
    <3>1. sh[k] = NoShard
      BY <2>1 DEF Sound
    <3> QED
      BY <2>1, <3>1, NoShardIsSound
  <2>2. CASE sh[k].made /\ Supports(snap, k)
    <3>1. Sound(WithEntry(sh[k], a, k, ms, ms2, t), k, ms2, t)
      BY <1>1, <2>2, WithEntryIsSound
    <3> QED
      BY <2>2, <3>1 DEF Sound
  <2>3. CASE sh[k].made /\ ~Supports(snap, k)
    <3>1. Sound(WithoutEntry(sh[k], a, ms2), k, ms2, t)
      BY <1>1, <2>3, WithoutEntryIsSound
    <3> QED
      BY <2>3, <3>1 DEF Sound
  <2> QED
    BY <2>1, <2>2, <2>3
<1>4. sh2 \in [Keys -> ShardRecords]
  BY <1>3
<1> HIDE DEF sh2
<1> QED
  BY <1>1, <1>2, <1>3, <1>4

\* What the scheduler holds after one credential has changed.
Holds(m, sh) ==
  /\ m \in [Providers -> Pictures]
  /\ sh \in [Providers -> [Keys -> ShardRecords]]
  /\ \A p \in Providers, k \in Keys : Sound(sh[p][k], k, m[p], now)

\* authScheduler.removeAuthLocked: no provider knows the credential any more.
LEMMA RemoveAuthHolds ==
  ASSUME IInv, NEW a \in Auths, RemoveAuth(a)
  PROVE  /\ Holds(metas', shards')
         /\ \A p \in Providers : metas'[p][a] = NoAuth /\ Differs(metas[p], metas'[p], a)
<1> DEFINE new == [p \in Providers |-> IF p \in AuthProvider(a)
                     THEN Dropped(metas[p], shards[p], a) ELSE <<metas[p], shards[p]>>]
<1>1. metas' = [p \in Providers |-> new[p][1]] /\ shards' = [p \in Providers |-> new[p][2]]
  BY DEF RemoveAuth
<1>2. /\ now \in Nat /\ metas \in [Providers -> Pictures]
      /\ shards \in [Providers -> [Keys -> ShardRecords]]
      /\ \A p \in Providers, k \in Keys : Sound(shards[p][k], k, metas[p], now)
  BY DEF IInv, Typed
<1>3. ASSUME NEW p \in Providers
      PROVE  /\ new[p][1] \in Pictures /\ new[p][1][a] = NoAuth /\ Differs(metas[p], new[p][1], a)
             /\ new[p][2] \in [Keys -> ShardRecords]
             /\ \A k \in Keys : Sound(new[p][2][k], k, new[p][1], now)
  <2>1. CASE p \in AuthProvider(a)
    <3>1. new[p] = Dropped(metas[p], shards[p], a)
      BY <2>1
    <3> HIDE DEF new
    <3> QED
      BY <1>2, <3>1, DroppedIsSound
  <2>2. CASE p \notin AuthProvider(a)
    <3>1. new[p][1] = metas[p] /\ new[p][2] = shards[p]
      BY <2>2
    <3>2. metas[p][a] = NoAuth
      BY <2>2 DEF AuthProvider
    <3> HIDE DEF new
    <3> QED
      BY <1>2, <3>1, <3>2 DEF Differs
  <2> QED
    BY <2>1, <2>2
<1> HIDE DEF new
<1>4. metas' \in [Providers -> Pictures] /\ shards' \in [Providers -> [Keys -> ShardRecords]]
  BY <1>1, <1>3
<1>5. \A p \in Providers : metas'[p] = new[p][1] /\ shards'[p] = new[p][2]
  BY <1>1
<1> QED
  BY <1>3, <1>4, <1>5 DEF Holds

\* authScheduler.upsertAuthLocked: the provider of an enabled credential knows it as it
\* is now, and no other knows it.
LEMMA UpsertAuthHolds ==
  ASSUME IInv, NEW a \in Auths, NEW snap \in Snapshots, UpsertAuth(a, snap)
  PROVE  /\ Holds(metas', shards')
         /\ \A p \in Providers :
              /\ metas'[p][a] = IF ~snap.cred.disabled /\ p = snap.prov THEN snap ELSE NoAuth
              /\ Differs(metas[p], metas'[p], a)
<1>1. CASE snap.cred.disabled
  BY <1>1, RemoveAuthHolds DEF UpsertAuth
<1>2. CASE ~snap.cred.disabled
  <2> DEFINE new == [p \in Providers |->
                       IF p = snap.prov THEN Upserted(metas[p], shards[p], a, snap, now)
                       ELSE IF p \in AuthProvider(a) THEN Dropped(metas[p], shards[p], a)
                       ELSE <<metas[p], shards[p]>>]
  <2>1. metas' = [p \in Providers |-> new[p][1]] /\ shards' = [p \in Providers |-> new[p][2]]
    BY <1>2 DEF UpsertAuth
  <2>2. /\ now \in Nat \ {0} /\ metas \in [Providers -> Pictures]
        /\ shards \in [Providers -> [Keys -> ShardRecords]]
        /\ \A p \in Providers, k \in Keys : Sound(shards[p][k], k, metas[p], now)
    BY DEF IInv, Typed
  <2>3. ASSUME NEW p \in Providers
        PROVE  /\ new[p][1] \in Pictures /\ Differs(metas[p], new[p][1], a)
               /\ new[p][1][a] = IF p = snap.prov THEN snap ELSE NoAuth
               /\ new[p][2] \in [Keys -> ShardRecords]
               /\ \A k \in Keys : Sound(new[p][2][k], k, new[p][1], now)
    <3>1. CASE p = snap.prov
      <4>1. new[p] = Upserted(metas[p], shards[p], a, snap, now)
        BY <3>1
      <4> HIDE DEF new
      <4> QED
        BY <2>2, <3>1, <4>1, UpsertedIsSound
    <3>2. CASE p # snap.prov /\ p \in AuthProvider(a)
      <4>1. new[p] = Dropped(metas[p], shards[p], a)
        BY <3>2
      <4> HIDE DEF new
      <4> QED
        BY <2>2, <3>2, <4>1, DroppedIsSound
    <3>3. CASE p # snap.prov /\ p \notin AuthProvider(a)
      <4>1. new[p][1] = metas[p] /\ new[p][2] = shards[p]
        BY <3>3
      <4>2. metas[p][a] = NoAuth
        BY <3>3 DEF AuthProvider
      <4> HIDE DEF new
      <4> QED
        BY <2>2, <3>3, <4>1, <4>2 DEF Differs
    <3> QED
      BY <3>1, <3>2, <3>3
  <2> HIDE DEF new
  <2>4. metas' \in [Providers -> Pictures] /\ shards' \in [Providers -> [Keys -> ShardRecords]]
    BY <2>1, <2>3
  <2>5. \A p \in Providers : metas'[p] = new[p][1] /\ shards'[p] = new[p][2]
    BY <2>1
  <2> QED
    BY <1>2, <2>3, <2>4, <2>5 DEF Holds
<1> QED
  BY <1>1, <1>2

\* Initially nobody has asked for anything.
LEMMA InitHolds == Init => IInv
<1> SUFFICES ASSUME Init PROVE IInv
  OBVIOUS
<1>1. /\ pool = [a \in Auths |-> NoAuth]
      /\ strategy \in Strategies
      /\ metas = [p \in Providers |-> [a \in Auths |-> NoAuth]]
      /\ shards = [p \in Providers |-> [k \in Keys |-> NoShard]]
      /\ now = 1
  BY DEF Init
<1>2. now \in 1 .. MaxTime
  BY <1>1, SchedulerAssumption
<1>3. shards \in [Providers -> [Keys -> ShardRecords]]
  BY <1>1, NoShardIsSound
<1>4. pool \in Pictures /\ metas \in [Providers -> Pictures]
  BY <1>1 DEF Pictures
<1>5. Typed
  <2>1. \A a \in Auths : pool[a] = NoAuth
    BY <1>1
  <2> QED
    BY <2>1, <1>1, <1>2, <1>3, <1>4 DEF Typed
<1>6. \A p \in Providers, a \in Auths : metas[p][a] = Known(a, p)
  BY <1>1 DEF Known
<1>7. \A p \in Providers, k \in Keys : Sound(shards[p][k], k, metas[p], now)
  BY <1>1, NoShardIsSound
<1> QED
  BY <1>5, <1>6, <1>7 DEF IInv

\* The manager's credential changes and the scheduler hears of it.
LEMMA ChangeHolds ==
  ASSUME IInv, NEW a \in Auths, NEW snap \in Snapshots,
         [prov |-> snap.prov, prio |-> snap.prio, ws |-> snap.ws, supports |-> snap.supports]
           \in Settings[a],
         pool' = [pool EXCEPT ![a] = snap], UpsertAuth(a, snap), strategy' = strategy, now' = now
  PROVE  IInv'
<1>1. /\ Typed
      /\ \A p \in Providers, b \in Auths : metas[p][b] = Known(b, p)
  BY DEF IInv
<1>2. /\ Holds(metas', shards')
      /\ \A p \in Providers :
           /\ metas'[p][a] = IF ~snap.cred.disabled /\ p = snap.prov THEN snap ELSE NoAuth
           /\ Differs(metas[p], metas'[p], a)
  BY UpsertAuthHolds
<1>3. pool' \in Pictures /\ pool'[a] = snap /\ \A b \in Auths \ {a} : pool'[b] = pool[b]
  BY <1>1 DEF Typed, Pictures
<1>4. snap # NoAuth
  BY ShardFields
<1>5. Typed'
  <2>1. ASSUME NEW b \in Auths, pool'[b] # NoAuth
        PROVE  [prov |-> pool'[b].prov, prio |-> pool'[b].prio, ws |-> pool'[b].ws,
                supports |-> pool'[b].supports] \in Settings[b]
    <3>1. CASE b = a
      BY <3>1, <1>3
    <3>2. CASE b # a
      BY <3>2, <2>1, <1>3, <1>1 DEF Typed
    <3> QED
      BY <3>1, <3>2
  <2>2. metas' \in [Providers -> Pictures] /\ shards' \in [Providers -> [Keys -> ShardRecords]]
    BY <1>2 DEF Holds
  <2>3. strategy' \in Strategies /\ now' \in 1 .. MaxTime
    BY <1>1 DEF Typed
  <2> QED
    BY <2>1, <2>2, <2>3, <1>3 DEF Typed
<1>6. ASSUME NEW p \in Providers, NEW b \in Auths
      PROVE  metas'[p][b] = Known(b, p)'
  <2>1. CASE b = a
    BY <2>1, <1>2, <1>3, <1>4 DEF Known
  <2>2. CASE b # a
    <3>1. metas'[p][b] = metas[p][b] /\ pool'[b] = pool[b]
      BY <2>2, <1>2, <1>3 DEF Differs
    <3> QED
      BY <3>1, <1>1 DEF Known
  <2> QED
    BY <2>1, <2>2
<1>7. \A p \in Providers, k \in Keys : Sound(shards'[p][k], k, metas'[p], now')
  BY <1>2 DEF Holds
<1> QED
  BY <1>5, <1>6, <1>7 DEF IInv

\* What is known of a credential: its settings and its state.
LEMMA PoolFields ==
  ASSUME IInv, NEW a \in Auths, pool[a] # NoAuth
  PROVE  /\ pool[a] \in Snapshots /\ pool[a].cred \in Credentials
         /\ [prov |-> pool[a].prov, prio |-> pool[a].prio, ws |-> pool[a].ws,
             supports |-> pool[a].supports] \in Settings[a]
BY ShardFields DEF IInv, Typed, Pictures

\* Another state for a credential.
LEMMA SetCred ==
  ASSUME NEW x \in Snapshots, NEW c \in Credentials
  PROVE  LET y == [x EXCEPT !.cred = c]
         IN /\ y \in Snapshots /\ y.prov = x.prov /\ y.prio = x.prio /\ y.ws = x.ws
            /\ y.supports = x.supports /\ y.cred = c
BY DEF Snapshots

LEMMA ReportHolds ==
  ASSUME IInv, NEW a \in Auths, NEW c \in Credentials, Report(a, c)
  PROVE  IInv'
<1> DEFINE snap == [pool[a] EXCEPT !.cred = c]
<1>1. /\ pool[a] # NoAuth /\ pool' = [pool EXCEPT ![a] = snap] /\ UpsertAuth(a, snap)
      /\ strategy' = strategy /\ now' = now
  BY DEF Report
<1>2. /\ pool[a] \in Snapshots
      /\ [prov |-> pool[a].prov, prio |-> pool[a].prio, ws |-> pool[a].ws,
          supports |-> pool[a].supports] \in Settings[a]
  BY <1>1, PoolFields
<1>3. /\ snap \in Snapshots /\ snap.prov = pool[a].prov /\ snap.prio = pool[a].prio
      /\ snap.ws = pool[a].ws /\ snap.supports = pool[a].supports
  BY <1>2, SetCred
<1> HIDE DEF snap
<1> QED
  BY <1>1, <1>2, <1>3, ChangeHolds

LEMMA NowIsNatural == ASSUME IInv PROVE now \in Nat \ {0}
BY SchedulerAssumption DEF IInv, Typed

LEMMA ReportSuccessHolds ==
  ASSUME IInv, NEW a \in Auths, NEW m \in Models, ReportSuccess(a, m)
  PROVE  IInv'
<1>1. pool[a] # NoAuth
  BY DEF ReportSuccess, Report
<1>2. Succeed(pool[a].cred, m, now) \in Credentials
  BY <1>1, PoolFields, NowIsNatural, SucceedType
<1> QED
  BY <1>2, ReportHolds DEF ReportSuccess

LEMMA ReportFailureHolds ==
  ASSUME IInv, NEW a \in Auths, NEW m \in Models, NEW kind \in Failures,
         NEW hint \in HintsFor(kind), ReportFailure(a, m, kind, hint)
  PROVE  IInv'
<1>1. pool[a] # NoAuth
  BY DEF ReportFailure, Report
<1>2. kind \in Kinds
  BY SchedulerAssumption
<1>3. Fail(pool[a].cred, m, kind, hint, FALSE, now) \in Credentials
  BY <1>1, <1>2, PoolFields, NowIsNatural, FailType
<1> QED
  BY <1>3, ReportHolds DEF ReportFailure

\* The snapshot a configuration makes.
LEMMA NewSnapshot ==
  ASSUME NEW a \in Auths, NEW set \in Settings[a], NEW c \in Credentials
  PROVE  LET x == [prov |-> set.prov, prio |-> set.prio, ws |-> set.ws,
                   supports |-> set.supports, cred |-> c]
         IN /\ x \in Snapshots
            /\ [prov |-> x.prov, prio |-> x.prio, ws |-> x.ws, supports |-> x.supports] \in Settings[a]
<1>1. set \in [prov : Providers, prio : Priorities, ws : BOOLEAN, supports : SUBSET Models]
  BY SchedulerAssumption
<1>2. set = [prov |-> set.prov, prio |-> set.prio, ws |-> set.ws, supports |-> set.supports]
  BY <1>1
<1>3. set.prov \in Providers /\ set.prio \in Priorities /\ set.ws \in BOOLEAN /\ set.supports \in SUBSET Models
  BY <1>1
<1> QED
  BY <1>2, <1>3 DEF Snapshots

LEMMA ConfigureHolds ==
  ASSUME IInv, NEW a \in Auths, NEW set \in Settings[a], NEW off \in BOOLEAN,
         Configure(a, set, off)
  PROVE  IInv'
<1> DEFINE c == IF pool[a] = NoAuth THEN FreshAuth(off)
                ELSE [pool[a].cred EXCEPT !.disabled = off,
                                          !.status = IF off THEN "disabled" ELSE "active"]
           snap == [prov |-> set.prov, prio |-> set.prio, ws |-> set.ws,
                    supports |-> set.supports, cred |-> c]
<1>1. c \in Credentials
  <2>1. CASE pool[a] = NoAuth
    BY <2>1, FreshType
  <2>2. CASE pool[a] # NoAuth
    <3>1. pool[a].cred \in Credentials
      BY <2>2, PoolFields
    <3> QED
      BY <3>1, <2>2, SetFlag
  <2> QED
    BY <2>1, <2>2
<1>2. /\ pool' = [pool EXCEPT ![a] = snap] /\ UpsertAuth(a, snap)
      /\ strategy' = strategy /\ now' = now
  BY DEF Configure
<1> HIDE DEF c
<1>3. /\ snap \in Snapshots
      /\ [prov |-> snap.prov, prio |-> snap.prio, ws |-> snap.ws, supports |-> snap.supports]
           \in Settings[a]
  BY <1>1, NewSnapshot
<1> HIDE DEF snap
<1> QED
  BY <1>2, <1>3, ChangeHolds

LEMMA ForgetHolds ==
  ASSUME IInv, NEW a \in Auths, Forget(a)
  PROVE  IInv'
<1>1. /\ Typed
      /\ \A p \in Providers, b \in Auths : metas[p][b] = Known(b, p)
  BY DEF IInv
<1>2. pool' = [pool EXCEPT ![a] = NoAuth] /\ RemoveAuth(a) /\ strategy' = strategy /\ now' = now
  BY DEF Forget
<1>3. /\ Holds(metas', shards')
      /\ \A p \in Providers : metas'[p][a] = NoAuth /\ Differs(metas[p], metas'[p], a)
  BY <1>2, RemoveAuthHolds
<1>4. pool' \in Pictures /\ pool'[a] = NoAuth /\ \A b \in Auths \ {a} : pool'[b] = pool[b]
  BY <1>1, <1>2 DEF Typed, Pictures
<1>5. Typed'
  <2>1. ASSUME NEW b \in Auths, pool'[b] # NoAuth
        PROVE  [prov |-> pool'[b].prov, prio |-> pool'[b].prio, ws |-> pool'[b].ws,
                supports |-> pool'[b].supports] \in Settings[b]
    BY <2>1, <1>4, <1>1 DEF Typed
  <2>2. metas' \in [Providers -> Pictures] /\ shards' \in [Providers -> [Keys -> ShardRecords]]
    BY <1>3 DEF Holds
  <2>3. strategy' \in Strategies /\ now' \in 1 .. MaxTime
    BY <1>1, <1>2 DEF Typed
  <2> QED
    BY <2>1, <2>2, <2>3, <1>4 DEF Typed
<1>6. ASSUME NEW p \in Providers, NEW b \in Auths
      PROVE  metas'[p][b] = Known(b, p)'
  <2>1. CASE b = a
    BY <2>1, <1>3, <1>4 DEF Known
  <2>2. CASE b # a
    <3>1. metas'[p][b] = metas[p][b] /\ pool'[b] = pool[b]
      BY <2>2, <1>3, <1>4 DEF Differs
    <3> QED
      BY <3>1, <1>1 DEF Known
  <2> QED
    BY <2>1, <2>2
<1>7. \A p \in Providers, k \in Keys : Sound(shards'[p][k], k, metas'[p], now')
  BY <1>2, <1>3 DEF Holds
<1> QED
  BY <1>5, <1>6, <1>7 DEF IInv

\* One shard of one provider is replaced.
LEMMA ShardReplaced ==
  ASSUME IInv, NEW p \in Providers, NEW k \in Keys, NEW s, Live(s, k, metas[p], now),
         shards' = [shards EXCEPT ![p][k] = s],
         UNCHANGED <<pool, strategy, metas, now>>
  PROVE  IInv'
<1>1. Typed /\ shards \in [Providers -> [Keys -> ShardRecords]]
  BY DEF IInv, Typed
<1>2. s \in ShardRecords /\ Sound(s, k, metas[p], now)
  BY DEF Live, Sound
<1>3. shards' \in [Providers -> [Keys -> ShardRecords]]
  BY <1>1, <1>2
<1>4. Typed'
  BY <1>1, <1>3 DEF Typed
<1>5. ASSUME NEW q \in Providers, NEW j \in Keys
      PROVE  Sound(shards'[q][j], j, metas'[q], now')
  <2>1. CASE q = p /\ j = k
    <3>1. shards'[q][j] = s
      BY <2>1, <1>1
    <3> QED
      BY <3>1, <2>1, <1>2
  <2>2. CASE ~(q = p /\ j = k)
    <3>1. shards'[q][j] = shards[q][j]
      BY <2>2, <1>1
    <3> QED
      BY <3>1 DEF IInv
  <2> QED
    BY <2>1, <2>2
<1>6. \A q \in Providers, a \in Auths : metas'[q][a] = Known(a, q)'
  BY DEF IInv, Known
<1> QED
  BY <1>4, <1>5, <1>6 DEF IInv

\* The shard a request finds.
LEMMA EnsuredIsLive ==
  ASSUME IInv, NEW p \in Providers, NEW k \in Keys
  PROVE  /\ Live(Ensured(shards[p][k], k, metas[p], now), k, metas[p], now)
         /\ metas[p] \in Pictures
<1>1. now \in Nat \ {0}
  BY NowIsNatural
<1>2. metas[p] \in Pictures /\ Sound(shards[p][k], k, metas[p], now)
  BY DEF IInv, Typed
<1> QED
  BY <1>1, <1>2, EnsuredIsSound DEF Live

\* A request leaves it live.
LEMMA AfterPick ==
  ASSUME IInv, NEW p \in Providers, NEW k \in Keys, NEW prefer \in BOOLEAN, NEW cands
  PROVE  Live(PickSingle(Ensured(shards[p][k], k, metas[p], now), prefer, strategy, cands)[2],
              k, metas[p], now)
BY EnsuredIsLive, PickedSingle

LEMMA PickOneHolds ==
  ASSUME IInv, NEW p \in Providers, NEW k \in Keys, NEW ws \in BOOLEAN, NEW pinned, NEW tried,
         PickOne(p, k, ws, pinned, tried)
  PROVE  IInv'
<1> DEFINE cands == (IF pinned = NoAuth THEN Auths ELSE {pinned}) \ tried
           prefer == ws /\ p \in WsProviders /\ pinned = NoAuth
           s == PickSingle(Ensured(shards[p][k], k, metas[p], now), prefer, strategy, cands)[2]
<1>1. shards \in [Providers -> [Keys -> ShardRecords]]
  BY DEF IInv, Typed
<1>2. Live(s, k, metas[p], now)
  BY AfterPick
<1>3. shards' = [shards EXCEPT ![p][k] = s] /\ UNCHANGED <<pool, strategy, metas, now>>
  BY <1>1 DEF PickOne
<1> HIDE DEF s
<1> QED
  BY <1>2, <1>3, ShardReplaced

LEMMA PickPinnedHolds ==
  ASSUME IInv, NEW order \in Orders, NEW k \in Keys, NEW pinned, NEW tried,
         PickPinned(order, k, pinned, tried)
  PROVE  IInv'
<1>1. PICK p \in ToSet(order) \intersect AuthProvider(pinned) :
        /\ shards' = [shards EXCEPT ![p][k] =
              PickSingle(Ensured(@, k, metas[p], now), FALSE, strategy, {pinned} \ tried)[2]]
        /\ UNCHANGED <<pool, strategy, metas, mixed, now>>
  BY DEF PickPinned
<1> DEFINE s == PickSingle(Ensured(shards[p][k], k, metas[p], now), FALSE, strategy, {pinned} \ tried)[2]
<1>2. p \in Providers
  BY DEF AuthProvider
<1>3. shards \in [Providers -> [Keys -> ShardRecords]]
  BY DEF IInv, Typed
<1>4. Live(s, k, metas[p], now)
  BY <1>2, AfterPick
<1>5. shards' = [shards EXCEPT ![p][k] = s] /\ UNCHANGED <<pool, strategy, metas, now>>
  BY <1>1, <1>2, <1>3
<1> HIDE DEF s
<1> QED
  BY <1>2, <1>4, <1>5, ShardReplaced

LEMMA SetSelectorHolds ==
  ASSUME IInv, NEW s \in Strategies, SetSelector(s)
  PROVE  IInv'
BY DEF IInv, Typed, Known, SetSelector

LEMMA RebuildHolds ==
  ASSUME IInv, Rebuild
  PROVE  IInv'
<1>1. /\ metas' = [p \in Providers |-> [a \in Auths |-> Known(a, p)]]
      /\ shards' = [p \in Providers |-> [k \in Keys |-> NoShard]]
      /\ pool' = pool /\ strategy' = strategy /\ now' = now
  BY DEF Rebuild, Known
<1>2. Typed
  BY DEF IInv
<1>3. \A p \in Providers, a \in Auths : Known(a, p) \in Snapshots \union {NoAuth}
  BY <1>2 DEF Typed, Pictures, Known
<1>4. metas' \in [Providers -> Pictures]
  BY <1>1, <1>3 DEF Pictures
<1>5. shards' \in [Providers -> [Keys -> ShardRecords]]
  BY <1>1, NoShardIsSound
<1>6. Typed'
  BY <1>1, <1>2, <1>4, <1>5 DEF Typed
<1>7. \A p \in Providers, a \in Auths : metas'[p][a] = Known(a, p)'
  BY <1>1 DEF Known
<1>8. \A p \in Providers, k \in Keys : Sound(shards'[p][k], k, metas'[p], now')
  BY <1>1, NoShardIsSound
<1> QED
  BY <1>6, <1>7, <1>8 DEF IInv

LEMMA TickHolds ==
  ASSUME IInv, Tick
  PROVE  IInv'
<1>1. Typed /\ now \in 1 .. MaxTime /\ MaxTime \in Nat
  BY SchedulerAssumption DEF IInv, Typed
<1>2. now \in Nat /\ now' \in Nat /\ now <= now' /\ now' \in 1 .. MaxTime
  BY <1>1 DEF Tick
<1>3. UNCHANGED <<pool, strategy, metas, shards>>
  BY DEF Tick
<1>4. Typed'
  BY <1>1, <1>2, <1>3 DEF Typed
<1>5. \A p \in Providers, k \in Keys : Sound(shards'[p][k], k, metas'[p], now')
  BY <1>2, <1>3, LaterIsSound DEF IInv
<1>6. \A p \in Providers, a \in Auths : metas'[p][a] = Known(a, p)'
  BY <1>3 DEF IInv, Known
<1> QED
  BY <1>4, <1>5, <1>6 DEF IInv

-----------------------------------------------------------------------------
(* Requests over several providers.                                        *)

\* The shards of the providers in a request's order.
Asks(order, shs, k, m, t) ==
  /\ order \in Orders
  /\ DOMAIN shs = DOMAIN order /\ Len(shs) = Len(order)
  /\ \A i \in DOMAIN order : Live(shs[i], k, m[order[i]], t)

\* The best priority that has a candidate.
LEMMA BestOfMixed ==
  ASSUME NEW order, NEW shs, NEW k, NEW m, NEW t, Asks(order, shs, k, m, t), NEW cands,
         ~ \A i \in DOMAIN shs : Usable(shs[i], "all", cands) = {}
  PROVE  /\ BestMixed(shs, cands) \in Priorities
         /\ \E i \in DOMAIN order : BestMixed(shs, cands) \in Usable(shs[i], "all", cands)
         /\ \A i \in DOMAIN order : \A p \in Usable(shs[i], "all", cands) :
              p <= BestMixed(shs, cands)
<1> DEFINE U == UNION {Usable(shs[i], "all", cands) : i \in DOMAIN shs}
<1>1. DOMAIN shs = DOMAIN order
  BY DEF Asks
<1>2. \A i \in DOMAIN shs : Usable(shs[i], "all", cands) \subseteq Priorities
  BY DEF Usable
<1>3. U \subseteq Priorities /\ U # {}
  BY <1>2
<1>4. IsFiniteSet(U) /\ U \in SUBSET Int
  BY <1>3, SchedulerAssumption, FS_Subset
<1> HIDE DEF U
<1>5. Max(U) \in U /\ \A p \in U : Max(U) >= p
  BY <1>3, <1>4, Greatest
<1>6. BestMixed(shs, cands) = Max(U)
  BY DEF BestMixed, U
<1>7. \A p \in U : p <= Max(U)
  BY <1>4, <1>5
<1> QED
  BY <1>1, <1>3, <1>5, <1>6, <1>7 DEF U

\* pickMixedWithStrategy leaves the shards it asked live.
LEMMA MixedKeeps ==
  ASSUME NEW order, NEW shs, NEW k, NEW m, NEW t, Asks(order, shs, k, m, t),
         NEW strat, NEW slot, NEW cands
  PROVE  LET r == PickMixed(shs, strat, slot, cands)
         IN \A i \in DOMAIN order : Live(r.shs[i], k, m[order[i]], t)
<1> DEFINE prio  == BestMixed(shs, cands)
           start == slot % TotalWeight(shs, prio)
           able  == CanServe(shs, prio, cands)
           i0    == IF strat = "fill-first" THEN Min(able)
                    ELSE CHOOSE i \in able : \A j \in able :
                           Hops(shs, prio, start, i) <= Hops(shs, prio, start, j)
           taken == PickAt(shs[i0], prio, FALSE, strat, cands)
           r     == PickMixed(shs, strat, slot, cands)
<1>1. DOMAIN shs = DOMAIN order /\ \A i \in DOMAIN order : Live(shs[i], k, m[order[i]], t)
  BY DEF Asks
<1>2. CASE \A i \in DOMAIN shs : Usable(shs[i], "all", cands) = {}
  BY <1>1, <1>2 DEF PickMixed
<1>3. CASE ~ \A i \in DOMAIN shs : Usable(shs[i], "all", cands) = {}
  <2>1. r.shs = [shs EXCEPT ![i0] = taken[2]]
    BY <1>3 DEF PickMixed
  <2>2. prio \in Priorities
    BY <1>3, BestOfMixed
  <2> HIDE DEF i0, prio, r
  <2>3. i0 \in DOMAIN order => Live(taken[2], k, m[order[i0]], t)
    BY <2>2, <1>1, PickedAt
  <2> HIDE DEF taken
  <2>4. ASSUME NEW i \in DOMAIN order
        PROVE  Live(r.shs[i], k, m[order[i]], t)
    <3>1. CASE i = i0
      BY <3>1, <2>1, <2>3, <1>1
    <3>2. CASE i # i0
      BY <3>2, <2>1, <1>1
    <3> QED
      BY <3>1, <3>2
  <2> QED
    BY <2>4 DEF r
<1> QED
  BY <1>2, <1>3

\* The shards a request over several providers finds.
LEMMA ShardsAsked ==
  ASSUME IInv, NEW order \in Orders, NEW k \in Keys
  PROVE  /\ Asks(order, ShardsOf(order, k), k, metas, now)
         /\ \A i \in DOMAIN order : order[i] \in Providers /\ metas[order[i]] \in Pictures
<1>1. \A i \in DOMAIN order : order[i] \in Providers
  BY SchedulerAssumption
<1>2. \A i \in DOMAIN order :
        /\ Live(Ensured(shards[order[i]][k], k, metas[order[i]], now), k, metas[order[i]], now)
        /\ metas[order[i]] \in Pictures
  BY <1>1, EnsuredIsLive
<1>3. DOMAIN order = 1 .. Len(order) /\ Len(order) \in Nat
  BY SchedulerAssumption
<1>4. DOMAIN ShardsOf(order, k) = DOMAIN order
  BY DEF ShardsOf
<1>5. Len(ShardsOf(order, k)) = Len(order)
  BY <1>3, <1>4
<1> QED
  BY <1>1, <1>2, <1>4, <1>5 DEF Asks, ShardsOf

LEMMA PickAnyHolds ==
  ASSUME IInv, NEW order \in Orders, NEW k \in Keys, NEW tried, PickAny(order, k, tried)
  PROVE  IInv'
<1> DEFINE r == PickMixed(ShardsOf(order, k), strategy, mixed[<<order, k>>], Auths \ tried)
           place(p) == CHOOSE i \in DOMAIN order : order[i] = p
<1>1. Typed /\ shards \in [Providers -> [Keys -> ShardRecords]]
  BY DEF IInv, Typed
<1>2. \A i \in DOMAIN order : Live(r.shs[i], k, metas[order[i]], now)
  BY ShardsAsked, MixedKeeps
<1>3. /\ shards' = [p \in Providers |->
                      IF \E i \in DOMAIN order : order[i] = p
                      THEN [shards[p] EXCEPT ![k] = r.shs[place(p)]]
                      ELSE shards[p]]
      /\ UNCHANGED <<pool, strategy, metas, now>>
  BY DEF PickAny
<1> HIDE DEF r
<1>4. ASSUME NEW p \in Providers
      PROVE  /\ shards'[p] \in [Keys -> ShardRecords]
             /\ \A j \in Keys : Sound(shards'[p][j], j, metas[p], now)
  <2>1. shards[p] \in [Keys -> ShardRecords] /\ \A j \in Keys : Sound(shards[p][j], j, metas[p], now)
    BY <1>1 DEF IInv
  <2>2. CASE \E i \in DOMAIN order : order[i] = p
    <3>1. place(p) \in DOMAIN order /\ order[place(p)] = p
      BY <2>2
    <3> DEFINE s == r.shs[place(p)]
    <3>2. Live(s, k, metas[p], now)
      BY <3>1, <1>2
    <3>3. shards'[p] = [shards[p] EXCEPT ![k] = s]
      BY <2>2, <1>3
    <3> HIDE DEF s
    <3>4. s \in ShardRecords /\ Sound(s, k, metas[p], now)
      BY <3>2 DEF Live, Sound
    <3>5. shards'[p] \in [Keys -> ShardRecords]
      BY <3>3, <3>4, <2>1
    <3>6. \A j \in Keys : shards'[p][j] = IF j = k THEN s ELSE shards[p][j]
      BY <3>3, <2>1
    <3> QED
      BY <3>4, <3>5, <3>6, <2>1
  <2>3. CASE ~ \E i \in DOMAIN order : order[i] = p
    <3>1. shards'[p] = shards[p]
      BY <2>3, <1>3
    <3> QED
      BY <3>1, <2>1
  <2> QED
    BY <2>2, <2>3
<1>5. shards' \in [Providers -> [Keys -> ShardRecords]]
  <2>1. shards' = [p \in Providers |-> shards'[p]]
    BY <1>3
  <2> QED
    BY <2>1, <1>4
<1>6. Typed'
  BY <1>1, <1>3, <1>5 DEF Typed
<1>7. \A p \in Providers, a \in Auths : metas'[p][a] = Known(a, p)'
  BY <1>3 DEF IInv, Known
<1>8. \A p \in Providers, j \in Keys : Sound(shards'[p][j], j, metas'[p], now')
  BY <1>3, <1>4
<1> QED
  BY <1>6, <1>7, <1>8 DEF IInv

-----------------------------------------------------------------------------
(* The invariant, and what it says of the views and the turns.             *)

LEMMA StepHolds == IInv /\ [Next]_vars => IInv'
<1> SUFFICES ASSUME IInv, [Next]_vars PROVE IInv'
  OBVIOUS
<1>1. CASE UNCHANGED vars
  BY <1>1 DEF vars, IInv, Typed, Known
<1>2. ASSUME NEW a \in Auths, NEW set \in Settings[a], NEW off \in BOOLEAN, Configure(a, set, off)
      PROVE  IInv'
  BY <1>2, ConfigureHolds
<1>3. ASSUME NEW a \in Auths, NEW m \in Models, ReportSuccess(a, m)
      PROVE  IInv'
  BY <1>3, ReportSuccessHolds
<1>4. ASSUME NEW a \in Auths, NEW m \in Models, NEW kind \in Failures, NEW hint \in HintsFor(kind),
             ReportFailure(a, m, kind, hint)
      PROVE  IInv'
  BY <1>4, ReportFailureHolds
<1>5. ASSUME NEW a \in Auths, Forget(a)
      PROVE  IInv'
  BY <1>5, ForgetHolds
<1>6. ASSUME NEW s \in Strategies, SetSelector(s)
      PROVE  IInv'
  BY <1>6, SetSelectorHolds
<1>7. CASE Rebuild
  BY <1>7, RebuildHolds
<1>8. ASSUME NEW k \in Keys, NEW tried, NEW p \in Providers, NEW ws \in BOOLEAN, NEW pinned,
             PickOne(p, k, ws, pinned, tried)
      PROVE  IInv'
  BY <1>8, PickOneHolds
<1>9. ASSUME NEW k \in Keys, NEW tried, NEW order \in Orders, PickAny(order, k, tried)
      PROVE  IInv'
  BY <1>9, PickAnyHolds
<1>10. ASSUME NEW k \in Keys, NEW pinned, NEW tried, NEW order \in Orders,
              PickPinned(order, k, pinned, tried)
       PROVE  IInv'
  BY <1>10, PickPinnedHolds
<1>11. CASE Tick
  BY <1>11, TickHolds
<1> QED
  BY <1>1, <1>2, <1>3, <1>4, <1>5, <1>6, <1>7, <1>8, <1>9, <1>10, <1>11 DEF Next

\* In every reachable state each provider knows the enabled credentials that are its
\* own, and every shard is sound for what its provider knows.
THEOREM ShardsAreSound == Spec => []IInv
<1>1. Init => IInv
  BY InitHolds
<1>2. IInv /\ [Next]_vars => IInv'
  BY StepHolds
<1> QED
  BY <1>1, <1>2, PTL DEF Spec

LEMMA SoundIsFollowed ==
  ASSUME IInv
  PROVE  ViewsFollowCredentials
<1>1. \A p \in Providers, a \in Auths :
        metas[p][a] = IF pool[a] # NoAuth /\ ~pool[a].cred.disabled /\ pool[a].prov = p
                      THEN pool[a] ELSE NoAuth
  BY DEF IInv, Known
<1>2. ASSUME NEW p \in Providers, NEW k \in Keys, shards[p][k].made
      PROVE  LET s == shards[p][k] IN
             /\ {a \in Auths : s.entries[a].in} = Members(p, k)
             /\ s.blocked = {a \in Members(p, k) : s.entries[a].state \in {"cooldown", "blocked"}}
             /\ \A pr \in Priorities :
                  LET ids == {a \in Members(p, k) : s.entries[a].state = "ready" /\ metas[p][a].prio = pr}
                  IN /\ s.ready[pr].all.flat = Sorted(ids)
                     /\ s.ready[pr].ws.flat = Sorted({a \in ids : metas[p][a].ws})
  <2> DEFINE s == shards[p][k]
  <2>1. EntriesFollow(s.entries, k, metas[p], now) /\ ViewsSay(s, metas[p])
    BY <1>2 DEF IInv, Sound
  <2> HIDE DEF s
  <2>2. \A a \in Auths : s.entries[a].in <=> metas[p][a] # NoAuth /\ Supports(metas[p][a], k)
    BY <2>1 DEF EntriesFollow
  <2>3. {a \in Auths : s.entries[a].in} = Members(p, k)
    BY <2>2 DEF Members
  <2>4. s.blocked = {a \in Members(p, k) : s.entries[a].state \in {"cooldown", "blocked"}}
    BY <2>1, <2>3 DEF ViewsSay
  <2>5. ASSUME NEW pr \in Priorities
        PROVE  LET ids == {a \in Members(p, k) : s.entries[a].state = "ready" /\ metas[p][a].prio = pr}
               IN /\ s.ready[pr].all.flat = Sorted(ids)
                  /\ s.ready[pr].ws.flat = Sorted({a \in ids : metas[p][a].ws})
    <3> DEFINE ids == {a \in Members(p, k) : s.entries[a].state = "ready" /\ metas[p][a].prio = pr}
    <3>1. ids = ReadyAt(s.entries, metas[p], pr)
      BY <2>3 DEF ReadyAt
    <3>2. /\ ViewOf(s.ready[pr].all, ReadyAt(s.entries, metas[p], pr))
          /\ ViewOf(s.ready[pr].ws, {a \in ReadyAt(s.entries, metas[p], pr) : metas[p][a].ws})
      BY <2>1 DEF ViewsSay
    <3> HIDE DEF ids
    <3> QED
      BY <3>1, <3>2 DEF ViewOf, ids
  <2> QED
    BY <2>3, <2>4, <2>5 DEF s
<1> QED
  BY <1>1, <1>2 DEF ViewsFollowCredentials

\* The scheduler never drifts from the manager: whatever sequence of upserts, removals,
\* promotions and skipped rebuilds led here, it holds exactly the enabled credentials
\* under their own provider, and every view is what its entries say, in id order.
THEOREM ViewsNeverDrift == Spec => []ViewsFollowCredentials
<1>1. IInv => ViewsFollowCredentials
  BY SoundIsFollowed
<1> QED
  BY <1>1, ShardsAreSound, PTL

LEMMA SoundProgresses ==
  ASSUME IInv
  PROVE  RoundRobinProgress
<1> SUFFICES ASSUME NEW p \in Providers, NEW k \in Keys, NEW pr \in Priorities,
                    NEW cands \in SUBSET Auths,
                    Elements(shards[p][k].ready[pr].all, cands) # {}
             PROVE  LET v == shards[p][k].ready[pr].all
                        turn == NextInTurn(v, cands)
                    IN /\ Steps(turn[2], turn[1]) = Len(v.flat) - 1
                       /\ \A b \in Elements(v, cands) \ {turn[1]} : Steps(turn[2], b) < Steps(v, b)
  BY DEF RoundRobinProgress
<1> DEFINE s == shards[p][k]
           v == s.ready[pr].all
<1>1. Sound(s, k, metas[p], now)
  BY DEF IInv
<1>2. CASE ~s.made
  <2>1. v.flat = <<>>
    BY <1>1, <1>2 DEF Sound, NoShard, EmptyBucket, EmptyView
  <2>2. ToSet(v.flat) = {}
    BY <2>1 DEF ToSet
  <2> QED
    BY <2>2 DEF Elements
<1>3. CASE s.made
  <2> DEFINE ids == ReadyAt(s.entries, metas[p], pr)
  <2>1. s \in ShardRecords /\ ViewsSay(s, metas[p])
    BY <1>1, <1>3 DEF Sound
  <2>2. ids \in SUBSET Auths /\ v \in Views /\ ViewOf(v, ids)
    BY <2>1, ShardViews DEF Ready
  <2> HIDE DEF v, ids
  <2>3. Elements(v, cands) = ids \intersect cands
    BY <2>2, ElementsOfView
  <2>4. ids \intersect cands # {}
    BY <2>3 DEF v
  <2>5. /\ Steps(NextInTurn(v, cands)[2], NextInTurn(v, cands)[1]) = Len(v.flat) - 1
        /\ \A b \in (ids \intersect cands) \ {NextInTurn(v, cands)[1]} :
             Steps(NextInTurn(v, cands)[2], b) < Steps(v, b)
    BY <2>2, <2>4, TurnProgresses
  <2> QED
    BY <2>3, <2>5 DEF v
<1> QED
  BY <1>2, <1>3

\* Nobody waits longer than a view is long: a round-robin pick puts the picked credential
\* last and brings every candidate it passes over closer to its turn.
THEOREM TurnsMakeProgress == Spec => []RoundRobinProgress
<1>1. IInv => RoundRobinProgress
  BY SoundProgresses
<1> QED
  BY <1>1, ShardsAreSound, PTL

-----------------------------------------------------------------------------
(* What a request gets.                                                    *)

\* Blocks end, and none begins by itself.
LEMMA StaysFree ==
  ASSUME NEW snap \in Snapshots, NEW k \in Keys, NEW t \in Nat, NEW u \in Nat, u <= t,
         ~BlockedAt(snap, k, u)
  PROVE  ~BlockedAt(snap, k, t)
<1>1. About(snap, k).next \in Nat
  BY AboutFields
<1>2. Cooling(About(snap, k), t) => Cooling(About(snap, k), u)
  BY <1>1 DEF Cooling
<1> QED
  BY <1>2 DEF BlockedAt, BlockedAny, BlockedFor, About

\* A credential that was blocked and is not due to be looked at again is blocked still,
\* or its quota window is open.
LEMMA BlockedOrHeld ==
  ASSUME NEW snap \in Snapshots, NEW k \in Keys, NEW t \in Nat \ {0}, NEW u \in 1 .. t,
         Judged(snap, k, u).state # "ready",
         Judged(snap, k, u).state \in {"cooldown", "blocked"} =>
           ~(Judged(snap, k, u).next # ZeroTime /\ Judged(snap, k, u).next <= t)
  PROVE  BlockedAt(snap, k, t) \/ About(snap, k).quota.recover > t
<1> DEFINE e == Judged(snap, k, u)
<1>1. u \in Nat /\ u > 0
  OBVIOUS
<1>2. /\ e \in Entries
      /\ e.state = "ready" <=> ~BlockedAt(snap, k, u)
      /\ e.state = "disabled" => IsDisabled(snap.cred)
      /\ e.state \in {"cooldown", "blocked"} =>
           /\ Cooling(About(snap, k), u)
           /\ e.next = ReportedEnd(About(snap, k), u)
  BY <1>1, JudgedEntry
<1>3. e.state \in {"cooldown", "blocked", "disabled"} /\ e.next \in Nat
  BY <1>2 DEF Entries
<1>4. About(snap, k).next \in Nat /\ About(snap, k).quota.recover \in Nat
  BY AboutFields
<1>5. CASE e.state = "disabled"
  BY <1>5, <1>2 DEF BlockedAt, BlockedAny, BlockedFor
<1>6. CASE e.state \in {"cooldown", "blocked"}
  <2>1. e.next > t \/ e.next = 0
    BY <1>6, <1>3 DEF ZeroTime
  <2>2. Cooling(About(snap, k), u) /\ e.next = ReportedEnd(About(snap, k), u) /\ BlockedAt(snap, k, u)
    BY <1>6, <1>2
  <2>3. CASE About(snap, k).quota.recover > u
    <3>1. e.next = About(snap, k).quota.recover
      BY <2>2, <2>3 DEF ReportedEnd
    <3> QED
      BY <3>1, <2>1, <2>3, <1>1, <1>4
  <2>4. CASE ~(About(snap, k).quota.recover > u)
    <3>1. e.next = About(snap, k).next
      BY <2>2, <2>4 DEF ReportedEnd
    <3>2. About(snap, k).unavail /\ About(snap, k).next > u
      BY <2>2 DEF Cooling
    <3>3. Cooling(About(snap, k), t)
      BY <3>1, <3>2, <2>1, <1>1, <1>4 DEF Cooling
    <3> QED
      BY <3>3, <2>2 DEF BlockedAt, BlockedAny, BlockedFor, About
  <2> QED
    BY <2>3, <2>4
<1> HIDE DEF e
<1> QED
  BY <1>3, <1>5, <1>6

\* The entries a request finds tell free credentials from blocked ones, but for those
\* that an open quota window holds.
LEMMA EnsuredIsFresh ==
  ASSUME NEW k \in Keys, NEW t \in Nat \ {0}, NEW ms \in Pictures,
         NEW s, Sound(s, k, ms, t), NEW a \in Auths, Ensured(s, k, ms, t).entries[a].in
  PROVE  /\ ms[a] \in Snapshots /\ Supports(ms[a], k)
         /\ Ensured(s, k, ms, t).entries[a].state = "ready" => ~BlockedAt(ms[a], k, t)
         /\ Ensured(s, k, ms, t).entries[a].state # "ready" =>
              BlockedAt(ms[a], k, t) \/ About(ms[a], k).quota.recover > t
<1> DEFINE s2 == Ensured(s, k, ms, t)
           e == s2.entries[a]
<1>1. Sound(s2, k, ms, t) /\ s2.made
  BY EnsuredIsSound
<1> HIDE DEF s2
<1>2. EntriesFollow(s2.entries, k, ms, t)
  BY <1>1 DEF Sound
<1>3. ms[a] # NoAuth /\ Supports(ms[a], k) /\ \E u \in 1 .. t : e = Judged(ms[a], k, u)
  BY <1>2 DEF EntriesFollow, s2
<1>4. ms[a] \in Snapshots
  BY <1>3 DEF Pictures
<1>5. PICK u \in 1 .. t : e = Judged(ms[a], k, u)
  BY <1>3
<1>6. u \in Nat /\ u <= t
  OBVIOUS
<1>7. ASSUME e.state = "ready"
      PROVE  ~BlockedAt(ms[a], k, t)
  <2>1. ~BlockedAt(ms[a], k, u)
    BY <1>4, <1>5, <1>6, <1>7, JudgedEntry
  <2> QED
    BY <2>1, <1>4, <1>6, StaysFree
<1>8. ASSUME e.state # "ready"
      PROVE  BlockedAt(ms[a], k, t) \/ About(ms[a], k).quota.recover > t
  <2>1. CASE e = Judged(ms[a], k, t)
    BY <2>1, <1>4, <1>8, JudgedEntry
  <2>2. CASE e # Judged(ms[a], k, t)
    <3>1. s.made
      <4>1. ASSUME ~s.made
            PROVE  e = Judged(ms[a], k, t)
        BY <4>1, <1>3 DEF Ensured, Rebuilt, s2
      <4> QED
        BY <4>1, <2>2, <1>1 DEF Sound, ShardRecords
    <3>2. s2 = Promoted(s, k, ms, t)
      BY <3>1 DEF Ensured, s2
    <3>3. ViewsSay(s, ms)
      BY <3>1 DEF Sound
    <3>4. e = s.entries[a] /\ a \notin Due(s, t)
      <4>1. CASE Due(s, t) = {}
        BY <4>1, <3>2 DEF Promoted, Due
      <4>2. CASE Due(s, t) # {}
        <5>1. s2.entries = [b \in Auths |-> IF b \in Due(s, t) THEN Judged(ms[b], k, t)
                                            ELSE s.entries[b]]
          BY <4>2, <3>2 DEF Promoted, Due, Rebuilt
        <5> QED
          BY <5>1, <2>2
      <4> QED
        BY <4>1, <4>2
    <3>5. e.state \in {"cooldown", "blocked"} => ~(e.next # ZeroTime /\ e.next <= t)
      <4>1. e.in
        BY DEF s2
      <4> QED
        BY <4>1, <3>3, <3>4 DEF ViewsSay, Due
    <3> QED
      BY <3>5, <1>4, <1>5, <1>8, BlockedOrHeld
  <2> QED
    BY <2>1, <2>2
<1> QED
  BY <1>3, <1>4, <1>7, <1>8 DEF s2

\* A credential with an entry in the shard a request finds, and what the entry says.
LEMMA ReadyIsFree ==
  ASSUME IInv, NEW p \in Providers, NEW k \in Keys, NEW a \in Auths
  PROVE  LET e == ShardNow(p, k).entries[a]
         IN /\ e.in <=> a \in Members(p, k)
            /\ e.in /\ e.state = "ready" => a \in Free(p, k, Auths)
            /\ a \in Free(p, k, Auths) /\ ~Held(p, k, a) => e.in /\ e.state = "ready"
<1> DEFINE e == ShardNow(p, k).entries[a]
<1>1. now \in Nat \ {0} /\ metas[p] \in Pictures /\ Sound(shards[p][k], k, metas[p], now)
  BY NowIsNatural DEF IInv, Typed
<1>2. Live(ShardNow(p, k), k, metas[p], now)
  BY EnsuredIsLive DEF ShardNow
<1>3. e.in <=> a \in Members(p, k)
  BY <1>2 DEF Live, Sound, EntriesFollow, Members
<1>4. ASSUME e.in
      PROVE  /\ e.state = "ready" => ~BlockedAt(metas[p][a], k, now)
             /\ e.state # "ready" =>
                  BlockedAt(metas[p][a], k, now) \/ About(metas[p][a], k).quota.recover > now
  BY <1>1, <1>4, EnsuredIsFresh DEF ShardNow
<1>5. Held(p, k, a) <=> About(metas[p][a], k).quota.recover > now
  BY DEF Held, About
<1> HIDE DEF e
<1>6. a \in Free(p, k, Auths) <=> a \in Members(p, k) /\ ~BlockedAt(metas[p][a], k, now)
  BY DEF Free
<1> QED
  BY <1>3, <1>4, <1>5, <1>6 DEF e

LEMMA SoundPicksBest ==
  ASSUME IInv
  PROVE  PickIsBest
<1> SUFFICES ASSUME NEW p \in Providers, NEW k \in Keys, NEW prefer \in BOOLEAN,
                    NEW s \in Strategies, NEW cands \in SUBSET Auths
             PROVE  LET free   == Free(p, k, Auths)
                        unheld == {b \in free : ~Held(p, k, b)}
                        a == PickSingle(ShardNow(p, k), prefer, s, cands)[1]
                        rank(b) == <<prefer /\ metas[p][b].ws, metas[p][b].prio>>
                    IN IF a = NoAuth THEN unheld \intersect cands = {}
                       ELSE /\ a \in free \intersect cands
                            /\ \A b \in unheld \intersect cands :
                                 /\ rank(b)[1] => rank(a)[1]
                                 /\ rank(a)[1] = rank(b)[1] => rank(b)[2] <= rank(a)[2]
  BY Zenon DEF PickIsBest
<1> DEFINE free == Free(p, k, Auths)
           unheld == {b \in free : ~Held(p, k, b)}
           shard == ShardNow(p, k)
           a == PickSingle(shard, prefer, s, cands)[1]
           ready == ReadyAmong(shard, cands)
<1>1. Live(shard, k, metas[p], now) /\ metas[p] \in Pictures
  BY EnsuredIsLive DEF ShardNow
<1>2. \A b \in Auths :
        /\ shard.entries[b].in /\ shard.entries[b].state = "ready" => b \in free
        /\ b \in free /\ ~Held(p, k, b) => shard.entries[b].in /\ shard.entries[b].state = "ready"
  BY ReadyIsFree
<1>3. free \subseteq Auths
  BY DEF Free, Members
<1> HIDE DEF shard, free
<1>4. IF ready = {} THEN a = NoAuth
      ELSE /\ a \in ready
           /\ \A b \in ready :
                /\ prefer /\ metas[p][b].ws => metas[p][a].ws
                /\ (prefer /\ metas[p][a].ws => prefer /\ metas[p][b].ws)
                     => metas[p][b].prio <= metas[p][a].prio
  BY <1>1, PickedSingle
<1> HIDE DEF a
<1>5. ready \subseteq free \intersect cands /\ unheld \intersect cands \subseteq ready
  BY <1>2, <1>3 DEF ReadyAmong
<1>6. NoAuth \notin ready
  BY SchedulerAssumption DEF ReadyAmong
<1> HIDE DEF ready, unheld
<1>7. CASE ready = {}
  BY <1>4, <1>5, <1>7 DEF a, shard, free, unheld
<1>8. CASE ready # {}
  <2>1. a # NoAuth /\ a \in free \intersect cands
    BY <1>4, <1>5, <1>6, <1>8
  <2>2. ASSUME NEW b \in unheld \intersect cands
        PROVE  /\ prefer /\ metas[p][b].ws => prefer /\ metas[p][a].ws
               /\ (prefer /\ metas[p][a].ws) = (prefer /\ metas[p][b].ws)
                    => metas[p][b].prio <= metas[p][a].prio
    BY <1>4, <1>5, <1>8, Zenon
  <2> QED
    BY <2>1, <2>2 DEF a, shard, free, unheld
<1> QED
  BY <1>7, <1>8

\* A request for one provider fails only if each free candidate is held by an open quota
\* window; otherwise it gets a free candidate, however old the shard's entries are, and
\* no free unheld one outranks it.
THEOREM RequestsGetTheBest == Spec => []PickIsBest
<1>1. IInv => PickIsBest
  BY SoundPicksBest
<1> QED
  BY <1>1, ShardsAreSound, PTL

-----------------------------------------------------------------------------
(* The ring of a mixed request: each provider has a segment of slots.      *)

\* The providers' weights are numbers.
Ring(shs, prio, n) ==
  /\ n \in Nat /\ DOMAIN shs = 1 .. n /\ Len(shs) = n
  /\ \A j \in 1 .. n : Weight(shs, j, prio) \in Nat

\* Where the segments of n providers start.
StartsOf(g, shs, prio, n) ==
  g = [i \in 1 .. n + 1 |-> IF i = 1 THEN 0 ELSE g[i - 1] + Weight(shs, i - 1, prio)]

LEMMA StartsExist ==
  ASSUME NEW shs, NEW prio, NEW n \in Nat
  PROVE  \E g : StartsOf(g, shs, prio, n)
<1> DEFINE Bad == {m \in Nat : ~ \E g : StartsOf(g, shs, prio, m)}
<1> SUFFICES ASSUME Bad # {} PROVE FALSE
  OBVIOUS
<1> DEFINE m == Min(Bad)
<1>1. m \in Bad /\ \A x \in Bad : m <= x
  BY MinOfNaturals
<1> HIDE DEF m
<1>2. CASE m = 0
  <2>1. StartsOf([i \in 1 .. 1 |-> 0], shs, prio, 0)
    BY DEF StartsOf
  <2> QED
    BY <2>1, <1>1, <1>2
<1>3. CASE m # 0
  <2>1. m - 1 \in Nat /\ m \in Nat /\ m - 1 \notin Bad
    BY <1>1, <1>3
  <2>2. PICK g : StartsOf(g, shs, prio, m - 1)
    BY <2>1
  <2> DEFINE h == [i \in 1 .. m + 1 |-> IF i <= m THEN g[i] ELSE g[m] + Weight(shs, m, prio)]
  <2>3. \A i \in 1 .. m : g[i] = IF i = 1 THEN 0 ELSE g[i - 1] + Weight(shs, i - 1, prio)
    BY <2>1, <2>2 DEF StartsOf
  <2>4. \A i \in 1 .. m + 1 : h[i] = IF i = 1 THEN 0 ELSE h[i - 1] + Weight(shs, i - 1, prio)
    <3> SUFFICES ASSUME NEW i \in 1 .. m + 1
                 PROVE  h[i] = IF i = 1 THEN 0 ELSE h[i - 1] + Weight(shs, i - 1, prio)
      OBVIOUS
    <3>1. CASE i <= m
      BY <3>1, <2>1, <2>3
    <3>2. CASE ~(i <= m)
      <4>1. i = m + 1 /\ i # 1 /\ i - 1 = m
        BY <3>2, <2>1, <1>3
      <4>2. h[i] = g[m] + Weight(shs, m, prio) /\ h[i - 1] = g[m]
        BY <4>1, <2>1, <1>3
      <4> QED
        BY <4>1, <4>2
    <3> QED
      BY <3>1, <3>2
  <2>5. StartsOf(h, shs, prio, m)
    BY <2>4 DEF StartsOf
  <2> QED
    BY <2>5, <1>1
<1> QED
  BY <1>2, <1>3

\* The segments follow each other without gaps from slot 0 on.
LEMMA SegmentsFollow ==
  ASSUME NEW shs, NEW prio, NEW n, Ring(shs, prio, n)
  PROVE  /\ \A i \in 1 .. n + 1 : SegmentStart(shs, i, prio) \in Nat
         /\ SegmentStart(shs, 1, prio) = 0
         /\ \A i \in 1 .. n : SegmentStart(shs, i + 1, prio)
                                = SegmentStart(shs, i, prio) + Weight(shs, i, prio)
         /\ TotalWeight(shs, prio) = SegmentStart(shs, n + 1, prio)
<1> DEFINE f == SegmentStarts(shs, prio)
<1>1. n \in Nat /\ Len(shs) = n /\ \A j \in 1 .. n : Weight(shs, j, prio) \in Nat
  BY DEF Ring
<1>2. f = CHOOSE g : StartsOf(g, shs, prio, n)
  BY <1>1 DEF SegmentStarts, StartsOf
<1>3. StartsOf(f, shs, prio, n)
  BY <1>1, <1>2, StartsExist
<1> HIDE DEF f
<1>4. \A i \in 1 .. n + 1 : f[i] = IF i = 1 THEN 0 ELSE f[i - 1] + Weight(shs, i - 1, prio)
  BY <1>3 DEF StartsOf
<1>5. \A i \in 1 .. n : f[i + 1] = f[i] + Weight(shs, i, prio)
  <2> SUFFICES ASSUME NEW i \in 1 .. n
               PROVE  f[i + 1] = f[i] + Weight(shs, i, prio)
    OBVIOUS
  <2>1. i + 1 \in 1 .. n + 1 /\ i + 1 # 1 /\ (i + 1) - 1 = i
    BY <1>1
  <2> QED
    BY <2>1, <1>4
<1>6. f[1] = 0
  BY <1>1, <1>4
<1>7. \A i \in 1 .. n + 1 : f[i] \in Nat
  <2> DEFINE Bad == {i \in 1 .. n + 1 : f[i] \notin Nat}
  <2> SUFFICES ASSUME Bad # {} PROVE FALSE
    OBVIOUS
  <2> DEFINE m == Min(Bad)
  <2>1. Bad \in SUBSET Nat
    BY <1>1
  <2>2. m \in Bad /\ \A x \in Bad : m <= x
    BY <2>1, MinOfNaturals
  <2> HIDE DEF m
  <2>3. m \in 1 .. n + 1 /\ m # 1
    BY <2>2, <1>6
  <2>4. m - 1 \in 1 .. n /\ m - 1 \in 1 .. n + 1 /\ (m - 1) + 1 = m /\ m - 1 < m
    BY <2>3, <1>1
  <2>5. f[m - 1] \in Nat
    BY <2>2, <2>4
  <2>6. f[m] = f[m - 1] + Weight(shs, m - 1, prio)
    BY <2>4, <1>5
  <2> QED
    BY <2>2, <2>4, <2>5, <2>6, <1>1
<1> QED
  BY <1>1, <1>5, <1>6, <1>7 DEF f, SegmentStart, TotalWeight

\* Later providers have later segments.
LEMMA SegmentsGrow ==
  ASSUME NEW shs, NEW prio, NEW n, Ring(shs, prio, n),
         NEW i \in 1 .. n + 1, NEW j \in 1 .. n + 1, i <= j
  PROVE  SegmentStart(shs, i, prio) <= SegmentStart(shs, j, prio)
<1> DEFINE s(x) == SegmentStart(shs, x, prio)
           Bad == {x \in i .. n + 1 : ~(s(i) <= s(x))}
<1>1. /\ n \in Nat
      /\ \A x \in 1 .. n + 1 : s(x) \in Nat
      /\ \A x \in 1 .. n : s(x + 1) = s(x) + Weight(shs, x, prio)
      /\ \A x \in 1 .. n : Weight(shs, x, prio) \in Nat
  BY SegmentsFollow DEF Ring
<1> SUFFICES ASSUME Bad # {} PROVE FALSE
  OBVIOUS
<1> HIDE DEF s
<1> DEFINE m == Min(Bad)
<1>2. Bad \in SUBSET Nat
  BY <1>1
<1>3. m \in Bad /\ \A x \in Bad : m <= x
  BY <1>2, MinOfNaturals
<1> HIDE DEF m
<1>4. m \in i .. n + 1 /\ ~(s(i) <= s(m)) /\ m # i
  BY <1>1, <1>3
<1>5. m - 1 \in i .. n + 1 /\ m - 1 \in 1 .. n /\ (m - 1) + 1 = m /\ m - 1 < m
  BY <1>1, <1>4
<1>6. s(i) <= s(m - 1)
  BY <1>3, <1>4, <1>5
<1>7. /\ s(m) = s(m - 1) + Weight(shs, m - 1, prio) /\ Weight(shs, m - 1, prio) \in Nat
      /\ s(m - 1) \in Nat /\ s(i) \in Nat
  BY <1>1, <1>5
<1> QED
  BY <1>4, <1>6, <1>7

\* Each slot of the ring falls in the segment of a provider.
LEMMA SlotHasProvider ==
  ASSUME NEW shs, NEW prio, NEW n, Ring(shs, prio, n),
         NEW slot \in 0 .. TotalWeight(shs, prio) - 1
  PROVE  LET p == StartProvider(shs, prio, slot)
         IN /\ p \in 1 .. n
            /\ SegmentStart(shs, p, prio) <= slot /\ slot < SegmentStart(shs, p + 1, prio)
<1> DEFINE s(x) == SegmentStart(shs, x, prio)
           Behind == {x \in 1 .. n : slot < s(x + 1)}
           m == Min(Behind)
<1>1. /\ n \in Nat /\ DOMAIN shs = 1 .. n
      /\ \A x \in 1 .. n + 1 : s(x) \in Nat
      /\ s(1) = 0 /\ TotalWeight(shs, prio) = s(n + 1)
  BY SegmentsFollow DEF Ring
<1>2. StartProvider(shs, prio, slot) = CHOOSE i \in 1 .. n : s(i) <= slot /\ slot < s(i + 1)
  BY <1>1 DEF StartProvider
<1> HIDE DEF s
<1>3. slot \in Nat /\ slot < s(n + 1)
  BY <1>1
<1>4. n # 0
  BY <1>1, <1>3
<1>5. n \in Behind
  BY <1>1, <1>3, <1>4
<1>6. Behind \in SUBSET Nat /\ Behind # {}
  <2>1. Behind \subseteq 1 .. n /\ 1 .. n \subseteq Nat
    BY <1>1
  <2> HIDE DEF Behind
  <2> QED
    BY <2>1, <1>5
<1>7. m \in Behind /\ \A x \in Behind : m <= x
  BY <1>6, MinOfNaturals
<1> HIDE DEF m
<1>8. s(m) <= slot
  <2>1. CASE m = 1
    BY <2>1, <1>1, <1>3
  <2>2. CASE m # 1
    <3>1. m - 1 \in 1 .. n /\ (m - 1) + 1 = m /\ ~(m <= m - 1)
      BY <2>2, <1>1, <1>7
    <3>2. ~(slot < s(m))
      BY <3>1, <1>7
    <3> QED
      BY <3>2, <1>1, <1>3, <1>7
  <2> QED
    BY <2>1, <2>2
<1>9. m \in 1 .. n /\ s(m) <= slot /\ slot < s(m + 1)
  BY <1>7, <1>8
<1> HIDE DEF Behind
<1>10. \E i \in 1 .. n : s(i) <= slot /\ slot < s(i + 1)
  BY <1>9
<1> QED
  BY <1>2, <1>10 DEF s

\* How many providers after the one a slot falls in.
LEMMA HopsAre ==
  ASSUME NEW shs, NEW prio, NEW n, Ring(shs, prio, n),
         NEW slot \in 0 .. TotalWeight(shs, prio) - 1, NEW i \in 1 .. n
  PROVE  LET p == StartProvider(shs, prio, slot)
         IN Hops(shs, prio, slot, i) = IF i >= p THEN i - p ELSE i + n - p
<1> DEFINE p == StartProvider(shs, prio, slot)
<1>1. p \in 1 .. n
  BY SlotHasProvider
<1>2. Hops(shs, prio, slot, i) = (i + n - p) % n
  BY DEF Hops, Ring
<1> HIDE DEF p
<1>3. n \in Nat /\ n # 0
  BY DEF Ring
<1> DEFINE z == i + n - p
<1>4. z \in 0 .. 2 * n - 1
  BY <1>1, <1>3
<1>5. (z < n <=> ~(i >= p)) /\ z - n = i - p
  BY <1>1, <1>3
<1> HIDE DEF z
<1>6. z % n = IF z < n THEN z ELSE z - n
  BY <1>3, <1>4, Wraps
<1> QED
  BY <1>2, <1>5, <1>6 DEF p, z

\* The way from slot x of a ring of n to slot e.
Far(n, x, e) == IF e >= x THEN e - x ELSE e + n - x

LEMMA FarIs ==
  ASSUME NEW n \in Nat \ {0}, NEW x \in 0 .. n - 1, NEW e \in 0 .. n - 1
  PROVE  (e + n - x) % n = Far(n, x, e)
<1> DEFINE z == e + n - x
<1>1. z \in 0 .. 2 * n - 1 /\ (z < n <=> ~(e >= x)) /\ z - n = e - x
  OBVIOUS
<1> HIDE DEF z
<1>2. z % n = IF z < n THEN z ELSE z - n
  BY <1>1, Wraps
<1> QED
  BY <1>1, <1>2 DEF Far, z

\* The segments of two providers do not overlap.
LEMMA SegmentsApart ==
  ASSUME NEW shs, NEW prio, NEW n, Ring(shs, prio, n),
         NEW i \in 1 .. n, NEW j \in 1 .. n, i < j
  PROVE  SegmentStart(shs, i + 1, prio) <= SegmentStart(shs, j, prio)
<1>1. i + 1 \in 1 .. n + 1 /\ j \in 1 .. n + 1 /\ i + 1 <= j
  BY DEF Ring
<1> QED
  BY <1>1, SegmentsGrow

\* What is known of the segment of a provider with a ready credential.
LEMMA SegmentOf ==
  ASSUME NEW shs, NEW prio, NEW n, Ring(shs, prio, n), NEW i \in 1 .. n,
         Weight(shs, i, prio) # 0
  PROVE  /\ SegmentStart(shs, i, prio) \in Nat /\ SegmentStart(shs, i + 1, prio) \in Nat
         /\ TotalWeight(shs, prio) \in Nat \ {0}
         /\ SegmentStart(shs, i, prio) < SegmentStart(shs, i + 1, prio)
         /\ SegmentStart(shs, i + 1, prio) <= TotalWeight(shs, prio)
<1>1. i \in 1 .. n + 1 /\ i + 1 \in 1 .. n + 1 /\ n + 1 \in 1 .. n + 1 /\ i + 1 <= n + 1
  BY DEF Ring
<1>2. Weight(shs, i, prio) \in Nat
  BY DEF Ring
<1>3. /\ SegmentStart(shs, i, prio) \in Nat /\ SegmentStart(shs, i + 1, prio) \in Nat
      /\ SegmentStart(shs, i + 1, prio) = SegmentStart(shs, i, prio) + Weight(shs, i, prio)
      /\ TotalWeight(shs, prio) = SegmentStart(shs, n + 1, prio)
      /\ SegmentStart(shs, n + 1, prio) \in Nat
  BY <1>1, SegmentsFollow
<1>4. SegmentStart(shs, i + 1, prio) <= SegmentStart(shs, n + 1, prio)
  BY <1>1, SegmentsGrow
<1> QED
  BY <1>2, <1>3, <1>4

\* A distance is the way to the segment, but none inside it.
LEMMA DistanceIs ==
  ASSUME NEW shs, NEW prio, NEW n, Ring(shs, prio, n), NEW i \in 1 .. n,
         Weight(shs, i, prio) # 0, NEW slot \in Nat
  PROVE  LET t == TotalWeight(shs, prio)
             x == slot % t
         IN /\ x \in 0 .. t - 1
            /\ Distance(shs, prio, slot, i) =
                 IF StartProvider(shs, prio, x) = i THEN 0 ELSE Far(t, x, SegmentStart(shs, i, prio))
<1> DEFINE t == TotalWeight(shs, prio)
           x == slot % t
           e == SegmentStart(shs, i, prio)
<1>1. t \in Nat \ {0} /\ e \in 0 .. t - 1
  BY SegmentOf
<1>2. Distance(shs, prio, slot, i) = IF StartProvider(shs, prio, x) = i THEN 0 ELSE (e + t - x) % t
  BY DEF Distance
<1> HIDE DEF t, e
<1>3. x \in 0 .. t - 1
  BY <1>1
<1> HIDE DEF x
<1>4. (e + t - x) % t = Far(t, x, e)
  BY <1>1, <1>3, FarIs
<1>5. Distance(shs, prio, slot, i) = IF StartProvider(shs, prio, x) = i THEN 0 ELSE Far(t, x, e)
  BY <1>2, <1>4, Zenon
<1> QED
  BY <1>3, <1>5, Zenon DEF t, x, e

\* The slot after y of a ring of n.
LEMMA NextSlot ==
  ASSUME NEW n \in Nat \ {0}, NEW y \in 1 .. n
  PROVE  y % n = IF y = n THEN 0 ELSE y
<1>1. n # 0 /\ y \in 0 .. 2 * n - 1 /\ n \in Nat
  OBVIOUS
<1>2. y % n = IF y < n THEN y ELSE y - n
  BY <1>1, Wraps
<1> QED
  BY <1>2

\* A turn that serves a provider no further away than i brings i closer.
LEMMA MixedTurnProgresses ==
  ASSUME NEW shs, NEW prio, NEW n, Ring(shs, prio, n),
         NEW i \in 1 .. n, Weight(shs, i, prio) # 0,
         NEW j \in 1 .. n, Weight(shs, j, prio) # 0, i # j, NEW slot \in Nat,
         LET x == slot % TotalWeight(shs, prio)
         IN Hops(shs, prio, x, j) <= Hops(shs, prio, x, i)
  PROVE  LET x == slot % TotalWeight(shs, prio)
             turn == IF j = StartProvider(shs, prio, x) THEN x ELSE SegmentStart(shs, j, prio)
         IN Distance(shs, prio, turn + 1, i) < Distance(shs, prio, slot, i)
<1> DEFINE t == TotalWeight(shs, prio)
           x == slot % t
           p == StartProvider(shs, prio, x)
           s(a) == SegmentStart(shs, a, prio)
           turn == IF j = p THEN x ELSE s(j)
           y == turn + 1
           z == IF y = t THEN 0 ELSE y
<1>1. /\ t \in Nat \ {0} /\ s(i) \in Nat /\ s(i + 1) \in Nat /\ s(i) < s(i + 1) /\ s(i + 1) <= t
      /\ s(j) \in Nat /\ s(j + 1) \in Nat /\ s(j) < s(j + 1) /\ s(j + 1) <= t
  BY SegmentOf
<1>2. x \in 0 .. t - 1
  BY DistanceIs
<1>3. p \in 1 .. n /\ s(p) <= x /\ x < s(p + 1)
  BY <1>2, SlotHasProvider
<1>4. s(p) \in Nat /\ s(p + 1) \in Nat
  <2>1. p \in 1 .. n + 1 /\ p + 1 \in 1 .. n + 1
    BY <1>3 DEF Ring
  <2> QED
    BY <2>1, SegmentsFollow
<1>5. (IF j >= p THEN j - p ELSE j + n - p) <= (IF i >= p THEN i - p ELSE i + n - p)
  BY <1>2, HopsAre
<1>6. /\ i < j => s(i + 1) <= s(j)
      /\ j < i => s(j + 1) <= s(i)
      /\ i < p => s(i + 1) <= s(p)
      /\ p < i => s(p + 1) <= s(i)
      /\ j < p => s(j + 1) <= s(p)
      /\ p < j => s(p + 1) <= s(j)
  BY <1>3, SegmentsApart
<1>7. n \in Nat
  BY DEF Ring
<1>8. Distance(shs, prio, slot, i) = IF p = i THEN 0 ELSE Far(t, x, s(i))
  BY DistanceIs
<1> HIDE DEF s, p, x, t
<1>9. p # i
  BY <1>3, <1>5, <1>7
<1>10. y \in 1 .. t /\ y \in Nat
  BY <1>1, <1>2
<1>11. y % t = z
  BY <1>1, <1>10, NextSlot
<1>12. Distance(shs, prio, y, i) = IF StartProvider(shs, prio, z) = i THEN 0 ELSE Far(t, z, s(i))
  BY <1>10, <1>11, DistanceIs DEF s, t
<1>13. s(i) # x
  BY <1>1, <1>2, <1>3, <1>4, <1>6, <1>7, <1>9
<1>14. 0 < Far(t, x, s(i))
  BY <1>1, <1>2, <1>13 DEF Far
<1>15. Far(t, z, s(i)) < Far(t, x, s(i))
  <2>1. CASE j = p
    <3>1. y = x + 1
      BY <2>1
    <3>2. CASE y = t
      <4>1. z = 0 /\ x = t - 1
        BY <3>1, <3>2, <1>1, <1>2
      <4>2. s(i) < x
        BY <4>1, <1>1, <1>13
      <4> QED
        BY <4>1, <4>2, <1>1, <1>2 DEF Far
    <3>3. CASE y # t
      <4>1. z = x + 1
        BY <3>1, <3>3
      <4> QED
        BY <4>1, <1>1, <1>2, <1>13 DEF Far
    <3> QED
      BY <3>2, <3>3
  <2>2. CASE j # p
    <3>1. y = s(j) + 1
      BY <2>2
    <3>2. y <= s(j + 1)
      BY <3>1, <1>1
    <3>3. CASE p < j /\ j < i
      <4>1. x < s(j) /\ y <= s(i) /\ y # t
        BY <3>1, <3>2, <3>3, <1>1, <1>2, <1>3, <1>4, <1>6
      <4> QED
        BY <4>1, <3>1, <1>1, <1>2 DEF Far
    <3>4. CASE i < p /\ p < j
      <4>1. x < s(j) /\ s(i) < x /\ s(i) < y
        BY <3>1, <3>2, <3>4, <1>1, <1>2, <1>3, <1>4, <1>6
      <4> QED
        BY <4>1, <3>1, <1>1, <1>2 DEF Far
    <3>5. CASE j < i /\ i < p
      <4>1. y <= s(i) /\ s(i) < x /\ y # t
        BY <3>1, <3>2, <3>5, <1>1, <1>2, <1>3, <1>4, <1>6
      <4> QED
        BY <4>1, <3>1, <1>1, <1>2 DEF Far
    <3>6. (p < j /\ j < i) \/ (i < p /\ p < j) \/ (j < i /\ i < p)
      BY <2>2, <1>3, <1>5, <1>7, <1>9
    <3> QED
      BY <3>3, <3>4, <3>5, <3>6
  <2> QED
    BY <2>1, <2>2
<1> QED
  BY <1>8, <1>9, <1>12, <1>14, <1>15 DEF s, p, x, t

-----------------------------------------------------------------------------
(* What a mixed request gets.                                              *)

LEMMA RingOfAsked ==
  ASSUME NEW order, NEW shs, NEW k, NEW m, NEW t, Asks(order, shs, k, m, t), NEW prio \in Priorities
  PROVE  Ring(shs, prio, Len(order))
<1>1. DOMAIN order = 1 .. Len(order) /\ Len(order) \in Nat
  BY SchedulerAssumption DEF Asks
<1>2. ASSUME NEW j \in DOMAIN order
      PROVE  Weight(shs, j, prio) \in Nat
  <2>1. shs[j] \in ShardRecords /\ ViewsSay(shs[j], m[order[j]])
    BY DEF Asks, Live, Sound
  <2>2. shs[j].ready[prio].all.flat \in Seq(Auths)
    BY <2>1, ShardFields
  <2> DEFINE flat == shs[j].ready[prio].all.flat
  <2> HIDE DEF flat
  <2>3. flat \in Seq(Auths)
    BY <2>2 DEF flat
  <2>4. Len(flat) \in Nat
    BY <2>3
  <2> QED
    BY <2>4 DEF Weight, flat
<1> QED
  BY <1>1, <1>2 DEF Ring, Asks

\* A provider that has a candidate has slots.
LEMMA AbleHasSlots ==
  ASSUME NEW order, NEW shs, NEW k, NEW m, NEW t, Asks(order, shs, k, m, t), NEW prio \in Priorities,
         NEW cands, NEW i
  PROVE  /\ i \in CanServe(shs, prio, cands) <=>
              i \in DOMAIN order /\ Offered(shs[i], m[order[i]], prio, "all", cands) # {}
         /\ i \in CanServe(shs, prio, cands) => Weight(shs, i, prio) # 0
<1>1. CASE i \in DOMAIN order
  <2>1. Live(shs[i], k, m[order[i]], t) /\ DOMAIN shs = DOMAIN order
    BY <1>1 DEF Asks
  <2> DEFINE v == shs[i].ready[prio].all
  <2>2. Elements(v, cands) = Offered(shs[i], m[order[i]], prio, "all", cands)
    BY <2>1, ElementsOfShard
  <2>3. v.flat \in Seq(Auths)
    BY <2>1, ShardFields DEF Live, Sound
  <2>4. Len(v.flat) = 0 => Elements(v, cands) = {}
    BY <2>3 DEF Elements, ToSet
  <2>5. i \in CanServe(shs, prio, cands) <=> Elements(v, cands) # {}
    BY <1>1, <2>1 DEF CanServe
  <2> QED
    BY <1>1, <2>2, <2>4, <2>5 DEF Weight
<1>2. CASE i \notin DOMAIN order
  BY <1>2 DEF CanServe, Asks
<1> QED
  BY <1>1, <1>2

\* Some provider has a candidate.
CanPick(shs, cands) == ~ \A i \in DOMAIN shs : Usable(shs[i], "all", cands) = {}

\* The provider that serves a mixed request has a candidate of the best priority; in
\* round robin it is the first such provider from the slot on, and the slot moves on.
ServedBy(j, order, shs, m, strat, slot, cands) ==
  LET prio == BestMixed(shs, cands)
      x == slot % TotalWeight(shs, prio)
      r == PickMixed(shs, strat, slot, cands)
  IN /\ j \in CanServe(shs, prio, cands)
     /\ r.auth \in Offered(shs[j], m[order[j]], prio, "all", cands)
     /\ r.slot = IF strat = "fill-first" THEN slot
                 ELSE (IF j = StartProvider(shs, prio, x) THEN x
                       ELSE SegmentStart(shs, j, prio)) + 1
     /\ strat # "fill-first" => \A i \in CanServe(shs, prio, cands) :
          Hops(shs, prio, x, j) <= Hops(shs, prio, x, i)

LEMMA MixedServes ==
  ASSUME NEW order, NEW shs, NEW k, NEW m, NEW t, Asks(order, shs, k, m, t),
         NEW strat, NEW slot \in Nat, NEW cands, CanPick(shs, cands)
  PROVE  \E j : ServedBy(j, order, shs, m, strat, slot, cands)
<1> DEFINE n == Len(order)
           prio == BestMixed(shs, cands)
           able == CanServe(shs, prio, cands)
           x == slot % TotalWeight(shs, prio)
           h(i) == Hops(shs, prio, x, i)
           i0 == IF strat = "fill-first" THEN Min(able)
                 ELSE CHOOSE i \in able : \A j \in able : h(i) <= h(j)
           taken == PickAt(shs[i0], prio, FALSE, strat, cands)
           r == PickMixed(shs, strat, slot, cands)
<1>1. prio \in Priorities /\ \E i \in DOMAIN order : prio \in Usable(shs[i], "all", cands)
  BY BestOfMixed DEF CanPick
<1>2. r = [auth |-> taken[1], shs |-> [shs EXCEPT ![i0] = taken[2]],
           slot |-> IF strat = "fill-first" THEN slot
                    ELSE (IF i0 = StartProvider(shs, prio, x) THEN x
                          ELSE SegmentStart(shs, i0, prio)) + 1]
  BY DEF PickMixed, CanPick
<1> HIDE DEF prio, r
<1>3. Ring(shs, prio, n)
  BY <1>1, RingOfAsked
<1>4. DOMAIN order = 1 .. n /\ n \in Nat
  BY SchedulerAssumption DEF Asks
<1>5. able # {} /\ able \subseteq 1 .. n
  <2>1. able \subseteq 1 .. n
    BY <1>4 DEF CanServe, Asks
  <2>2. PICK i \in DOMAIN order : prio \in Usable(shs[i], "all", cands)
    BY <1>1
  <2>3. i \in able
    BY <2>2 DEF CanServe, Usable, Asks
  <2> QED
    BY <2>1, <2>3
<1>6. x \in 0 .. TotalWeight(shs, prio) - 1
  <2>1. PICK i \in able : TRUE
    BY <1>5
  <2>2. i \in 1 .. n /\ Weight(shs, i, prio) # 0
    BY <1>1, <1>5, AbleHasSlots
  <2> QED
    BY <2>2, <1>3, DistanceIs
<1>7. \A i \in able : h(i) \in Nat
  <2> SUFFICES ASSUME NEW i \in able PROVE h(i) \in Nat
    OBVIOUS
  <2> DEFINE p == StartProvider(shs, prio, x)
  <2>1. i \in 1 .. n
    BY <1>5
  <2>2. p \in 1 .. n
    BY <1>3, <1>6, SlotHasProvider
  <2>3. h(i) = IF i >= p THEN i - p ELSE i + n - p
    BY <2>1, <1>3, <1>6, HopsAre
  <2> HIDE DEF p, h
  <2> QED
    BY <2>1, <2>2, <2>3, <1>4
<1>8. i0 \in able /\ (strat # "fill-first" => \A i \in able : h(i0) <= h(i))
  <2> HIDE DEF able, h
  <2>1. CASE strat = "fill-first"
    <3>1. able \in SUBSET Nat
      BY <1>4, <1>5
    <3> QED
      BY <2>1, <3>1, <1>5, MinOfNaturals
  <2>2. CASE strat # "fill-first"
    <3> DEFINE H == {h(i) : i \in able}
    <3>1. H \in SUBSET Nat /\ H # {}
      BY <1>5, <1>7
    <3>2. Min(H) \in H /\ \A y \in H : Min(H) <= y
      BY <3>1, MinOfNaturals
    <3>3. \E i \in able : \A j \in able : h(i) <= h(j)
      <4>1. PICK i \in able : h(i) = Min(H)
        BY <3>2
      <4>2. \A j \in able : h(j) \in H
        OBVIOUS
      <4> QED
        BY <3>2, <4>1, <4>2
    <3> QED
      BY <2>2, <3>3
  <2> QED
    BY <2>1, <2>2
<1> HIDE DEF i0, able, x
<1>9. i0 \in DOMAIN order /\ Offered(shs[i0], m[order[i0]], prio, "all", cands) # {}
  BY <1>1, <1>8, AbleHasSlots DEF able
<1>10. Live(shs[i0], k, m[order[i0]], t)
  BY <1>9 DEF Asks
<1>11. taken[1] \in Offered(shs[i0], m[order[i0]], prio, "all", cands)
  <2>1. Viewed(shs[i0], m[order[i0]], prio, FALSE, cands) = "all"
    BY DEF Viewed
  <2> QED
    BY <2>1, <1>1, <1>9, <1>10, PickedAt
<1> HIDE DEF taken
<1>12. /\ r.auth = taken[1]
       /\ r.slot = IF strat = "fill-first" THEN slot
                   ELSE (IF i0 = StartProvider(shs, prio, x) THEN x
                         ELSE SegmentStart(shs, i0, prio)) + 1
  BY <1>2
<1> QED
  BY <1>8, <1>11, <1>12 DEF r, able, x, prio, ServedBy

\* The cursors of mixed requests are slot numbers.
Slots == mixed \in [Orders \X Keys -> Nat]

LEMMA MixedSlot ==
  ASSUME NEW order, NEW shs, NEW k, NEW m, NEW t, Asks(order, shs, k, m, t),
         NEW strat, NEW slot \in Nat, NEW cands
  PROVE  PickMixed(shs, strat, slot, cands).slot \in Nat
<1>1. CASE \A i \in DOMAIN shs : Usable(shs[i], "all", cands) = {}
  BY <1>1 DEF PickMixed
<1>2. CASE ~ \A i \in DOMAIN shs : Usable(shs[i], "all", cands) = {}
  <2> DEFINE prio == BestMixed(shs, cands)
             x == slot % TotalWeight(shs, prio)
             n == Len(order)
             s == PickMixed(shs, strat, slot, cands).slot
  <2>1. PICK j : ServedBy(j, order, shs, m, strat, slot, cands)
    BY <1>2, MixedServes DEF CanPick
  <2>2. prio \in Priorities
    BY <1>2, BestOfMixed
  <2>3. j \in DOMAIN order /\ Weight(shs, j, prio) # 0
    BY <2>1, <2>2, AbleHasSlots DEF ServedBy
  <2>4. DOMAIN order = 1 .. n /\ n \in Nat
    BY SchedulerAssumption DEF Asks
  <2>5. Ring(shs, prio, n) /\ j \in 1 .. n
    BY <2>2, <2>3, <2>4, RingOfAsked
  <2>6. SegmentStart(shs, j, prio) \in Nat /\ TotalWeight(shs, prio) \in Nat
    BY <2>3, <2>5, SegmentOf
  <2>7. x \in 0 .. TotalWeight(shs, prio) - 1
    BY <2>3, <2>5, DistanceIs
  <2>9. s = IF strat = "fill-first" THEN slot
            ELSE (IF j = StartProvider(shs, prio, x) THEN x ELSE SegmentStart(shs, j, prio)) + 1
    BY <2>1 DEF ServedBy
  <2> HIDE DEF x, prio, s
  <2>8. x \in Nat
    BY <2>6, <2>7
  <2> QED
    BY <2>6, <2>8, <2>9 DEF s
<1> QED
  BY <1>1, <1>2

LEMMA SlotsStep == IInv /\ Slots /\ [Next]_vars => Slots'
<1> SUFFICES ASSUME IInv, Slots, [Next]_vars PROVE Slots'
  OBVIOUS
<1>1. ASSUME mixed' = mixed \/ mixed' = NoSlots
      PROVE  Slots'
  BY <1>1 DEF Slots, NoSlots
<1>2. ASSUME NEW a \in Auths, NEW set \in Settings[a], NEW off \in BOOLEAN, Configure(a, set, off)
      PROVE  mixed' = mixed
  BY <1>2 DEF Configure
<1>3. ASSUME NEW a \in Auths, NEW m \in Models, ReportSuccess(a, m)
      PROVE  mixed' = mixed
  BY <1>3 DEF ReportSuccess, Report
<1>4. ASSUME NEW a \in Auths, NEW m \in Models, NEW kind \in Failures, NEW hint \in HintsFor(kind),
             ReportFailure(a, m, kind, hint)
      PROVE  mixed' = mixed
  BY <1>4 DEF ReportFailure, Report
<1>5. ASSUME NEW a \in Auths, Forget(a)
      PROVE  mixed' = mixed
  BY <1>5 DEF Forget
<1>6. ASSUME NEW s \in Strategies, SetSelector(s)
      PROVE  mixed' = NoSlots
  BY <1>6 DEF SetSelector
<1>7. Rebuild => mixed' = NoSlots
  BY DEF Rebuild
<1>8. ASSUME NEW k \in Keys, NEW tried, NEW p \in Providers, NEW ws \in BOOLEAN, NEW pinned,
             PickOne(p, k, ws, pinned, tried)
      PROVE  mixed' = mixed
  BY <1>8 DEF PickOne
<1>9. ASSUME NEW k \in Keys, NEW tried, NEW order \in Orders, PickAny(order, k, tried)
      PROVE  Slots'
  <2> DEFINE x == <<order, k>>
             slot == PickMixed(ShardsOf(order, k), strategy, mixed[x], Auths \ tried).slot
  <2>1. x \in Orders \X Keys
    OBVIOUS
  <2>2. mixed[x] \in Nat
    BY <2>1 DEF Slots
  <2>3. slot \in Nat
    BY <2>2, ShardsAsked, MixedSlot
  <2>4. mixed' = [mixed EXCEPT ![x] = slot]
    BY <1>9 DEF PickAny
  <2> HIDE DEF slot, x
  <2> QED
    BY <2>1, <2>3, <2>4 DEF Slots
<1>10. ASSUME NEW k \in Keys, NEW pinned, NEW tried, NEW order \in Orders,
              PickPinned(order, k, pinned, tried)
       PROVE  mixed' = mixed
  BY <1>10 DEF PickPinned
<1>11. Tick => mixed' = mixed
  BY DEF Tick
<1>12. UNCHANGED vars => mixed' = mixed
  BY DEF vars
<1> QED
  BY <1>1, <1>2, <1>3, <1>4, <1>5, <1>6, <1>7, <1>8, <1>9, <1>10, <1>11, <1>12 DEF Next

LEMMA SlotsHold == Spec => []Slots
<1>1. Init => Slots
  BY DEF Init, NoSlots, Slots
<1>2. IInv /\ Slots /\ [Next]_vars => Slots'
  BY SlotsStep
<1> QED
  BY <1>1, <1>2, ShardsAreSound, PTL DEF Spec

\* The views of any shard, asked for or not.
LEMMA ViewsAreTyped ==
  ASSUME IInv, NEW p \in Providers, NEW k \in Keys, NEW pr \in Priorities
  PROVE  ViewOK(shards[p][k].ready[pr].all) /\ ViewOK(shards[p][k].ready[pr].ws)
<1> DEFINE s == shards[p][k]
<1>1. Sound(s, k, metas[p], now)
  BY DEF IInv
<1>2. CASE ~s.made
  <2>1. s.ready[pr].all = EmptyView /\ s.ready[pr].ws = EmptyView
    BY <1>1, <1>2 DEF Sound, NoShard, EmptyBucket
  <2> QED
    BY <2>1 DEF ViewOK, EmptyView
<1>3. CASE s.made
  <2>1. s \in ShardRecords /\ ViewsSay(s, metas[p])
    BY <1>1, <1>3 DEF Sound
  <2>2. ASSUME NEW v \in Views, NEW ids \in SUBSET Auths, ViewOf(v, ids)
        PROVE  ViewOK(v)
    BY <2>2, ListedAuths, ShardFields DEF ViewOf, ViewOK
  <2>3. s.ready[pr].all \in Views /\ s.ready[pr].ws \in Views
    BY <2>1, ShardFields
  <2>4. /\ ViewOf(s.ready[pr].all, ReadyAt(s.entries, metas[p], pr))
        /\ ViewOf(s.ready[pr].ws, {a \in ReadyAt(s.entries, metas[p], pr) : metas[p][a].ws})
    BY <2>1 DEF ViewsSay
  <2> HIDE DEF s
  <2> QED
    BY <2>2, <2>3, <2>4, ReadyAuths DEF s
<1> QED
  BY <1>2, <1>3

LEMMA SoundIsTyped ==
  ASSUME IInv, Slots
  PROVE  TypeOK
<1>1. Typed
  BY DEF IInv
<1>2. ASSUME NEW p \in Providers, NEW k \in Keys
      PROVE  /\ \A a \in Auths : EntryOK(shards[p][k].entries[a])
             /\ shards[p][k].blocked \subseteq Auths
  <2>1. shards[p][k] \in ShardRecords
    BY <1>1 DEF Typed
  <2>2. shards[p][k].entries \in [Auths -> Entries] /\ shards[p][k].blocked \subseteq Auths
    BY <2>1, ShardFields
  <2>3. \A e \in Entries : EntryOK(e)
    BY DEF Entries, EntryOK
  <2> QED
    BY <2>2, <2>3
<1> QED
  BY <1>1, <1>2, ViewsAreTyped DEF TypeOK, Typed, Pictures, Slots

\* Every variable keeps its type; a cursor is an index into its view or one past it.
THEOREM SchedulerIsTyped == Spec => []TypeOK
<1>1. IInv /\ Slots => TypeOK
  BY SoundIsTyped
<1> QED
  BY <1>1, ShardsAreSound, SlotsHold, PTL

\* What a provider offers is a free credential of its own.
LEMMA OfferedIsFree ==
  ASSUME IInv, NEW p \in Providers, NEW k \in Keys, NEW prio, NEW cands,
         NEW a \in Offered(ShardNow(p, k), metas[p], prio, "all", cands)
  PROVE  /\ a \in Free(p, k, Auths) /\ a \in cands
         /\ pool[a].prov = p /\ pool[a].prio = prio
<1> DEFINE s == ShardNow(p, k)
<1>1. /\ a \in Auths /\ s.entries[a].in /\ s.entries[a].state = "ready"
      /\ metas[p][a].prio = prio /\ a \in cands
  BY DEF Offered, Ready, ReadyAt
<1>2. a \in Free(p, k, Auths)
  BY <1>1, ReadyIsFree
<1>3. metas[p][a] = pool[a] /\ pool[a].prov = p
  BY <1>2 DEF Free, Members, IInv, Known
<1> QED
  BY <1>1, <1>2, <1>3

\* It offers all that are not held by an open quota window.
LEMMA FreeIsOffered ==
  ASSUME IInv, NEW p \in Providers, NEW k \in Keys, NEW cands,
         NEW a \in Free(p, k, Auths), a \in cands
  PROVE  /\ pool[a].prov = p /\ pool[a].prio \in Priorities
         /\ ~Held(p, k, a) => a \in Offered(ShardNow(p, k), metas[p], pool[a].prio, "all", cands)
<1> DEFINE s == ShardNow(p, k)
<1>1. a \in Auths /\ metas[p][a] = pool[a] /\ pool[a] # NoAuth /\ pool[a].prov = p
  BY DEF Free, Members, IInv, Known
<1>2. pool[a].prio \in Priorities
  BY <1>1, PoolFields, ShardFields
<1>3. ASSUME ~Held(p, k, a)
      PROVE  s.entries[a].in /\ s.entries[a].state = "ready"
  BY <1>1, <1>3, ReadyIsFree
<1> HIDE DEF s
<1>4. ASSUME ~Held(p, k, a)
      PROVE  a \in Offered(s, metas[p], pool[a].prio, "all", cands)
  BY <1>1, <1>3, <1>4 DEF Offered, Ready, ReadyAt
<1> QED
  BY <1>1, <1>2, <1>4 DEF s

\* The shard of the i-th provider asked.
LEMMA ShardOfMixed ==
  ASSUME NEW order \in Orders, NEW k \in Keys, NEW i \in DOMAIN order
  PROVE  order[i] \in Providers /\ ShardsOf(order, k)[i] = ShardNow(order[i], k)
BY SchedulerAssumption DEF ShardsOf, ShardNow

\* What a mixed request may be given, and what it must not be refused.
FreeForMixed(order, k) == UNION {Free(order[i], k, Auths) : i \in DOMAIN order}
UnheldForMixed(order, k) == {a \in FreeForMixed(order, k) : ~Held(pool[a].prov, k, a)}

LEMMA UnheldIsOffered ==
  ASSUME IInv, NEW order \in Orders, NEW k \in Keys, NEW cands,
         NEW a \in UnheldForMixed(order, k) \intersect cands
  PROVE  /\ pool[a].prio \in Priorities
         /\ \E i \in DOMAIN order :
              pool[a].prio \in Usable(ShardsOf(order, k)[i], "all", cands)
<1>1. PICK i \in DOMAIN order : a \in Free(order[i], k, Auths)
  BY DEF UnheldForMixed, FreeForMixed
<1> DEFINE s == ShardsOf(order, k)[i]
<1>2. order[i] \in Providers /\ s = ShardNow(order[i], k)
  BY ShardOfMixed
<1>3. pool[a].prov = order[i] /\ pool[a].prio \in Priorities
  BY <1>1, <1>2, FreeIsOffered
<1>4. a \in Offered(s, metas[order[i]], pool[a].prio, "all", cands)
  <2>1. ~Held(order[i], k, a) /\ a \in cands
    BY <1>3 DEF UnheldForMixed
  <2> HIDE DEF s
  <2> QED
    BY <2>1, <1>1, <1>2, FreeIsOffered
<1>5. Live(s, k, metas[order[i]], now)
  BY ShardsAsked DEF Asks
<1> HIDE DEF s
<1>6. Usable(s, "all", cands) = {p \in Priorities : Offered(s, metas[order[i]], p, "all", cands) # {}}
  BY <1>5, UsableOfShard
<1> QED
  BY <1>3, <1>4, <1>6 DEF s

\* The turn of a mixed request in round robin.
LEMMA MixedTurnIsFair ==
  ASSUME NEW order, NEW shs, NEW k, NEW m, NEW t, Asks(order, shs, k, m, t), NEW slot \in Nat,
         NEW cands, NEW prio, prio = BestMixed(shs, cands), prio \in Priorities,
         NEW j, ServedBy(j, order, shs, m, "round-robin", slot, cands),
         NEW i \in CanServe(shs, prio, cands), i # j
  PROVE  Distance(shs, prio, PickMixed(shs, "round-robin", slot, cands).slot, i)
           < Distance(shs, prio, slot, i)
<1> DEFINE x == slot % TotalWeight(shs, prio)
           turn == IF j = StartProvider(shs, prio, x) THEN x ELSE SegmentStart(shs, j, prio)
<1>1. /\ j \in CanServe(shs, prio, cands)
      /\ PickMixed(shs, "round-robin", slot, cands).slot = turn + 1
      /\ Hops(shs, prio, x, j) <= Hops(shs, prio, x, i)
  BY DEF ServedBy
<1>2. DOMAIN order = 1 .. Len(order)
  BY SchedulerAssumption DEF Asks
<1>3. /\ i \in 1 .. Len(order) /\ Weight(shs, i, prio) # 0
      /\ j \in 1 .. Len(order) /\ Weight(shs, j, prio) # 0
  BY <1>1, <1>2, AbleHasSlots
<1>4. Ring(shs, prio, Len(order))
  BY RingOfAsked
<1>5. Distance(shs, prio, turn + 1, i) < Distance(shs, prio, slot, i)
  BY <1>1, <1>3, <1>4, MixedTurnProgresses
<1> QED
  BY <1>1, <1>5

LEMMA SoundServesMixed ==
  ASSUME IInv, Slots
  PROVE  MixedPickIsFairAndBest
<1> SUFFICES ASSUME NEW order \in Orders, NEW k \in Keys, NEW s \in Strategies,
                    NEW cands \in SUBSET Auths
             PROVE  LET shs == ShardsOf(order, k)
                        free == UNION {Free(order[i], k, Auths) : i \in DOMAIN order}
                        unheld == {a \in free : ~Held(pool[a].prov, k, a)}
                        r == PickMixed(shs, s, mixed[<<order, k>>], cands)
                    IN IF r.auth = NoAuth THEN unheld \intersect cands = {}
                       ELSE /\ r.auth \in free \intersect cands
                            /\ \A a \in unheld \intersect cands : pool[a].prio <= pool[r.auth].prio
                            /\ s = "round-robin" =>
                                 LET prio == BestMixed(shs, cands) IN
                                 \A i \in CanServe(shs, prio, cands) :
                                   order[i] # pool[r.auth].prov =>
                                     Distance(shs, prio, r.slot, i)
                                       < Distance(shs, prio, mixed[<<order, k>>], i)
  BY Zenon DEF MixedPickIsFairAndBest
<1> DEFINE shs == ShardsOf(order, k)
           slot == mixed[<<order, k>>]
           r == PickMixed(shs, s, slot, cands)
           prio == BestMixed(shs, cands)
<1>1. Asks(order, shs, k, metas, now)
  BY ShardsAsked
<1>2. slot \in Nat
  BY DEF Slots
<1>3. \A a \in UnheldForMixed(order, k) \intersect cands :
        /\ pool[a].prio \in Priorities
        /\ \E i \in DOMAIN order : pool[a].prio \in Usable(shs[i], "all", cands)
  BY UnheldIsOffered
<1>4. CASE ~CanPick(shs, cands)
  <2>1. \A i \in DOMAIN order : Usable(shs[i], "all", cands) = {}
    BY <1>1, <1>4 DEF CanPick, Asks
  <2>2. UnheldForMixed(order, k) \intersect cands = {}
    BY <2>1, <1>3
  <2>3. r.auth = NoAuth
    BY <1>4 DEF CanPick, PickMixed
  <2> QED
    BY <2>2, <2>3 DEF UnheldForMixed, FreeForMixed
<1>5. CASE CanPick(shs, cands)
  <2> HIDE DEF slot
  <2>1. PICK j : ServedBy(j, order, shs, metas, s, slot, cands)
    BY <1>1, <1>2, <1>5, MixedServes
  <2>2. /\ prio \in Priorities
        /\ \A i \in DOMAIN order : \A p \in Usable(shs[i], "all", cands) : p <= prio
    BY <1>1, <1>5, BestOfMixed DEF CanPick
  <2>3. j \in CanServe(shs, prio, cands) /\ r.auth \in Offered(shs[j], metas[order[j]], prio, "all", cands)
    BY <2>1 DEF ServedBy
  <2>4. j \in DOMAIN order
    BY <2>3, <1>1 DEF CanServe, Asks
  <2> HIDE DEF r, prio
  <2>5. r.auth \in Free(order[j], k, Auths) /\ r.auth \in cands
        /\ pool[r.auth].prov = order[j] /\ pool[r.auth].prio = prio
    <3>1. order[j] \in Providers /\ shs[j] = ShardNow(order[j], k)
      BY <2>4, ShardOfMixed
    <3> HIDE DEF shs
    <3> QED
      BY <3>1, <2>3, OfferedIsFree
  <2>6. r.auth # NoAuth
    BY <2>5, SchedulerAssumption
  <2>7. r.auth \in FreeForMixed(order, k) \intersect cands
    BY <2>4, <2>5 DEF FreeForMixed
  <2>8. \A a \in UnheldForMixed(order, k) \intersect cands : pool[a].prio <= pool[r.auth].prio
    BY <1>3, <2>2, <2>5
  <2>9. ASSUME s = "round-robin", NEW i \in CanServe(shs, prio, cands),
               order[i] # pool[r.auth].prov
        PROVE  Distance(shs, prio, r.slot, i) < Distance(shs, prio, slot, i)
    <3>1. i # j
      BY <2>5, <2>9
    <3> HIDE DEF shs
    <3> QED
      BY <3>1, <2>1, <2>2, <2>9, <1>1, <1>2, MixedTurnIsFair DEF r, prio
  <2> QED
    BY <2>6, <2>7, <2>8, <2>9 DEF UnheldForMixed, FreeForMixed, r, prio, slot
<1> QED
  BY <1>4, <1>5

\* A request over several providers gets a free candidate that no free unheld one
\* outranks, fails only if there is none, and in round robin its turn brings every other
\* provider that could have served it closer: no provider is starved by another.
THEOREM MixedRequestsAreFair == Spec => []MixedPickIsFairAndBest
<1>1. IInv /\ Slots => MixedPickIsFairAndBest
  BY SoundServesMixed
<1> QED
  BY <1>1, ShardsAreSound, SlotsHold, PTL
=============================================================================
