------------------------ MODULE ModelRegistryProofs -------------------------
(***************************************************************************)
(* What holds of the model registry for any clients, models, providers,    *)
(* window and clock bound: its types, that no mark outlives its binding,   *)
(* that the list cache never answers with a stale list, that the counters  *)
(* are those of the lists, and that a provider's list agrees with the      *)
(* global one.                                                             *)
(***************************************************************************)
EXTENDS ModelRegistry, FiniteSetTheorems, WellFoundedInduction, TLAPS

-----------------------------------------------------------------------------
(* Numbers.                                                                *)

\* A non-empty set of naturals has a least element, and Min returns it.
LEMMA MinOfNaturals ==
  ASSUME NEW S \in SUBSET Nat, S # {}
  PROVE  /\ Min(S) \in S
         /\ \A x \in S : Min(S) <= x
<1>1. PICK x \in S : \A y \in S : ~(<<y, x>> \in OpToRel(<, Nat))
  <2> DEFINE R == OpToRel(<, Nat)
  <2>1. IsWellFoundedOn(R, Nat)
    BY NatLessThanWellFounded
  <2> HIDE DEF R
  <2>2. \E x \in S : \A y \in S : ~(<<y, x>> \in R)
    BY <2>1, WFMin
  <2> QED
    BY <2>2 DEF R
<1>2. \A y \in S : x <= y
  <2>1. ASSUME NEW y \in S
        PROVE  ~(y < x)
    BY <1>1, Zenon DEF OpToRel
  <2> QED
    BY <2>1
<1> QED
  BY <1>2 DEF Min


-----------------------------------------------------------------------------
(* The helpers map registrations to registrations.                         *)

\* An empty registration is a registration.
LEMMA NoRegistrationType == NoRegistration \in Registration
  BY DEF NoRegistration, Registration, NoTime, NotSuspended

\* The fields of a registration have their types.
LEMMA RegistrationFields ==
  ASSUME NEW r \in Registration
  PROVE  /\ r.count \in Nat
         /\ r.prov \in [Providers -> Nat]
         /\ r.info \in SUBSET Providers
         /\ r.quota \in [Clients -> Time \union {NoTime}]
         /\ r.susp \in [Clients -> Reasons \union {NotSuspended}]
  BY DEF Registration

\* addModelRegistration keeps the shape of a registration.
LEMMA AddNType ==
  ASSUME NEW r \in Registration, NEW p \in Providers \union {NoProvider}, NEW n \in Nat
  PROVE  AddN(r, p, n) \in Registration
<1>1. ASSUME NEW a \in Nat, NEW f \in [Providers -> Nat], NEW i \in SUBSET Providers
      PROVE  [r EXCEPT !.count = a, !.prov = f, !.info = i] \in Registration
  BY DEF Registration
<1>2. r.count + n \in Nat
  BY RegistrationFields
<1>3. [q \in Providers |-> r.prov[q] + IF q = p THEN n ELSE 0] \in [Providers -> Nat]
  BY RegistrationFields
<1>4. r.info \union ({p} \ {NoProvider}) \in SUBSET Providers
  BY RegistrationFields
<1> QED
  BY <1>1, <1>2, <1>3, <1>4 DEF AddN

\* Giving slots of a provider back keeps the shape of a registration.
LEMMA ReleaseProviderType ==
  ASSUME NEW r \in Registration, NEW p \in Providers \union {NoProvider}, NEW n \in Nat
  PROVE  ReleaseProvider(r, p, n) \in Registration
<1>1. ASSUME NEW f \in [Providers -> Nat], NEW i \in SUBSET Providers
      PROVE  [r EXCEPT !.prov = f, !.info = i] \in Registration
  BY DEF Registration
<1>2. [q \in Providers |-> IF q # p THEN r.prov[q]
                           ELSE IF r.prov[q] <= n THEN 0 ELSE r.prov[q] - n]
        \in [Providers -> Nat]
  BY RegistrationFields
<1>3. (IF r.prov[p] <= n THEN r.info \ {p} ELSE r.info) \in SUBSET Providers
  BY RegistrationFields
<1> QED
  BY <1>1, <1>2, <1>3 DEF ReleaseProvider

\* Taking slots back without deleting the registration keeps its shape.
LEMMA ForgetClientType ==
  ASSUME NEW r \in Registration, NEW c \in Clients, NEW n \in Nat
  PROVE  [r EXCEPT !.count = n, !.quota[c] = NoTime, !.susp[c] = NotSuspended]
           \in Registration
  BY DEF Registration, NotSuspended, NoTime

\* removeModelRegistration keeps the shape of a registration.
LEMMA RemoveNType ==
  ASSUME NEW r \in Registration, NEW c \in Clients,
         NEW p \in Providers \union {NoProvider}, NEW n \in Nat
  PROVE  RemoveN(r, c, p, n) \in Registration
<1> DEFINE s == ReleaseProvider(r, p, n)
<1>1. s \in Registration
  BY ReleaseProviderType
<1>2. s.count = r.count
  BY DEF ReleaseProvider, Registration
<1> HIDE DEF s
<1>3. CASE n = 0 \/ r.count <= n
  BY <1>3, NoRegistrationType DEF RemoveN
<1>4. CASE ~(n = 0 \/ r.count <= n)
  <2>1. s.count - n \in Nat
    BY <1>2, <1>4, RegistrationFields
  <2>2. [s EXCEPT !.count = s.count - n, !.quota[c] = NoTime, !.susp[c] = NotSuspended]
          \in Registration
    BY <1>1, <2>1, ForgetClientType
  <2> QED
    BY <1>4, <2>2 DEF RemoveN, s
<1> QED
  BY <1>3, <1>4

\* The reconciliation of one model keeps the shape of a registration.
LEMMA ReconciledType ==
  ASSUME NEW r \in Registration, NEW c \in Clients,
         NEW op \in Providers \union {NoProvider}, NEW p \in Providers \union {NoProvider},
         NEW old \in Nat, NEW new \in Nat
  PROVE  Reconciled(r, c, op, p, old, new) \in Registration
<1> DEFINE moved   == op # p /\ old > 0 /\ new > 0
           shifted == IF moved THEN ReleaseProvider(r, op, Min2(old, new)) ELSE r
           shrunk  == IF old > new THEN RemoveN(shifted, c, op, old - new) ELSE shifted
           grown   == IF new > old THEN AddN(shrunk, p, new - old) ELSE shrunk
           overlap == IF moved THEN Min2(old, new) ELSE 0
<1>1. Min2(old, new) \in Nat
  BY DEF Min2
<1>2. shifted \in Registration
  BY <1>1, ReleaseProviderType
<1> HIDE DEF shifted
<1>3. shrunk \in Registration
  <2>1. old > new => RemoveN(shifted, c, op, old - new) \in Registration
    <3>1. old > new => old - new \in Nat
      OBVIOUS
    <3> QED
      BY <1>2, <3>1, RemoveNType
  <2> QED
    BY <1>2, <2>1
<1> HIDE DEF shrunk
<1>4. grown \in Registration
  <2>1. new > old => AddN(shrunk, p, new - old) \in Registration
    <3>1. new > old => new - old \in Nat
      OBVIOUS
    <3> QED
      BY <1>3, <3>1, AddNType
  <2> QED
    BY <1>3, <2>1
<1>5. overlap \in Nat
  BY <1>1
<1>6. ASSUME NEW g \in Registration, NEW o \in Nat
      PROVE  [g EXCEPT !.quota[c] = NoTime,
                       !.susp[c]  = NotSuspended,
                       !.info = @ \union ({p} \ {NoProvider}),
                       !.prov = [q \in Providers |-> @[q] + IF q = p THEN o ELSE 0]]
               \in Registration
  <2>1. ASSUME NEW f \in [Providers -> Nat], NEW i \in SUBSET Providers
        PROVE  [g EXCEPT !.quota[c] = NoTime, !.susp[c] = NotSuspended,
                         !.info = i, !.prov = f] \in Registration
    BY DEF Registration
  <2>2. [q \in Providers |-> g.prov[q] + IF q = p THEN o ELSE 0] \in [Providers -> Nat]
    BY RegistrationFields
  <2>3. g.info \union ({p} \ {NoProvider}) \in SUBSET Providers
    BY RegistrationFields
  <2> QED
    BY <2>1, <2>2, <2>3
<1> HIDE DEF moved, grown, overlap
<1>7. Reconciled(r, c, op, p, old, new) =
        IF new = 0 THEN shrunk
        ELSE [grown EXCEPT !.quota[c] = NoTime,
                           !.susp[c]  = NotSuspended,
                           !.info = @ \union ({p} \ {NoProvider}),
                           !.prov = [q \in Providers |-> @[q] + IF q = p THEN overlap ELSE 0]]
  BY DEF Reconciled, moved, shifted, shrunk, grown, overlap
<1> QED
  BY <1>3, <1>4, <1>5, <1>6, <1>7

-----------------------------------------------------------------------------
(* The moment a cached list expires.                                       *)

\* The moments at which open quota windows close are naturals.
LEMMA RecoveriesType ==
  ASSUME TypeOK, NEW t \in Nat
  PROVE  Recoveries(t) \in SUBSET Nat
<1>1. ASSUME NEW m \in Models, NEW c \in Clients, InWindow(reg[m], c, t)
      PROVE  reg[m].quota[c] + Window \in Nat
  <2>1. reg[m].quota[c] \in Time
    BY <1>1, RegistrationFields DEF InWindow, TypeOK
  <2> QED
    BY <2>1, ConstantsAssumption DEF Time
<1> QED
  BY <1>1 DEF Recoveries

\* The cached expiry is the first close of an open window: none is earlier.
LEMMA EarliestRecoveryIsFirst ==
  ASSUME TypeOK, NEW t \in Nat
  PROVE  /\ EarliestRecovery(t) \in Nat \union {NoTime}
         /\ \A m \in Models, c \in Clients :
              InWindow(reg[m], c, t)
                => /\ EarliestRecovery(t) # NoTime
                   /\ EarliestRecovery(t) <= reg[m].quota[c] + Window
<1>1. Recoveries(t) \in SUBSET Nat
  BY RecoveriesType
<1>2. Recoveries(t) # {} => /\ Min(Recoveries(t)) \in Nat
                            /\ \A x \in Recoveries(t) : Min(Recoveries(t)) <= x
  BY <1>1, MinOfNaturals
<1>3. ASSUME NEW m \in Models, NEW c \in Clients, InWindow(reg[m], c, t)
      PROVE  reg[m].quota[c] + Window \in Recoveries(t)
  <2>1. <<m, c>> \in {mc \in Models \X Clients : InWindow(reg[mc[1]], mc[2], t)}
    BY <1>3
  <2> QED
    BY <2>1 DEF Recoveries
<1> QED
  BY <1>2, <1>3 DEF EarliestRecovery, NoTime

-----------------------------------------------------------------------------
(* Types.                                                                  *)

\* Dropping the cached lists leaves a well-typed cache.
LEMMA InvalidateType ==
  ASSUME Invalidate
  PROVE  cache' \in [Handlers -> Entry]
  BY DEF Invalidate, NoEntry, Entry, NoTime

\* Removing a client is a step between well-typed states.
LEMMA UnregisterType ==
  ASSUME TypeOK, NEW c \in Clients, UnregisterClient(c)
  PROVE  TypeOK'
<1>1. reg' \in [Models -> Registration]
  BY RemoveNType DEF TypeOK, UnregisterClient
<1>2. clientModels' \in [Clients -> [Models -> 0 .. MaxDup]]
  BY ConstantsAssumption DEF TypeOK, UnregisterClient, EmptyList
<1>3. cache' \in [Handlers -> Entry]
  BY InvalidateType DEF UnregisterClient
<1> QED
  BY <1>1, <1>2, <1>3 DEF TypeOK, UnregisterClient

\* Registering a client is a step between well-typed states.
LEMMA RegisterType ==
  ASSUME TypeOK, NEW c \in Clients, NEW p \in Providers \union {NoProvider},
         NEW list \in [Models -> 0 .. MaxDup], RegisterClient(c, p, list)
  PROVE  TypeOK'
<1>1. CASE list = EmptyList
  BY <1>1, UnregisterType DEF RegisterClient
<1>2. CASE list # EmptyList
  <2>1. reg' \in [Models -> Registration]
    <3>1. ASSUME NEW m \in Models
          PROVE  /\ Reconciled(reg[m], c, clientProviders[c], p, clientModels[c][m], list[m])
                      \in Registration
                 /\ AddN(reg[m], p, list[m]) \in Registration
      <4>1. /\ reg[m] \in Registration
            /\ clientProviders[c] \in Providers \union {NoProvider}
            /\ clientModels[c][m] \in Nat
            /\ list[m] \in Nat
        BY ConstantsAssumption DEF TypeOK
      <4> QED
        BY <4>1, ReconciledType, AddNType
    <3> QED
      BY <1>2, <3>1 DEF RegisterClient
  <2>2. cache' \in [Handlers -> Entry]
    BY <1>2, InvalidateType DEF RegisterClient
  <2>3. /\ clientModels' = [clientModels EXCEPT ![c] = list]
        /\ clientProviders' = [clientProviders EXCEPT ![c] = p]
        /\ now' = now
    BY <1>2 DEF RegisterClient
  <2> QED
    BY <2>1, <2>2, <2>3 DEF TypeOK
<1> QED
  BY <1>1, <1>2

\* Setting or clearing a mark is a step between well-typed states.
LEMMA MarkType ==
  ASSUME TypeOK, NEW c \in Clients, NEW m \in Models, NEW why \in Reasons,
         \/ SetModelQuotaExceeded(c, m)
         \/ ClearModelQuotaExceeded(c, m)
         \/ SuspendClientModel(c, m, why)
         \/ ResumeClientModel(c, m)
  PROVE  TypeOK'
<1>1. ASSUME NEW q \in Time \union {NoTime}
      PROVE  [reg EXCEPT ![m].quota[c] = q] \in [Models -> Registration]
  <2>1. ASSUME NEW r \in Registration
        PROVE  [r EXCEPT !.quota[c] = q] \in Registration
    BY DEF Registration
  <2> QED
    BY <2>1 DEF TypeOK
<1>2. ASSUME NEW s \in Reasons \union {NotSuspended}
      PROVE  [reg EXCEPT ![m].susp[c] = s] \in [Models -> Registration]
  <2>1. ASSUME NEW r \in Registration
        PROVE  [r EXCEPT !.susp[c] = s] \in Registration
    BY DEF Registration
  <2> QED
    BY <2>1 DEF TypeOK
<1>3. now \in Time
  BY DEF TypeOK
<1>4. reg' \in [Models -> Registration]
  <2>1. CASE SetModelQuotaExceeded(c, m)
    BY <1>1, <1>3, <2>1 DEF SetModelQuotaExceeded
  <2>2. CASE ClearModelQuotaExceeded(c, m)
    BY <1>1, <2>2 DEF ClearModelQuotaExceeded
  <2>3. CASE SuspendClientModel(c, m, why)
    BY <1>2, <2>3 DEF SuspendClientModel
  <2>4. CASE ResumeClientModel(c, m)
    BY <1>2, <2>4 DEF ResumeClientModel
  <2> QED
    BY <2>1, <2>2, <2>3, <2>4
<1>5. cache' \in [Handlers -> Entry]
  BY InvalidateType DEF SetModelQuotaExceeded, ClearModelQuotaExceeded,
       SuspendClientModel, ResumeClientModel
<1>6. UNCHANGED <<clientModels, clientProviders, now>>
  BY DEF SetModelQuotaExceeded, ClearModelQuotaExceeded, SuspendClientModel, ResumeClientModel
<1> QED
  BY <1>4, <1>5, <1>6 DEF TypeOK

\* Every step leaves the registry well-typed.
LEMMA TypeStep ==
  ASSUME TypeOK, [Next]_vars
  PROVE  TypeOK'
<1>1. CASE \E c \in Clients, p \in Providers \union {NoProvider},
              list \in [Models -> 0 .. MaxDup] : RegisterClient(c, p, list)
  BY <1>1, RegisterType
<1>2. CASE \E c \in Clients : UnregisterClient(c)
  BY <1>2, UnregisterType
<1>3. CASE \E c \in Clients, m \in Models :
             /\ MayMark(c, m)
             /\ \/ SetModelQuotaExceeded(c, m)
                \/ ClearModelQuotaExceeded(c, m)
                \/ \E why \in Reasons : SuspendClientModel(c, m, why)
                \/ ResumeClientModel(c, m)
  <2>1. "quota" \in Reasons
    BY DEF Reasons
  <2> QED
    BY <1>3, <2>1, MarkType
<1>4. CASE CleanupExpiredQuotas
  <2>1. ASSUME NEW r \in Registration
        PROVE  [r EXCEPT !.quota = [c \in Clients |-> IF Expired(r, c) THEN NoTime ELSE @[c]]]
                 \in Registration
    BY DEF Registration
  <2>2. reg' \in [Models -> Registration]
    BY <1>4, <2>1 DEF CleanupExpiredQuotas, TypeOK
  <2>3. cache' \in [Handlers -> Entry]
    BY <1>4, InvalidateType DEF CleanupExpiredQuotas
  <2> QED
    BY <1>4, <2>2, <2>3 DEF CleanupExpiredQuotas, TypeOK
<1>5. CASE \E h \in Handlers : GetAvailableModels(h)
  <2>1. AvailableModels(now) \in SUBSET Models
    BY DEF AvailableModels
  <2>2. EarliestRecovery(now) \in Nat \union {NoTime}
    BY EarliestRecoveryIsFirst, ConstantsAssumption DEF TypeOK, Time
  <2>3. cache' \in [Handlers -> Entry]
    BY <1>5, <2>1, <2>2 DEF GetAvailableModels, TypeOK, Entry
  <2> QED
    BY <1>5, <2>3 DEF GetAvailableModels, TypeOK
<1>6. CASE Tick
  BY <1>6, ConstantsAssumption DEF Tick, TypeOK, Time
<1>7. CASE UNCHANGED vars
  BY <1>7 DEF vars, TypeOK
<1> QED
  BY <1>1, <1>2, <1>3, <1>4, <1>5, <1>6, <1>7 DEF Next

\* The empty registry is well-typed.
LEMMA TypeInit ==
  ASSUME Init
  PROVE  TypeOK
  BY NoRegistrationType, ConstantsAssumption
     DEF Init, TypeOK, EmptyList, NoEntry, Entry, NoTime, Time

\* The registry keeps its types whatever is registered, marked and removed.
THEOREM TypeCorrect == Spec => []TypeOK
  BY TypeInit, TypeStep, PTL DEF Spec

-----------------------------------------------------------------------------
(* Marks never outlive their binding.                                      *)

\* The marks of client c on registration r.
Marked(r, c) == r.quota[c] # NoTime \/ r.susp[c] # NotSuspended

\* A new registration carries no mark.
LEMMA NoRegistrationUnmarked ==
  ASSUME NEW c \in Clients
  PROVE  ~Marked(NoRegistration, c)
  BY DEF Marked, NoRegistration

\* Adding slots and releasing a provider touch no mark.
LEMMA CountersTouchNoMark ==
  ASSUME NEW r \in Registration, NEW p, NEW n, NEW c \in Clients
  PROVE  /\ Marked(AddN(r, p, n), c) <=> Marked(r, c)
         /\ Marked(ReleaseProvider(r, p, n), c) <=> Marked(r, c)
  BY DEF Marked, AddN, ReleaseProvider, Registration

\* Taking slots of c back forgets the marks of c and adds no other.
LEMMA RemoveNForgets ==
  ASSUME NEW r \in Registration, NEW c \in Clients, NEW d \in Clients,
         NEW p \in Providers \union {NoProvider}, NEW n \in Nat \ {0}
  PROVE  /\ ~Marked(RemoveN(r, c, p, n), c)
         /\ Marked(RemoveN(r, c, p, n), d) => Marked(r, d)
<1>1. CASE r.count <= n
  BY <1>1, NoRegistrationUnmarked DEF RemoveN
<1>2. CASE ~(r.count <= n)
  <2> DEFINE s == ReleaseProvider(r, p, n)
             t == [s EXCEPT !.count = @ - n, !.quota[c] = NoTime, !.susp[c] = NotSuspended]
  <2>1. s \in Registration /\ (Marked(s, d) <=> Marked(r, d))
    BY ReleaseProviderType, CountersTouchNoMark
  <2>2. RemoveN(r, c, p, n) = t
    BY <1>2 DEF RemoveN
  <2> HIDE DEF s
  <2>3. ~Marked(t, c) /\ (Marked(t, d) => Marked(s, d))
    BY <2>1 DEF Marked, Registration
  <2> QED
    BY <2>1, <2>2, <2>3
<1> QED
  BY <1>1, <1>2

\* The reconciled binding starts without marks, and no other client gains one.
LEMMA ReconciledForgets ==
  ASSUME NEW r \in Registration, NEW c \in Clients, NEW d \in Clients,
         NEW op \in Providers \union {NoProvider}, NEW p \in Providers \union {NoProvider},
         NEW old \in Nat, NEW new \in Nat,
         old = 0 => ~Marked(r, c)
  PROVE  /\ ~Marked(Reconciled(r, c, op, p, old, new), c)
         /\ Marked(Reconciled(r, c, op, p, old, new), d) => Marked(r, d)
<1> DEFINE moved   == op # p /\ old > 0 /\ new > 0
           shifted == IF moved THEN ReleaseProvider(r, op, Min2(old, new)) ELSE r
           shrunk  == IF old > new THEN RemoveN(shifted, c, op, old - new) ELSE shifted
           grown   == IF new > old THEN AddN(shrunk, p, new - old) ELSE shrunk
           overlap == IF moved THEN Min2(old, new) ELSE 0
<1>1. /\ shifted \in Registration
      /\ Marked(shifted, c) <=> Marked(r, c)
      /\ Marked(shifted, d) <=> Marked(r, d)
  <2>1. Min2(old, new) \in Nat
    BY DEF Min2
  <2> QED
    BY <2>1, ReleaseProviderType, CountersTouchNoMark
<1> HIDE DEF shifted
<1>2. /\ shrunk \in Registration
      /\ new = 0 => ~Marked(shrunk, c)
      /\ Marked(shrunk, d) => Marked(r, d)
  <2>1. CASE old > new
    <3>1. old - new \in Nat \ {0}
      BY <2>1
    <3>2. shrunk = RemoveN(shifted, c, op, old - new)
      BY <2>1
    <3>3. RemoveN(shifted, c, op, old - new) \in Registration
      BY <1>1, <3>1, RemoveNType
    <3>4. /\ ~Marked(RemoveN(shifted, c, op, old - new), c)
          /\ Marked(RemoveN(shifted, c, op, old - new), d) => Marked(shifted, d)
      BY <1>1, <3>1, RemoveNForgets
    <3> QED
      BY <1>1, <3>2, <3>3, <3>4
  <2>2. CASE ~(old > new)
    BY <1>1, <2>2
  <2> QED
    BY <2>1, <2>2
<1> HIDE DEF shrunk
<1>3. grown \in Registration /\ (Marked(grown, d) <=> Marked(shrunk, d))
  <2>1. CASE new > old
    <3>1. new - old \in Nat
      BY <2>1
    <3> QED
      BY <1>2, <2>1, <3>1, AddNType, CountersTouchNoMark
  <2>2. CASE ~(new > old)
    BY <1>2, <2>2
  <2> QED
    BY <2>1, <2>2
<1> HIDE DEF grown, overlap, moved
<1> DEFINE fresh == [grown EXCEPT !.quota[c] = NoTime,
                                  !.susp[c]  = NotSuspended,
                                  !.info = @ \union ({p} \ {NoProvider}),
                                  !.prov = [q \in Providers |->
                                              @[q] + IF q = p THEN overlap ELSE 0]]
<1>4. Reconciled(r, c, op, p, old, new) = IF new = 0 THEN shrunk ELSE fresh
  BY DEF Reconciled, moved, shifted, shrunk, grown, overlap
<1>5. ~Marked(fresh, c) /\ (Marked(fresh, d) => Marked(grown, d))
  BY <1>3 DEF Marked, Registration
<1> HIDE DEF fresh
<1> QED
  BY <1>2, <1>3, <1>4, <1>5

\* A mark is on a binding: MarksOnlyOnBindings with the marks named.
LEMMA MarksOnBindings ==
  MarksOnlyOnBindings <=>
    \A m \in Models, c \in Clients : Marked(reg[m], c) => clientModels[c][m] > 0
  BY DEF MarksOnlyOnBindings, Marked, Listed

\* Removing a client takes its marks with it.
LEMMA UnregisterForgets ==
  ASSUME TypeOK, MarksOnlyOnBindings, NEW c \in Clients, UnregisterClient(c)
  PROVE  MarksOnlyOnBindings'
<1> SUFFICES ASSUME NEW m \in Models, NEW d \in Clients, Marked(reg'[m], d)
             PROVE  clientModels'[d][m] > 0
  BY DEF MarksOnlyOnBindings, Marked, Listed
<1> DEFINE n == clientModels[c][m]
<1>1. /\ reg[m] \in Registration
      /\ clientProviders[c] \in Providers \union {NoProvider}
      /\ n \in Nat
  BY ConstantsAssumption DEF TypeOK
<1>2. reg'[m] = RemoveN(reg[m], c, clientProviders[c], n)
  BY DEF UnregisterClient
<1>3. d # c /\ Marked(reg[m], d)
  <2>1. CASE n = 0
    BY <1>2, <2>1, MarksOnBindings DEF RemoveN
  <2>2. CASE n # 0
    BY <1>1, <1>2, <2>2, RemoveNForgets
  <2> QED
    BY <2>1, <2>2
<1>4. clientModels'[d] = clientModels[d]
  BY <1>3 DEF UnregisterClient, TypeOK
<1> QED
  BY <1>3, <1>4, MarksOnBindings

\* Registering a client, first or again, starts its bindings without marks.
LEMMA RegisterForgets ==
  ASSUME TypeOK, MarksOnlyOnBindings, NEW c \in Clients,
         NEW p \in Providers \union {NoProvider},
         NEW list \in [Models -> 0 .. MaxDup], RegisterClient(c, p, list)
  PROVE  MarksOnlyOnBindings'
<1>1. CASE list = EmptyList
  BY <1>1, UnregisterForgets DEF RegisterClient
<1>2. CASE list # EmptyList
  <2> SUFFICES ASSUME NEW m \in Models, NEW d \in Clients, Marked(reg'[m], d)
               PROVE  clientModels'[d][m] > 0
    BY DEF MarksOnlyOnBindings, Marked, Listed
  <2> DEFINE old == clientModels[c][m]
  <2>1. /\ reg[m] \in Registration
        /\ clientProviders[c] \in Providers \union {NoProvider}
        /\ old \in Nat
        /\ list[m] \in Nat
    BY ConstantsAssumption DEF TypeOK
  <2>2. /\ reg'[m] = IF Known(c)
                     THEN Reconciled(reg[m], c, clientProviders[c], p, old, list[m])
                     ELSE AddN(reg[m], p, list[m])
        /\ clientModels' = [clientModels EXCEPT ![c] = list]
    BY <1>2 DEF RegisterClient
  <2>3. old = 0 => ~Marked(reg[m], c)
    BY MarksOnBindings
  <2>4. d # c /\ Marked(reg[m], d)
    <3>1. CASE Known(c)
      <4> DEFINE next == Reconciled(reg[m], c, clientProviders[c], p, old, list[m])
      <4>1. ~Marked(next, c) /\ (Marked(next, d) => Marked(reg[m], d))
        <5> HIDE DEF old
        <5> QED
          BY <2>1, <2>3, ReconciledForgets
      <4>2. reg'[m] = next
        BY <2>2, <3>1
      <4> QED
        BY <4>1, <4>2
    <3>2. CASE ~Known(c)
      <4>1. old = 0
        BY <2>1, <3>2 DEF Known, Listed
      <4>2. Marked(AddN(reg[m], p, list[m]), d) <=> Marked(reg[m], d)
        BY <2>1, CountersTouchNoMark
      <4> QED
        BY <2>2, <2>3, <3>2, <4>1, <4>2
    <3> QED
      BY <3>1, <3>2
  <2>5. clientModels'[d] = clientModels[d]
    BY <2>2, <2>4 DEF TypeOK
  <2> QED
    BY <2>4, <2>5, MarksOnBindings
<1> QED
  BY <1>1, <1>2

\* Every step keeps marks on bindings, when marks arrive only for bound clients.
LEMMA MarksStep ==
  ASSUME LateMarks = FALSE, TypeOK, MarksOnlyOnBindings, [Next]_vars
  PROVE  MarksOnlyOnBindings'
<1>1. CASE \E c \in Clients, p \in Providers \union {NoProvider},
              list \in [Models -> 0 .. MaxDup] : RegisterClient(c, p, list)
  BY <1>1, RegisterForgets
<1>2. CASE \E c \in Clients : UnregisterClient(c)
  BY <1>2, UnregisterForgets
<1>3. CASE \E c \in Clients, m \in Models :
             /\ MayMark(c, m)
             /\ \/ SetModelQuotaExceeded(c, m)
                \/ ClearModelQuotaExceeded(c, m)
                \/ \E why \in Reasons : SuspendClientModel(c, m, why)
                \/ ResumeClientModel(c, m)
  <2> SUFFICES ASSUME NEW c \in Clients, NEW m \in Models, Listed(c, m),
                      NEW why \in Reasons,
                      \/ SetModelQuotaExceeded(c, m)
                      \/ ClearModelQuotaExceeded(c, m)
                      \/ SuspendClientModel(c, m, why)
                      \/ ResumeClientModel(c, m)
               PROVE  MarksOnlyOnBindings'
    <3>1. "quota" \in Reasons
      BY DEF Reasons
    <3> QED
      BY <1>3, <3>1 DEF MayMark
  <2> SUFFICES ASSUME NEW k \in Models, NEW d \in Clients, Marked(reg'[k], d)
               PROVE  clientModels'[d][k] > 0
    BY DEF MarksOnlyOnBindings, Marked, Listed
  <2>1. ~(k = m /\ d = c) => Marked(reg[k], d)
    BY DEF SetModelQuotaExceeded, ClearModelQuotaExceeded, SuspendClientModel,
           ResumeClientModel, TypeOK, Registration, Marked
  <2>2. clientModels' = clientModels
    BY DEF SetModelQuotaExceeded, ClearModelQuotaExceeded, SuspendClientModel, ResumeClientModel
  <2> QED
    BY <2>1, <2>2, MarksOnBindings DEF Listed
<1>4. CASE CleanupExpiredQuotas
  <2> SUFFICES ASSUME NEW k \in Models, NEW d \in Clients, Marked(reg'[k], d)
               PROVE  clientModels'[d][k] > 0
    BY DEF MarksOnlyOnBindings, Marked, Listed
  <2>1. Marked(reg[k], d)
    BY <1>4 DEF CleanupExpiredQuotas, TypeOK, Registration, Marked
  <2> QED
    BY <1>4, <2>1, MarksOnBindings DEF CleanupExpiredQuotas
<1>5. CASE \E h \in Handlers : GetAvailableModels(h)
  BY <1>5 DEF GetAvailableModels, MarksOnlyOnBindings, Listed
<1>6. CASE Tick
  BY <1>6 DEF Tick, MarksOnlyOnBindings, Listed
<1>7. CASE UNCHANGED vars
  BY <1>7 DEF vars, MarksOnlyOnBindings, Listed
<1> QED
  BY <1>1, <1>2, <1>3, <1>4, <1>5, <1>6, <1>7 DEF Next

\* When marks arrive only while the client is bound, no mark ever outlives its
\* binding: the removals of UnregisterClient and the resets of RegisterClient
\* together leave nothing behind.
THEOREM MarksNeverOutliveBindings ==
  ASSUME LateMarks = FALSE
  PROVE  Spec => []MarksOnlyOnBindings
<1>1. Init => MarksOnlyOnBindings
  BY NoRegistrationUnmarked DEF Init, MarksOnlyOnBindings, Marked
<1>2. TypeOK /\ MarksOnlyOnBindings /\ [Next]_vars => MarksOnlyOnBindings'
  BY MarksStep
<1> QED
  BY <1>1, <1>2, TypeCorrect, PTL DEF Spec

-----------------------------------------------------------------------------
(* The cached list is never stale.                                         *)

\* An answer the cache would give is right and expires no later than the
\* first quota window that is still open closes.
CacheInv ==
  \A h \in Handlers :
    Fresh(cache[h]) =>
      /\ cache[h].models = AvailableModels(now)
      /\ \A m \in Models, c \in Clients :
           InWindow(reg[m], c, now) =>
             /\ cache[h].expiresAt # NoTime
             /\ cache[h].expiresAt <= reg[m].quota[c] + Window

\* After an invalidation no entry answers.
LEMMA InvalidateCacheInv ==
  ASSUME Invalidate
  PROVE  CacheInv'
  BY DEF Invalidate, CacheInv, Fresh, NoEntry

\* A tick before the entry expires closes no quota window.
LEMMA TickCacheInv ==
  ASSUME TypeOK, CacheInv, Tick
  PROVE  CacheInv'
<1> SUFFICES ASSUME NEW h \in Handlers, Fresh(cache[h])'
             PROVE  /\ cache'[h].models = AvailableModels(now)'
                    /\ \A m \in Models, c \in Clients :
                         InWindow(reg'[m], c, now') =>
                           /\ cache'[h].expiresAt # NoTime
                           /\ cache'[h].expiresAt <= reg'[m].quota[c] + Window
  BY DEF CacheInv
<1>1. /\ now \in Nat /\ now' = now + 1
      /\ cache' = cache /\ reg' = reg
      /\ cache[h].expiresAt \in Nat \union {NoTime}
  BY ConstantsAssumption DEF Tick, TypeOK, Entry, Time
<1>2. Fresh(cache[h])
  BY <1>1 DEF Fresh, NoTime
<1>3. ASSUME NEW m \in Models, NEW c \in Clients
      PROVE  InWindow(reg[m], c, now + 1) <=> InWindow(reg[m], c, now)
  <2>1. reg[m].quota[c] \in Nat \union {NoTime}
    BY RegistrationFields, ConstantsAssumption DEF TypeOK, Time
  <2>2. InWindow(reg[m], c, now + 1) => InWindow(reg[m], c, now)
    BY <1>1, <2>1, ConstantsAssumption DEF InWindow, NoTime
  <2>3. InWindow(reg[m], c, now) => InWindow(reg[m], c, now + 1)
    <3>1. InWindow(reg[m], c, now) =>
            /\ cache[h].expiresAt # NoTime
            /\ cache[h].expiresAt <= reg[m].quota[c] + Window
      BY <1>2 DEF CacheInv
    <3>2. cache[h].expiresAt # NoTime => now + 1 < cache[h].expiresAt
      BY <1>1 DEF Fresh
    <3> QED
      BY <1>1, <2>1, <3>1, <3>2, ConstantsAssumption DEF InWindow, NoTime
  <2> QED
    BY <2>2, <2>3
<1>4. AvailableModels(now + 1) = AvailableModels(now)
  BY <1>3 DEF AvailableModels, Available, OverQuota
<1>5. AvailableModels(now)' = AvailableModels(now + 1)
  BY <1>1 DEF AvailableModels, Available, OverQuota, InWindow
<1> QED
  BY <1>1, <1>2, <1>3, <1>4, <1>5 DEF CacheInv

\* Every step keeps the cache invariant.
LEMMA CacheStep ==
  ASSUME TypeOK, CacheInv, [Next]_vars
  PROVE  CacheInv'
<1>1. CASE \E c \in Clients, p \in Providers \union {NoProvider},
              list \in [Models -> 0 .. MaxDup] : RegisterClient(c, p, list)
  BY <1>1, InvalidateCacheInv DEF RegisterClient, UnregisterClient
<1>2. CASE \E c \in Clients : UnregisterClient(c)
  BY <1>2, InvalidateCacheInv DEF UnregisterClient
<1>3. CASE \E c \in Clients, m \in Models :
             /\ MayMark(c, m)
             /\ \/ SetModelQuotaExceeded(c, m)
                \/ ClearModelQuotaExceeded(c, m)
                \/ \E why \in Reasons : SuspendClientModel(c, m, why)
                \/ ResumeClientModel(c, m)
  BY <1>3, InvalidateCacheInv DEF SetModelQuotaExceeded, ClearModelQuotaExceeded,
       SuspendClientModel, ResumeClientModel
<1>4. CASE CleanupExpiredQuotas
  BY <1>4, InvalidateCacheInv DEF CleanupExpiredQuotas
<1>5. CASE \E h \in Handlers : GetAvailableModels(h)
  <2> SUFFICES ASSUME NEW g \in Handlers, GetAvailableModels(g)
               PROVE  CacheInv'
    BY <1>5
  <2>1. /\ \A h \in Handlers : h # g => cache'[h] = cache[h]
        /\ cache'[g].models = AvailableModels(now)
        /\ cache'[g].expiresAt = EarliestRecovery(now)
        /\ reg' = reg /\ now' = now
    BY DEF GetAvailableModels, TypeOK
  <2>2. now \in Nat
    BY ConstantsAssumption DEF TypeOK, Time
  <2>3. AvailableModels(now)' = AvailableModels(now)
    BY <2>1 DEF AvailableModels, Available, OverQuota, InWindow
  <2>4. \A m \in Models, c \in Clients : InWindow(reg[m], c, now)' <=> InWindow(reg[m], c, now)
    BY <2>1 DEF InWindow
  <2> QED
    BY <2>1, <2>2, <2>3, <2>4, EarliestRecoveryIsFirst DEF CacheInv, Fresh
<1>6. CASE Tick
  BY <1>6, TickCacheInv
<1>7. CASE UNCHANGED vars
  <2>1. reg' = reg /\ cache' = cache /\ now' = now
    BY <1>7 DEF vars
  <2>2. AvailableModels(now)' = AvailableModels(now)
    BY <2>1 DEF AvailableModels, Available, OverQuota, InWindow
  <2> QED
    BY <2>1, <2>2 DEF CacheInv, Fresh, InWindow
<1> QED
  BY <1>1, <1>2, <1>3, <1>4, <1>5, <1>6, <1>7 DEF Next

\* The cached model list never differs from the list a rebuild would give:
\* every change of the registry drops it, and it expires before the passing
\* of time alone could change the answer.
THEOREM CacheNeverStale == Spec => []CacheIsCurrent
<1>1. Init => CacheInv
  BY DEF Init, CacheInv, Fresh, NoEntry
<1>2. TypeOK /\ CacheInv /\ [Next]_vars => CacheInv'
  BY CacheStep
<1>3. CacheInv => CacheIsCurrent
  BY DEF CacheInv, CacheIsCurrent
<1> QED
  BY <1>1, <1>2, <1>3, TypeCorrect, PTL DEF Spec

-----------------------------------------------------------------------------
(* The counters.  One client's slots are set apart: the others' are not    *)
(* touched by the operation, and a counter is the sum of the two.          *)

\* The slots and the clients of a provider, for any lists and providers of the clients.
Lists == [Clients -> [Models -> 0 .. MaxDup]]
Bindings == [Clients -> Providers \union {NoProvider}]
SlotsIn(lists, m, C) == {s \in C \X (1 .. MaxDup) : s[2] <= lists[s[1]][m]}
ServedBy(provs, p) == {c \in Clients : provs[c] = p}

\* The slots that clients of C have for a model are those of one of them and the rest.
LEMMA SlotsSplit ==
  ASSUME NEW lists \in Lists, NEW m \in Models, NEW C \in SUBSET Clients, NEW c \in Clients
  PROVE  /\ IsFiniteSet(SlotsIn(lists, m, C \ {c}))
         /\ Cardinality(SlotsIn(lists, m, C \ {c})) \in Nat
         /\ Cardinality(SlotsIn(lists, m, C)) =
              Cardinality(SlotsIn(lists, m, C \ {c})) + IF c \in C THEN lists[c][m] ELSE 0
<1> DEFINE k == lists[c][m]
           A == SlotsIn(lists, m, C \ {c})
           B == {s \in {c} \X (1 .. MaxDup) : s[2] <= k}
<1>1. k \in 0 .. MaxDup /\ MaxDup \in Nat
  BY ConstantsAssumption DEF Lists
<1>2. IsFiniteSet(A) /\ Cardinality(A) \in Nat
  <2>1. IsFiniteSet(Clients \X (1 .. MaxDup))
    <3>1. IsFiniteSet(1 .. MaxDup)
      BY <1>1, FS_Interval, 1 \in Int, MaxDup \in Int
    <3> QED
      BY <3>1, ConstantsAssumption, FS_Product
  <2>2. A \subseteq Clients \X (1 .. MaxDup)
    BY DEF SlotsIn
  <2> QED
    BY <2>1, <2>2, FS_Subset, FS_CardinalityType
<1>3. IsFiniteSet(B) /\ Cardinality(B) = k
  <2> DEFINE f == [i \in 1 .. k |-> <<c, i>>]
  <2>1. \A i \in 1 .. k : <<c, i>> \in B
    BY <1>1
  <2>2. \A s \in B : s[2] \in 1 .. k /\ s = <<c, s[2]>>
    BY <1>1
  <2>3. f \in [1 .. k -> B]
    BY <2>1
  <2>4. \A i, j \in 1 .. k : f[i] = f[j] => i = j
    OBVIOUS
  <2>5. \A s \in B : \E i \in 1 .. k : f[i] = s
    BY <2>2
  <2> HIDE DEF f, B
  <2>6. ExistsBijection(1 .. k, B)
    BY <2>3, <2>4, <2>5 DEF ExistsBijection, Bijection, Injection, Surjection, IsInjective
  <2>7. IsFiniteSet(1 .. k) /\ Cardinality(1 .. k) = k
    <3>1. k \in Int /\ k >= 0
      BY <1>1
    <3> HIDE DEF k
    <3>2. /\ IsFiniteSet(1 .. k)
          /\ Cardinality(1 .. k) = IF 1 > k THEN 0 ELSE k - 1 + 1
      BY <3>1, FS_Interval, 1 \in Int
    <3> QED
      BY <3>1, <3>2
  <2> QED
    BY <2>6, <2>7, FS_Bijection
<1>4. A \intersect B = {}
  BY DEF SlotsIn
<1>5. CASE c \in C
  <2>1. SlotsIn(lists, m, C) = A \union B
    BY <1>5 DEF SlotsIn
  <2> HIDE DEF A, B
  <2>2. Cardinality(A \union B) = Cardinality(A) + Cardinality(B) - Cardinality({})
    BY <1>2, <1>3, <1>4, FS_Union
  <2> QED
    BY <1>1, <1>2, <1>3, <1>5, <2>1, <2>2, FS_EmptySet DEF A
<1>6. CASE c \notin C
  <2>1. C \ {c} = C
    BY <1>6
  <2> QED
    BY <1>2, <1>6, <2>1
<1> QED
  BY <1>2, <1>5, <1>6

\* A registration whose metadata is that of the providers it counts.
Told(r) == r.info = {p \in Providers : r.prov[p] > 0}

\* Adding slots of a provider raises its counter and the total.
LEMMA AddNCounts ==
  ASSUME NEW r \in Registration, Told(r), NEW p \in Providers \union {NoProvider}, NEW n \in Nat
  PROVE  /\ AddN(r, p, n).count = r.count + n
         /\ \A q \in Providers : AddN(r, p, n).prov[q] = r.prov[q] + IF q = p THEN n ELSE 0
         /\ Told(AddN(r, p, n))
<1>1. r.count \in Nat /\ \A q \in Providers : r.prov[q] \in Nat
  BY RegistrationFields
<1>2. CASE n = 0
  BY <1>1, <1>2 DEF AddN
<1>3. CASE n # 0
  <2> DEFINE f == [q \in Providers |-> r.prov[q] + IF q = p THEN n ELSE 0]
             s == AddN(r, p, n)
  <2>1. /\ s.count = r.count + n /\ s.prov = f
        /\ s.info = r.info \union ({p} \ {NoProvider})
    BY <1>3 DEF AddN, Registration
  <2>2. \A q \in Providers : f[q] > 0 <=> r.prov[q] > 0 \/ q = p
    BY <1>1, <1>3
  <2>3. {p} \ {NoProvider} = {q \in Providers : q = p}
    BY ConstantsAssumption
  <2> HIDE DEF s
  <2>4. s.info = {q \in Providers : f[q] > 0}
    BY <2>1, <2>2, <2>3 DEF Told
  <2> QED
    BY <2>1, <2>4 DEF s, Told
<1> QED
  BY <1>2, <1>3

\* Giving slots back lowers the provider's counter, never below zero, and
\* leaves the total alone.
LEMMA ReleaseCounts ==
  ASSUME NEW r \in Registration, Told(r), NEW p \in Providers \union {NoProvider}, NEW n \in Nat
  PROVE  /\ ReleaseProvider(r, p, n).count = r.count
         /\ \A q \in Providers : ReleaseProvider(r, p, n).prov[q] =
              IF q # p THEN r.prov[q] ELSE IF r.prov[q] <= n THEN 0 ELSE r.prov[q] - n
         /\ Told(ReleaseProvider(r, p, n))
<1>1. \A q \in Providers : r.prov[q] \in Nat
  BY RegistrationFields
<1>2. CASE p = NoProvider
  BY <1>2, ConstantsAssumption DEF ReleaseProvider
<1>3. CASE p # NoProvider
  <2> DEFINE f == [q \in Providers |-> IF q # p THEN r.prov[q]
                                       ELSE IF r.prov[q] <= n THEN 0 ELSE r.prov[q] - n]
             s == ReleaseProvider(r, p, n)
  <2>1. /\ s.count = r.count /\ s.prov = f
        /\ s.info = IF r.prov[p] <= n THEN r.info \ {p} ELSE r.info
    BY <1>3 DEF ReleaseProvider, Registration
  <2>2. \A q \in Providers : f[q] > 0 <=> r.prov[q] > 0 /\ (q = p => ~(r.prov[p] <= n))
    BY <1>1
  <2> HIDE DEF s
  <2>3. s.info = {q \in Providers : f[q] > 0}
    BY <2>1, <2>2 DEF Told
  <2> QED
    BY <2>1, <2>3 DEF s, Told
<1> QED
  BY <1>2, <1>3

\* Removing slots that are not the last ones lowers both counters; with the last one
\* the registration is gone.
LEMMA RemoveNCounts ==
  ASSUME NEW r \in Registration, Told(r), NEW c \in Clients,
         NEW p \in Providers \union {NoProvider}, NEW n \in Nat, n <= r.count,
         r.count = n => \A q \in Providers : r.prov[q] = IF q = p THEN n ELSE 0,
         p \in Providers => n <= r.prov[p]
  PROVE  /\ RemoveN(r, c, p, n).count = r.count - n
         /\ \A q \in Providers : RemoveN(r, c, p, n).prov[q] = r.prov[q] - IF q = p THEN n ELSE 0
         /\ Told(RemoveN(r, c, p, n))
<1>1. r.count \in Nat /\ \A q \in Providers : r.prov[q] \in Nat
  BY RegistrationFields
<1>2. CASE n = 0
  BY <1>1, <1>2 DEF RemoveN
<1>3. CASE n # 0 /\ r.count <= n
  BY <1>1, <1>3 DEF RemoveN, NoRegistration, Told
<1>4. CASE n # 0 /\ ~(r.count <= n)
  <2> DEFINE s == ReleaseProvider(r, p, n)
  <2>1. /\ s.count = r.count /\ Told(s)
        /\ \A q \in Providers : s.prov[q] =
             IF q # p THEN r.prov[q] ELSE IF r.prov[q] <= n THEN 0 ELSE r.prov[q] - n
    BY ReleaseCounts
  <2>2. s \in Registration
    BY ReleaseProviderType
  <2> HIDE DEF s
  <2>3. /\ RemoveN(r, c, p, n).count = s.count - n
        /\ RemoveN(r, c, p, n).prov = s.prov
        /\ RemoveN(r, c, p, n).info = s.info
    BY <1>4, <2>2 DEF RemoveN, s, Registration
  <2> QED
    BY <1>1, <1>4, <2>1, <2>3 DEF Told
<1> QED
  BY <1>2, <1>3, <1>4

\* The counters of a model when a client has n slots of provider p and the others have
\* `others` slots, of them per[q] of provider q.
Counted(r, p, n, others, per) ==
  /\ r \in Registration /\ Told(r)
  /\ r.count = others + n
  /\ \A q \in Providers : r.prov[q] = per[q] + IF q = p THEN n ELSE 0

\* Reconciling replaces the slots a client had of its old provider by those it
\* has now of its new one.
LEMMA ReconciledCounts ==
  ASSUME NEW r, NEW c \in Clients,
         NEW op \in Providers \union {NoProvider}, NEW p \in Providers \union {NoProvider},
         NEW old \in Nat, NEW new \in Nat,
         NEW others \in Nat, NEW per \in [Providers -> Nat],
         \A q \in Providers : per[q] <= others,
         Counted(r, op, old, others, per)
  PROVE  Counted(Reconciled(r, c, op, p, old, new), p, new, others, per)
<1> DEFINE moved   == op # p /\ old > 0 /\ new > 0
           both    == Min2(old, new)
           shifted == IF moved THEN ReleaseProvider(r, op, both) ELSE r
           shrunk  == IF old > new THEN RemoveN(shifted, c, op, old - new) ELSE shifted
           grown   == IF new > old THEN AddN(shrunk, p, new - old) ELSE shrunk
           overlap == IF moved THEN both ELSE 0
           left    == IF moved THEN old - both ELSE old
           kept    == IF old > new THEN left - (old - new) ELSE left
           res     == Reconciled(r, c, op, p, old, new)
<1>1. /\ both \in Nat /\ both <= old /\ both <= new /\ (both = old \/ both = new)
      /\ r \in Registration /\ Told(r) /\ r.count = others + old
      /\ \A q \in Providers : r.prov[q] = per[q] + IF q = op THEN old ELSE 0
      /\ \A q \in Providers : per[q] \in Nat
  BY DEF Min2, Counted
<1> HIDE DEF both
<1>2. /\ shifted \in Registration /\ Told(shifted) /\ shifted.count = r.count
      /\ \A q \in Providers : shifted.prov[q] = per[q] + IF q = op THEN left ELSE 0
  <2>1. CASE moved
    <3>1. /\ shifted.count = r.count /\ Told(shifted) /\ shifted \in Registration
          /\ \A q \in Providers : shifted.prov[q] =
               IF q # op THEN r.prov[q] ELSE IF r.prov[q] <= both THEN 0 ELSE r.prov[q] - both
      <4>1. shifted = ReleaseProvider(r, op, both)
        BY <2>1
      <4> HIDE DEF shifted
      <4>2. ReleaseProvider(r, op, both) \in Registration
        BY <1>1, ReleaseProviderType
      <4>3. LET s == ReleaseProvider(r, op, both) IN
              /\ s.count = r.count /\ Told(s)
              /\ \A q \in Providers : s.prov[q] =
                   IF q # op THEN r.prov[q] ELSE IF r.prov[q] <= both THEN 0 ELSE r.prov[q] - both
        BY <1>1, ReleaseCounts
      <4> QED
        BY <4>1, <4>2, <4>3
    <3> HIDE DEF shifted
    <3> QED
      BY <1>1, <2>1, <3>1
  <2>2. CASE ~moved
    BY <1>1, <2>2
  <2> QED
    BY <2>1, <2>2
<1> HIDE DEF shifted
<1>3. /\ shrunk \in Registration /\ Told(shrunk)
      /\ shrunk.count = others + IF old > new THEN new ELSE old
      /\ \A q \in Providers : shrunk.prov[q] = per[q] + IF q = op THEN kept ELSE 0
  <2>1. CASE old > new
    <3> DEFINE n == old - new
    <3>1. n \in Nat /\ n <= shifted.count /\ left >= n
      BY <1>1, <1>2, <2>1
    <3>2. shifted.count = n => \A q \in Providers : shifted.prov[q] = IF q = op THEN n ELSE 0
      BY <1>1, <1>2, <2>1
    <3>3. op \in Providers => n <= shifted.prov[op]
      BY <1>1, <1>2, <3>1
    <3> HIDE DEF n
    <3>4. LET s == RemoveN(shifted, c, op, n) IN
            /\ s \in Registration /\ Told(s) /\ s.count = shifted.count - n
            /\ \A q \in Providers : s.prov[q] = shifted.prov[q] - IF q = op THEN n ELSE 0
      BY <1>2, <3>1, <3>2, <3>3, RemoveNCounts, RemoveNType
    <3>5. shrunk = RemoveN(shifted, c, op, n)
      BY <2>1 DEF n
    <3> HIDE DEF shrunk
    <3> QED
      BY <1>1, <1>2, <2>1, <3>4, <3>5 DEF n
  <2>2. CASE ~(old > new)
    BY <1>1, <1>2, <2>2
  <2> QED
    BY <2>1, <2>2
<1>4. shrunk.count = others + old \/ old > new
  BY <1>3
<1> HIDE DEF shrunk
<1>5. CASE new = 0
  <2>1. res = shrunk
    BY <1>5 DEF Reconciled, shrunk, shifted, both
  <2>2. kept = 0
    BY <1>1, <1>5
  <2>3. \A q \in Providers : shrunk.prov[q] = per[q]
    BY <1>1, <1>3, <2>2
  <2> HIDE DEF res
  <2> QED
    BY <1>1, <1>3, <1>5, <2>1, <2>3 DEF Counted, res
<1>6. CASE new # 0
  <2>1. /\ grown \in Registration /\ Told(grown) /\ grown.count = others + new
        /\ \A q \in Providers : grown.prov[q] = per[q] + (IF q = op THEN kept ELSE 0)
                                                 + IF q = p /\ new > old THEN new - old ELSE 0
    <3>1. CASE new > old
      <4>1. new - old \in Nat
        BY <3>1
      <4>2. LET s == AddN(shrunk, p, new - old) IN
              /\ s \in Registration /\ Told(s) /\ s.count = shrunk.count + (new - old)
              /\ \A q \in Providers : s.prov[q] = shrunk.prov[q] + IF q = p THEN new - old ELSE 0
        BY <1>3, <4>1, AddNCounts, AddNType
      <4> QED
        BY <1>3, <3>1, <4>2
    <3>2. CASE ~(new > old)
      BY <1>1, <1>3, <3>2
    <3> QED
      BY <3>1, <3>2
  <2> HIDE DEF grown
  <2>2. res = [grown EXCEPT !.quota[c] = NoTime,
                            !.susp[c]  = NotSuspended,
                            !.info = grown.info \union ({p} \ {NoProvider}),
                            !.prov = [q \in Providers |->
                                        grown.prov[q] + IF q = p THEN overlap ELSE 0]]
    BY <1>6 DEF Reconciled, grown, shrunk, shifted, both
  <2>3. overlap \in Nat
    BY <1>1
  <2>4. /\ res.count = grown.count
        /\ res.info = grown.info \union ({p} \ {NoProvider})
        /\ \A q \in Providers : res.prov[q] = grown.prov[q] + IF q = p THEN overlap ELSE 0
    BY <2>1, <2>2 DEF Registration
  <2>5. \A q \in Providers :
          (IF q = op THEN kept ELSE 0) + (IF q = p /\ new > old THEN new - old ELSE 0)
            + (IF q = p THEN overlap ELSE 0) = IF q = p THEN new ELSE 0
    BY <1>1, <1>6
  <2>6. \A q \in Providers : res.prov[q] = per[q] + IF q = p THEN new ELSE 0
    <3> SUFFICES ASSUME NEW q \in Providers
                 PROVE  res.prov[q] = per[q] + IF q = p THEN new ELSE 0
      OBVIOUS
    <3>1. kept \in Int
      BY <1>1
    <3> HIDE DEF kept, overlap, res
    <3> QED
      BY <1>1, <2>1, <2>3, <2>4, <2>5, <3>1
  <2>7. Told(res)
    <3>1. \A q \in Providers : grown.prov[q] \in Nat
      BY <2>1, RegistrationFields
    <3>2. \A q \in Providers : res.prov[q] > 0 <=> grown.prov[q] > 0 \/ q = p
      <4> SUFFICES ASSUME NEW q \in Providers
                   PROVE  res.prov[q] > 0 <=> grown.prov[q] > 0 \/ q = p
        OBVIOUS
      <4>1. CASE q = p
        BY <1>1, <1>6, <2>6, <4>1
      <4>2. CASE q # p
        BY <2>4, <3>1, <4>2
      <4> QED
        BY <4>1, <4>2
    <3>3. {p} \ {NoProvider} = {q \in Providers : q = p}
      BY ConstantsAssumption
    <3> HIDE DEF res
    <3> QED
      BY <2>1, <2>4, <3>2, <3>3 DEF Told
  <2>8. res \in Registration
    BY <1>1, ReconciledType
  <2> QED
    BY <2>1, <2>4, <2>6, <2>7, <2>8 DEF Counted
<1> QED
  BY <1>5, <1>6

\* A registration counts the slots of a model.
Exact(r, lists, provs, m) ==
  /\ r.count = Cardinality(SlotsIn(lists, m, Clients))
  /\ \A p \in Providers : r.prov[p] = Cardinality(SlotsIn(lists, m, ServedBy(provs, p)))
  /\ Told(r)

LEMMA CountsAreExact ==
  CountsMatchBindings <=> \A m \in Models : Exact(reg[m], clientModels, clientProviders, m)
  BY DEF CountsMatchBindings, Exact, Slots, SlotsIn, ClientsOf, ServedBy, ModelProviders, Told

\* The slots of all clients but one, and of those of each provider.
OthersOf(lists, m, c) == Cardinality(SlotsIn(lists, m, Clients \ {c}))
PerOf(lists, provs, m, c) ==
  [q \in Providers |-> Cardinality(SlotsIn(lists, m, ServedBy(provs, q) \ {c}))]

\* A registration is exact when it counts one client's slots beside the others'.
LEMMA CountsApart ==
  ASSUME NEW lists \in Lists, NEW provs \in Bindings, NEW r \in Registration,
         NEW m \in Models, NEW c \in Clients
  PROVE  LET others == OthersOf(lists, m, c)  per == PerOf(lists, provs, m, c) IN
         /\ others \in Nat /\ per \in [Providers -> Nat]
         /\ \A q \in Providers : per[q] <= others
         /\ Exact(r, lists, provs, m) <=> Counted(r, provs[c], lists[c][m], others, per)
<1> DEFINE others == OthersOf(lists, m, c)
           per == PerOf(lists, provs, m, c)
           k == lists[c][m]
<1>1. /\ IsFiniteSet(SlotsIn(lists, m, Clients \ {c})) /\ others \in Nat
      /\ Cardinality(SlotsIn(lists, m, Clients)) = others + k
  <2>1. ASSUME NEW C \in SUBSET Clients, c \in C
        PROVE  /\ IsFiniteSet(SlotsIn(lists, m, C \ {c}))
               /\ Cardinality(SlotsIn(lists, m, C \ {c})) \in Nat
               /\ Cardinality(SlotsIn(lists, m, C)) = Cardinality(SlotsIn(lists, m, C \ {c})) + k
    BY <2>1, SlotsSplit
  <2> HIDE DEF k
  <2> QED
    BY <2>1 DEF OthersOf
<1> HIDE DEF others
<1>2. \A q \in Providers : ServedBy(provs, q) \in SUBSET Clients
  BY DEF ServedBy
<1>3. ASSUME NEW q \in Providers
      PROVE  /\ per[q] \in Nat /\ per[q] <= others
             /\ Cardinality(SlotsIn(lists, m, ServedBy(provs, q))) =
                  per[q] + IF q = provs[c] THEN k ELSE 0
  <2> DEFINE C == ServedBy(provs, q)
             rest == Cardinality(SlotsIn(lists, m, C \ {c}))
  <2>1. C \in SUBSET Clients
    BY <1>2
  <2>2. c \in C <=> q = provs[c]
    BY DEF ServedBy
  <2>3. per[q] = rest
    BY DEF PerOf
  <2> HIDE DEF C, per
  <2>4. /\ rest \in Nat
        /\ Cardinality(SlotsIn(lists, m, C)) = rest + IF c \in C THEN k ELSE 0
    BY <2>1, SlotsSplit
  <2>5. SlotsIn(lists, m, C \ {c}) \subseteq SlotsIn(lists, m, Clients \ {c})
    BY <2>1 DEF SlotsIn
  <2>6. rest <= others
    BY <1>1, <2>5, FS_Subset DEF others, OthersOf
  <2> QED
    BY <2>2, <2>3, <2>4, <2>6 DEF C
<1>4. per \in [Providers -> Nat] /\ \A q \in Providers : per[q] <= others
  <2>1. per = [q \in Providers |-> per[q]]
    BY DEF PerOf
  <2> HIDE DEF per
  <2> QED
    BY <1>3, <2>1
<1> HIDE DEF per
<1>5. Exact(r, lists, provs, m) <=> Counted(r, provs[c], lists[c][m], others, per)
  BY <1>1, <1>3 DEF Counted, Exact
<1> QED
  BY <1>1, <1>4, <1>5 DEF others, per

\* The other clients' slots are as they were.
LEMMA OthersKeepSlots ==
  ASSUME TypeOK, NEW m \in Models, NEW c \in Clients, NEW list, NEW p,
         clientModels' = [clientModels EXCEPT ![c] = list],
         clientProviders' = [clientProviders EXCEPT ![c] = p]
  PROVE  /\ OthersOf(clientModels', m, c) = OthersOf(clientModels, m, c)
         /\ PerOf(clientModels', clientProviders', m, c)
              = PerOf(clientModels, clientProviders, m, c)
         /\ clientModels'[c][m] = list[m] /\ clientProviders'[c] = p
<1>1. /\ \A d \in Clients \ {c} : clientModels'[d] = clientModels[d]
                                  /\ clientProviders'[d] = clientProviders[d]
      /\ clientModels'[c] = list /\ clientProviders'[c] = p
  BY DEF TypeOK
<1>2. SlotsIn(clientModels', m, Clients \ {c}) = SlotsIn(clientModels, m, Clients \ {c})
  BY <1>1 DEF SlotsIn
<1>3. ASSUME NEW q \in Providers
      PROVE  SlotsIn(clientModels', m, ServedBy(clientProviders', q) \ {c})
               = SlotsIn(clientModels, m, ServedBy(clientProviders, q) \ {c})
  <2>1. ServedBy(clientProviders', q) \ {c} = ServedBy(clientProviders, q) \ {c}
    BY <1>1 DEF ServedBy
  <2>2. ServedBy(clientProviders, q) \ {c} \subseteq Clients \ {c}
    BY DEF ServedBy
  <2> QED
    BY <1>1, <2>1, <2>2 DEF SlotsIn
<1> QED
  BY <1>1, <1>2, <1>3 DEF OthersOf, PerOf

\* A client's new list and provider, and registrations reconciled with it, keep
\* the counters exact.
LEMMA BindingKeepsCounts ==
  ASSUME TypeOK, TypeOK', CountsMatchBindings, NEW c \in Clients,
         NEW list, NEW p \in Providers \union {NoProvider},
         list \in [Models -> 0 .. MaxDup],
         clientModels' = [clientModels EXCEPT ![c] = list],
         clientProviders' = [clientProviders EXCEPT ![c] = p],
         \A m \in Models : \A others \in Nat : \A per \in [Providers -> Nat] :
           (\A q \in Providers : per[q] <= others)
             /\ Counted(reg[m], clientProviders[c], clientModels[c][m], others, per)
           => Counted(reg'[m], p, list[m], others, per)
  PROVE  CountsMatchBindings'
<1> SUFFICES ASSUME NEW m \in Models
             PROVE  Exact(reg'[m], clientModels', clientProviders', m)
  BY DEF CountsMatchBindings, Exact, Slots, SlotsIn, ClientsOf, ServedBy, ModelProviders, Told
<1> DEFINE others == OthersOf(clientModels, m, c)
           per == PerOf(clientModels, clientProviders, m, c)
           later == OthersOf(clientModels', m, c)
           perLater == PerOf(clientModels', clientProviders', m, c)
<1>1. /\ reg[m] \in Registration /\ clientModels \in Lists /\ clientProviders \in Bindings
      /\ reg'[m] \in Registration /\ clientModels' \in Lists /\ clientProviders' \in Bindings
  BY DEF TypeOK, Lists, Bindings
<1>2. Exact(reg[m], clientModels, clientProviders, m)
  BY CountsAreExact
<1>3. /\ others \in Nat /\ per \in [Providers -> Nat]
      /\ \A q \in Providers : per[q] <= others
      /\ Counted(reg[m], clientProviders[c], clientModels[c][m], others, per)
  BY <1>1, <1>2, CountsApart
<1>4. later = others /\ perLater = per
  BY OthersKeepSlots
<1>5. clientModels'[c][m] = list[m] /\ clientProviders'[c] = p
  BY OthersKeepSlots
<1>6. Exact(reg'[m], clientModels', clientProviders', m)
        <=> Counted(reg'[m], clientProviders'[c], clientModels'[c][m], later, perLater)
  BY <1>1, CountsApart
<1> HIDE DEF others, per, later, perLater
<1>7. Counted(reg'[m], p, list[m], others, per)
  BY <1>3
<1> QED
  BY <1>4, <1>5, <1>6, <1>7

\* Removing a client takes away exactly its slots.
LEMMA UnregisterCounts ==
  ASSUME TypeOK, CountsMatchBindings, NEW c \in Clients, UnregisterClient(c)
  PROVE  CountsMatchBindings'
<1>1. TypeOK'
  BY UnregisterType
<1>2. /\ clientModels' = [clientModels EXCEPT ![c] = EmptyList]
      /\ clientProviders' = [clientProviders EXCEPT ![c] = NoProvider]
      /\ EmptyList \in [Models -> 0 .. MaxDup]
  BY ConstantsAssumption DEF UnregisterClient, EmptyList
<1>3. ASSUME NEW m \in Models, NEW others \in Nat, NEW per \in [Providers -> Nat],
             \A q \in Providers : per[q] <= others,
             Counted(reg[m], clientProviders[c], clientModels[c][m], others, per)
      PROVE  Counted(reg'[m], NoProvider, EmptyList[m], others, per)
  <2> DEFINE n == clientModels[c][m]
             op == clientProviders[c]
             r == reg[m]
             s == RemoveN(r, c, op, n)
  <2>1. n \in Nat /\ op \in Providers \union {NoProvider} /\ r \in Registration
    BY ConstantsAssumption DEF TypeOK
  <2>2. reg'[m] = s /\ EmptyList[m] = 0
    BY DEF UnregisterClient, EmptyList
  <2> HIDE DEF n, op, r
  <2>3. /\ Told(r) /\ r.count = others + n
        /\ \A q \in Providers : r.prov[q] = per[q] + IF q = op THEN n ELSE 0
        /\ \A q \in Providers : per[q] \in Nat
    BY <1>3 DEF Counted, n, op, r
  <2>4. r.count = n => \A q \in Providers : r.prov[q] = IF q = op THEN n ELSE 0
    BY <1>3, <2>1, <2>3
  <2>5. n <= r.count /\ (op \in Providers => n <= r.prov[op])
    BY <2>1, <2>3
  <2>6. /\ s.count = r.count - n /\ Told(s)
        /\ \A q \in Providers : s.prov[q] = r.prov[q] - IF q = op THEN n ELSE 0
    <3> HIDE DEF s
    <3>1. s = RemoveN(r, c, op, n)
      BY DEF s
    <3> QED
      BY <2>1, <2>3, <2>4, <2>5, <3>1, RemoveNCounts
  <2>7. s \in Registration
    BY <2>1, RemoveNType
  <2> HIDE DEF s
  <2>8. s.count = others + 0
    BY <2>1, <2>3, <2>6
  <2>9. \A q \in Providers : s.prov[q] = per[q] + IF q = NoProvider THEN 0 ELSE 0
    BY <2>1, <2>3, <2>6
  <2> QED
    BY <2>2, <2>6, <2>7, <2>8, <2>9 DEF Counted
<1> HIDE DEF UnregisterClient
<1> QED
  BY <1>1, <1>2, <1>3, BindingKeepsCounts

\* Registering a client, known or not, replaces its slots by those of its new list.
LEMMA RegisterCounts ==
  ASSUME TypeOK, CountsMatchBindings, NEW c \in Clients, NEW p \in Providers \union {NoProvider},
         NEW list \in [Models -> 0 .. MaxDup], RegisterClient(c, p, list)
  PROVE  CountsMatchBindings'
<1>1. CASE list = EmptyList
  BY <1>1, UnregisterCounts DEF RegisterClient
<1>2. CASE list # EmptyList
  <2>1. TypeOK'
    BY RegisterType
  <2>2. /\ clientModels' = [clientModels EXCEPT ![c] = list]
        /\ clientProviders' = [clientProviders EXCEPT ![c] = p]
    BY <1>2 DEF RegisterClient
  <2>3. ASSUME NEW m \in Models, NEW others \in Nat, NEW per \in [Providers -> Nat],
               \A q \in Providers : per[q] <= others,
               Counted(reg[m], clientProviders[c], clientModels[c][m], others, per)
        PROVE  Counted(reg'[m], p, list[m], others, per)
    <3>1. /\ clientModels[c][m] \in Nat /\ list[m] \in Nat /\ reg[m] \in Registration
          /\ clientProviders[c] \in Providers \union {NoProvider}
      BY ConstantsAssumption DEF TypeOK
    <3>2. CASE Known(c)
      <4>1. reg'[m] = Reconciled(reg[m], c, clientProviders[c], p, clientModels[c][m], list[m])
        BY <1>2, <3>2 DEF RegisterClient
      <4> QED
        BY <2>3, <3>1, <4>1, ReconciledCounts
    <3>3. CASE ~Known(c)
      <4>1. reg'[m] = AddN(reg[m], p, list[m])
        BY <1>2, <3>3 DEF RegisterClient
      <4>2. clientModels[c][m] = 0
        BY <3>1, <3>3 DEF Known, Listed
      <4>3. /\ Told(reg[m]) /\ reg[m].count = others
            /\ \A q \in Providers : reg[m].prov[q] = per[q]
        BY <2>3, <4>2 DEF Counted
      <4>4. /\ reg'[m] \in Registration /\ Told(reg'[m]) /\ reg'[m].count = reg[m].count + list[m]
            /\ \A q \in Providers : reg'[m].prov[q] = reg[m].prov[q] + IF q = p THEN list[m] ELSE 0
        <5>1. AddN(reg[m], p, list[m]) \in Registration
          BY <3>1, AddNType
        <5>2. LET s == AddN(reg[m], p, list[m]) IN
                /\ s.count = reg[m].count + list[m] /\ Told(s)
                /\ \A q \in Providers : s.prov[q] = reg[m].prov[q] + IF q = p THEN list[m] ELSE 0
          BY <3>1, <4>3, AddNCounts
        <5> QED
          BY <4>1, <5>1, <5>2
      <4> QED
        BY <4>3, <4>4 DEF Counted
    <3> QED
      BY <3>2, <3>3
  <2> HIDE DEF RegisterClient
  <2> QED
    BY <2>1, <2>2, <2>3, BindingKeepsCounts
<1> QED
  BY <1>1, <1>2

\* Marks, list queries and the clock do not count anything.
LEMMA OtherStepsKeepCounts ==
  ASSUME TypeOK, CountsMatchBindings, UNCHANGED <<clientModels, clientProviders>>,
         \A m \in Models : /\ reg'[m].count = reg[m].count
                           /\ reg'[m].prov = reg[m].prov
                           /\ reg'[m].info = reg[m].info
  PROVE  CountsMatchBindings'
  BY DEF CountsMatchBindings, Slots, ClientsOf, ModelProviders

\* The counters stay exact.
LEMMA CountsStep == TypeOK /\ CountsMatchBindings /\ [Next]_vars => CountsMatchBindings'
<1> SUFFICES ASSUME TypeOK, CountsMatchBindings, [Next]_vars
             PROVE  CountsMatchBindings'
  OBVIOUS
<1>1. CASE \E c \in Clients, p \in Providers \union {NoProvider},
              list \in [Models -> 0 .. MaxDup] : RegisterClient(c, p, list)
  BY <1>1, RegisterCounts
<1>2. CASE \E c \in Clients : UnregisterClient(c)
  BY <1>2, UnregisterCounts
<1>3. CASE \E c \in Clients, m \in Models :
             /\ MayMark(c, m)
             /\ \/ SetModelQuotaExceeded(c, m)
                \/ ClearModelQuotaExceeded(c, m)
                \/ \E why \in Reasons : SuspendClientModel(c, m, why)
                \/ ResumeClientModel(c, m)
  <2>1. PICK c \in Clients, m \in Models :
             \/ SetModelQuotaExceeded(c, m)
             \/ ClearModelQuotaExceeded(c, m)
             \/ \E why \in Reasons : SuspendClientModel(c, m, why)
             \/ ResumeClientModel(c, m)
    BY <1>3
  <2>2. UNCHANGED <<clientModels, clientProviders>>
    BY <2>1 DEF SetModelQuotaExceeded, ClearModelQuotaExceeded, SuspendClientModel,
                ResumeClientModel
  <2>3. \E v : \/ reg' = [reg EXCEPT ![m].quota[c] = v]
               \/ reg' = [reg EXCEPT ![m].susp[c] = v]
    BY <2>1 DEF SetModelQuotaExceeded, ClearModelQuotaExceeded, SuspendClientModel,
                ResumeClientModel
  <2>4. \A n \in Models : /\ reg'[n].count = reg[n].count
                          /\ reg'[n].prov = reg[n].prov
                          /\ reg'[n].info = reg[n].info
    <3>1. PICK v : \/ reg' = [reg EXCEPT ![m].quota[c] = v]
                   \/ reg' = [reg EXCEPT ![m].susp[c] = v]
      BY <2>3
    <3>2. CASE reg' = [reg EXCEPT ![m].quota[c] = v]
      BY <3>2 DEF TypeOK, Registration
    <3>3. CASE reg' = [reg EXCEPT ![m].susp[c] = v]
      BY <3>3 DEF TypeOK, Registration
    <3> QED
      BY <3>1, <3>2, <3>3
  <2> QED
    BY <2>2, <2>4, OtherStepsKeepCounts
<1>4. CASE CleanupExpiredQuotas
  <2>1. \A n \in Models : /\ reg'[n].count = reg[n].count
                          /\ reg'[n].prov = reg[n].prov
                          /\ reg'[n].info = reg[n].info
    BY <1>4 DEF CleanupExpiredQuotas, TypeOK, Registration
  <2> QED
    BY <1>4, <2>1, OtherStepsKeepCounts DEF CleanupExpiredQuotas
<1>5. CASE (\E h \in Handlers : GetAvailableModels(h)) \/ Tick \/ UNCHANGED vars
  <2>1. reg' = reg /\ UNCHANGED <<clientModels, clientProviders>>
    BY <1>5 DEF GetAvailableModels, Tick, vars
  <2> QED
    BY <2>1, OtherStepsKeepCounts
<1> QED
  BY <1>1, <1>2, <1>3, <1>4, <1>5 DEF Next

\* Nobody is counted at first.
LEMMA CountsInit == Init => CountsMatchBindings
<1> SUFFICES ASSUME Init
             PROVE  CountsMatchBindings
  OBVIOUS
<1>1. ASSUME NEW m \in Models, NEW C \in SUBSET Clients
      PROVE  Cardinality(Slots(m, C)) = 0
  <2>1. Slots(m, C) = {}
    BY ConstantsAssumption DEF Slots, Init, EmptyList
  <2> QED
    BY <2>1, FS_EmptySet
<1>2. \A p \in Providers : ClientsOf(p) \in SUBSET Clients
  BY DEF ClientsOf
<1>3. \A m \in Models : reg[m] = NoRegistration
  BY DEF Init
<1>4. /\ NoRegistration.count = 0 /\ \A p \in Providers : NoRegistration.prov[p] = 0
      /\ NoRegistration.info = {}
  BY DEF NoRegistration
<1> QED
  BY <1>1, <1>2, <1>3, <1>4 DEF CountsMatchBindings, ModelProviders

\* However clients come, go and change their lists and providers, every counter
\* is the number of slots it stands for: the differences of RegisterClient add up.
THEOREM CountersNeverDrift == Spec => []CountsMatchBindings
  BY CountsInit, CountsStep, TypeCorrect, PTL DEF Spec

\* When marks arrive only for bound clients, a provider's own list and the global
\* list agree on a model that only its clients serve.
THEOREM ListsAgree ==
  ASSUME LateMarks = FALSE
  PROVE  Spec => []ProviderViewAgrees
<1>1. ASSUME TypeOK, CountsMatchBindings, MarksOnlyOnBindings
      PROVE  ProviderViewAgrees
  <2> SUFFICES ASSUME NEW m \in Models, NEW p \in Providers, Exists(reg[m]),
                      \A c \in Clients : Listed(c, m) => clientProviders[c] = p
               PROVE  m \in AvailableByProvider(p, now) <=> m \in AvailableModels(now)
    BY DEF ProviderViewAgrees
  <2> DEFINE C == ClientsOf(p)
  <2>1. /\ OverQuota(reg[m], now) \subseteq C
        /\ Suspended(reg[m], "quota") \subseteq C
        /\ Suspended(reg[m], "other") \subseteq C
    BY <1>1 DEF MarksOnlyOnBindings, ClientsOf, OverQuota, InWindow, Suspended, NotSuspended
  <2>2. Slots(m, C) = Slots(m, Clients)
    <3>1. \A s \in Slots(m, Clients) : s[1] \in C
      BY <1>1, ConstantsAssumption DEF Slots, ClientsOf, Listed, TypeOK
    <3>2. C \subseteq Clients
      BY DEF ClientsOf
    <3> HIDE DEF C
    <3> QED
      BY <3>1, <3>2 DEF Slots
  <2>3. reg[m].count = Cardinality(Slots(m, C))
    BY <1>1, <2>2 DEF CountsMatchBindings
  <2>4. Slots(m, C) # {}
    BY <2>3, FS_EmptySet DEF Exists
  <2> HIDE DEF C
  <2>5. /\ OverQuota(reg[m], now) \intersect C = OverQuota(reg[m], now)
        /\ Suspended(reg[m], "quota") \intersect C = Suspended(reg[m], "quota")
        /\ Suspended(reg[m], "other") \intersect C = Suspended(reg[m], "other")
    BY <2>1
  <2> QED
    BY <2>3, <2>4, <2>5 DEF AvailableByProvider, AvailableModels, Available, C
<1>2. Spec => []MarksOnlyOnBindings
  BY MarksNeverOutliveBindings
<1> QED
  BY <1>1, <1>2, CountersNeverDrift, TypeCorrect, PTL
=============================================================================
