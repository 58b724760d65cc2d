------------------------- MODULE AuthManagerProofs --------------------------
(***************************************************************************)
(* What is proved about the goroutines around one credential, for any      *)
(* number of requests and any of the operators' programs: the manager's    *)
(* state is well typed, only the service creates a credential, and an      *)
(* operation that runs alone leaves the scheduler and the registry in step *)
(* with the manager, whatever races came before it.                        *)
(*                                                                         *)
(* A thread's program shrinks and is extended as it runs.  The invariant   *)
(* is about the shape that is left of it: what stands at its end brings    *)
(* the views up to date after everything in it that may put them out of    *)
(* step.                                                                   *)
(***************************************************************************)
EXTENDS AuthManager, SequenceTheorems, TLAPS

LocalRecords ==
  [auth : Credential \union {NoAuth}, rec : BOOLEAN, supported : BOOLEAN, exists : BOOLEAN,
   result : Results \union {"none"}]

\* The program ends with a fresh look at the credential for the scheduler, or with
\* the section that will append one.
EndsFresh(p) ==
  /\ p # <<>>
  /\ \/ p[Len(p)] = "latest"
     \/ Len(p) > 1 /\ p[Len(p) - 1] = "reread" /\ p[Len(p)] = "upsert"

\* A credential is written first of all, a snapshot goes to the scheduler first or
\* right after it was taken, and whatever changes the registry's models or drops a
\* model state is followed by a fresh look or by the deletion.
InPlace(p, i) ==
  /\ p[i] = "put" => i = 1 /\ (Len(p) = 1 \/ EndsFresh(p))
  /\ p[i] = "upsert" => i = 1 \/ p[i - 1] = "reread"
  /\ p[i] = "reread" => i + 1 = Len(p) /\ p[i + 1] = "upsert"
  /\ p[i] = "latest" => i = Len(p)
  /\ p[i] \in {"register", "supported", "reconcile"} => EndsFresh(p)
  /\ p[i] = "unregister" => EndsFresh(p) \/ (i < Len(p) /\ p[i + 1] = "delete")

WellFormed(p) == p \in Seq(Sections) /\ \A i \in 1 .. Len(p) : InPlace(p, i)

\* A section that works on a credential has one in hand when its turn comes.
InHand(p, l) ==
  \A i \in 1 .. Len(p) :
    p[i] \in {"put", "register"} \/ (i = 1 /\ p[i] = "upsert") => l.auth # NoAuth

\* Only the service's clone may be of a credential it did not find.
Known(t, p, l) == p # <<>> /\ p[1] = "put" /\ t # "service" => l.exists

Threaded(t, p, l) == l \in LocalRecords /\ WellFormed(p) /\ InHand(p, l) /\ Known(t, p, l)

ViewType ==
  /\ auths \in Credential \union {NoAuth}
  /\ sched \in [ms : States, supports : BOOLEAN] \union {NoAuth}
  /\ reg \in [bound : BOOLEAN, quota : BOOLEAN, susp : BOOLEAN]
  /\ disk \in BOOLEAN
  /\ solo \in Threads \union {NoAuth}
  /\ off \in BOOLEAN

Programmed ==
  /\ todo = [t \in Threads |-> todo[t]]
  /\ local = [t \in Threads |-> local[t]]
  /\ \A t \in Threads : Threaded(t, todo[t], local[t])

ManagerTyped == ViewType /\ Programmed

-----------------------------------------------------------------------------
(* Programs.                                                               *)

\* The programs an operation starts with or goes on with, section by section.
LEMMA AfterResultSections ==
  /\ LET p == <<"upsert">> \o Save \o <<"quota", "suspend">> IN
     /\ p \in Seq(Sections) /\ Len(p) = 5
     /\ p[1] = "upsert" /\ p[2] = "records" /\ p[3] = "save" /\ p[4] = "quota" /\ p[5] = "suspend"
  /\ LET p == <<"upsert">> \o <<>> \o <<"quota", "suspend">> IN
     /\ p \in Seq(Sections) /\ Len(p) = 3
     /\ p[1] = "upsert" /\ p[2] = "quota" /\ p[3] = "suspend"
  /\ LET p == <<"upsert">> \o Save \o <<"suspend">> IN
     /\ p \in Seq(Sections) /\ Len(p) = 4
     /\ p[1] = "upsert" /\ p[2] = "records" /\ p[3] = "save" /\ p[4] = "suspend"
  /\ LET p == <<"upsert">> \o <<>> \o <<"suspend">> IN
     /\ p \in Seq(Sections) /\ Len(p) = 2
     /\ p[1] = "upsert" /\ p[2] = "suspend"
  /\ LET p == <<"upsert">> \o Save \o <<>> IN
     /\ p \in Seq(Sections) /\ Len(p) = 3
     /\ p[1] = "upsert" /\ p[2] = "records" /\ p[3] = "save"
  /\ LET p == <<"upsert">> \o <<>> \o <<>> IN
     /\ p \in Seq(Sections) /\ Len(p) = 1
     /\ p[1] = "upsert"
<1>1. LET p == <<"upsert">> \o Save \o <<"quota", "suspend">> IN
     /\ p \in Seq(Sections) /\ Len(p) = 5
     /\ p[1] = "upsert" /\ p[2] = "records" /\ p[3] = "save" /\ p[4] = "quota" /\ p[5] = "suspend"
  BY DEF Save, Sections
<1>2. LET p == <<"upsert">> \o <<>> \o <<"quota", "suspend">> IN
     /\ p \in Seq(Sections) /\ Len(p) = 3
     /\ p[1] = "upsert" /\ p[2] = "quota" /\ p[3] = "suspend"
  BY DEF Save, Sections
<1>3. LET p == <<"upsert">> \o Save \o <<"suspend">> IN
     /\ p \in Seq(Sections) /\ Len(p) = 4
     /\ p[1] = "upsert" /\ p[2] = "records" /\ p[3] = "save" /\ p[4] = "suspend"
  BY DEF Save, Sections
<1>4. LET p == <<"upsert">> \o <<>> \o <<"suspend">> IN
     /\ p \in Seq(Sections) /\ Len(p) = 2
     /\ p[1] = "upsert" /\ p[2] = "suspend"
  BY DEF Save, Sections
<1>5. LET p == <<"upsert">> \o Save \o <<>> IN
     /\ p \in Seq(Sections) /\ Len(p) = 3
     /\ p[1] = "upsert" /\ p[2] = "records" /\ p[3] = "save"
  BY DEF Save, Sections
<1>6. LET p == <<"upsert">> \o <<>> \o <<>> IN
     /\ p \in Seq(Sections) /\ Len(p) = 1
     /\ p[1] = "upsert"
  BY DEF Save, Sections
<1> QED BY <1>1, <1>2, <1>3, <1>4, <1>5, <1>6

LEMMA AfterPutSections ==
  /\ LET p == AfterPut(TRUE) IN
     p \in Seq(Sections) /\ Len(p) = 3 /\ p[1] = "upsert" /\ p[2] = "records" /\ p[3] = "save"
  /\ LET p == AfterPut(FALSE) IN p \in Seq(Sections) /\ Len(p) = 1 /\ p[1] = "upsert"
BY DEF AfterPut, Save, Sections

LEMMA RegisterModelsSections ==
  /\ LET p == RegisterModels IN
     /\ p \in Seq(Sections) /\ Len(p) = 5 /\ p[1] = "register" /\ p[2] = "supported"
     /\ p[3] = "reconcile" /\ p[4] = "reread" /\ p[5] = "upsert"
  /\ LET p == <<"put">> \o RegisterModels IN
     /\ p \in Seq(Sections) /\ Len(p) = 6 /\ p[1] = "put" /\ p[2] = "register"
     /\ p[3] = "supported" /\ p[4] = "reconcile" /\ p[5] = "reread" /\ p[6] = "upsert"
BY DEF RegisterModels, RefreshEntry, Sections

LEMMA RefreshModelsSections ==
  /\ LET p == RefreshModels IN
     /\ p \in Seq(Sections) /\ Len(p) = 4 /\ p[1] = "register" /\ p[2] = "supported"
     /\ p[3] = "reconcile" /\ p[4] = "latest"
  /\ LET p == <<"unregister">> \o RefreshEntry IN
     /\ p \in Seq(Sections) /\ Len(p) = 3 /\ p[1] = "unregister" /\ p[2] = "reread" /\ p[3] = "upsert"
BY DEF RefreshModels, RefreshEntry, Sections

LEMMA RemovalSections ==
  LET p == Removal IN
  /\ p \in Seq(Sections) /\ Len(p) = 5 /\ p[1] = "unregister" /\ p[2] = "delete"
  /\ p[3] = "unschedule" /\ p[4] = "records" /\ p[5] = "save"
BY DEF Removal, Save, Sections

LEMMA OnlyPutSections ==
  LET p == <<"put">> IN p \in Seq(Sections) /\ Len(p) = 1 /\ p[1] = "put"
BY DEF Sections

\* The sections of a result, wherever they stand.
ResultSections(p, result) ==
  /\ p \in Seq(Sections) /\ Len(p) \in 1 .. 5 /\ p # <<>> /\ p[1] = "upsert"
  /\ \A i \in 2 .. Len(p) : p[i] \in {"records", "save", "quota", "suspend"}
  /\ result \in {"success", "quota", "rejected"} =>
       \A i \in 1 .. Len(p) : p[i] = "suspend" <=> i = Len(p)
  /\ result \in {"success", "quota"} =>
       Len(p) > 2 /\ \A i \in 1 .. Len(p) : p[i] = "quota" <=> i = Len(p) - 1

LEMMA AfterResultSectionKinds ==
  ASSUME NEW changed \in BOOLEAN, NEW result \in Results
  PROVE  ResultSections(AfterResult(changed, result), result)
<1>1. CASE result \in {"success", "quota"}
  <2>1. Marking(result) = <<"quota", "suspend">>
    BY <1>1 DEF Marking
  <2>2. CASE changed = TRUE
    <3>1. AfterResult(changed, result) = <<"upsert">> \o Save \o <<"quota", "suspend">>
      BY <2>1, <2>2 DEF AfterResult
    <3>2. PICK p : p = AfterResult(changed, result)
      OBVIOUS
    <3>3. /\ p \in Seq(Sections) /\ Len(p) = 5
          /\ p[1] = "upsert" /\ p[2] = "records" /\ p[3] = "save" /\ p[4] = "quota" /\ p[5] = "suspend"
      BY <3>1, <3>2, AfterResultSections
    <3> QED BY <1>1, <3>2, <3>3 DEF ResultSections
  <2>3. CASE changed = FALSE
    <3>1. AfterResult(changed, result) = <<"upsert">> \o <<>> \o <<"quota", "suspend">>
      BY <2>1, <2>3 DEF AfterResult
    <3>2. PICK p : p = AfterResult(changed, result)
      OBVIOUS
    <3>3. /\ p \in Seq(Sections) /\ Len(p) = 3
          /\ p[1] = "upsert" /\ p[2] = "quota" /\ p[3] = "suspend"
      BY <3>1, <3>2, AfterResultSections
    <3> QED BY <1>1, <3>2, <3>3 DEF ResultSections
  <2> QED BY <2>2, <2>3
<1>2. CASE result = "rejected"
  <2>1. Marking(result) = <<"suspend">>
    BY <1>2 DEF Marking
  <2>2. CASE changed = TRUE
    <3>1. AfterResult(changed, result) = <<"upsert">> \o Save \o <<"suspend">>
      BY <2>1, <2>2 DEF AfterResult
    <3>2. PICK p : p = AfterResult(changed, result)
      OBVIOUS
    <3>3. /\ p \in Seq(Sections) /\ Len(p) = 4
          /\ p[1] = "upsert" /\ p[2] = "records" /\ p[3] = "save" /\ p[4] = "suspend"
      BY <3>1, <3>2, AfterResultSections
    <3>4. \A i \in 1 .. 4 : p[i] = "suspend" <=> i = 4
      BY <3>3
    <3>5. \A i \in 2 .. 4 : p[i] \in {"records", "save", "quota", "suspend"}
      BY <3>3
    <3>6. result \notin {"success", "quota"}
      BY <1>2
    <3> QED BY <3>2, <3>3, <3>4, <3>5, <3>6 DEF ResultSections
  <2>3. CASE changed = FALSE
    <3>1. AfterResult(changed, result) = <<"upsert">> \o <<>> \o <<"suspend">>
      BY <2>1, <2>3 DEF AfterResult
    <3>2. PICK p : p = AfterResult(changed, result)
      OBVIOUS
    <3>3. /\ p \in Seq(Sections) /\ Len(p) = 2
          /\ p[1] = "upsert" /\ p[2] = "suspend"
      BY <3>1, <3>2, AfterResultSections
    <3>4. \A i \in 1 .. 2 : p[i] = "suspend" <=> i = 2
      BY <3>3
    <3>5. \A i \in 2 .. 2 : p[i] \in {"records", "save", "quota", "suspend"}
      BY <3>3
    <3>6. result \notin {"success", "quota"}
      BY <1>2
    <3> QED BY <3>2, <3>3, <3>4, <3>5, <3>6 DEF ResultSections
  <2> QED BY <2>2, <2>3
<1>3. CASE result \notin {"success", "quota", "rejected"}
  <2>1. Marking(result) = <<>>
    BY <1>3 DEF Marking
  <2>2. CASE changed = TRUE
    <3>1. AfterResult(changed, result) = <<"upsert">> \o Save \o <<>>
      BY <2>1, <2>2 DEF AfterResult
    <3>2. PICK p : p = AfterResult(changed, result)
      OBVIOUS
    <3>3. /\ p \in Seq(Sections) /\ Len(p) = 3
          /\ p[1] = "upsert" /\ p[2] = "records" /\ p[3] = "save"
      BY <3>1, <3>2, AfterResultSections
    <3> QED BY <1>3, <3>2, <3>3 DEF ResultSections
  <2>3. CASE changed = FALSE
    <3>1. AfterResult(changed, result) = <<"upsert">> \o <<>> \o <<>>
      BY <2>1, <2>3 DEF AfterResult
    <3>2. PICK p : p = AfterResult(changed, result)
      OBVIOUS
    <3>3. /\ p \in Seq(Sections) /\ Len(p) = 1
          /\ p[1] = "upsert"
      BY <3>1, <3>2, AfterResultSections
    <3> QED BY <1>3, <3>2, <3>3 DEF ResultSections
  <2> QED BY <2>2, <2>3
<1> QED BY <1>1, <1>2, <1>3

LEMMA AfterResultWellFormed ==
  ASSUME NEW changed \in BOOLEAN, NEW result \in Results
  PROVE  LET p == AfterResult(changed, result) IN
         /\ WellFormed(p) /\ p[1] = "upsert" /\ p # <<>>
         /\ \A i \in 1 .. Len(p) : p[i] \notin {"put", "register"}
<1> DEFINE p == AfterResult(changed, result)
<1>1. /\ p \in Seq(Sections) /\ Len(p) \in 1 .. 5 /\ p # <<>> /\ p[1] = "upsert"
      /\ \A i \in 2 .. Len(p) : p[i] \in {"records", "save", "quota", "suspend"}
  BY AfterResultSectionKinds DEF ResultSections
<1> HIDE DEF p
<1>2. ASSUME NEW i \in 1 .. Len(p) PROVE InPlace(p, i) /\ p[i] \notin {"put", "register"}
  <2>1. i = 1 \/ i \in 2 .. Len(p)
    BY <1>1
  <2> QED BY <1>1, <2>1 DEF InPlace
<1>3. WellFormed(p)
  BY <1>1, <1>2 DEF WellFormed
<1> QED BY <1>1, <1>2, <1>3 DEF p

LEMMA RegisterModelsWellFormed ==
  /\ WellFormed(RegisterModels) /\ EndsFresh(RegisterModels) /\ RegisterModels # <<>>
  /\ \A i \in 1 .. Len(RegisterModels) : RegisterModels[i] # "put"
  /\ WellFormed(<<"put">> \o RegisterModels) /\ EndsFresh(<<"put">> \o RegisterModels)
  /\ <<"put">> \o RegisterModels # <<>>
<1>1. ASSUME NEW p \in Seq(Sections), Len(p) = 5, p[1] = "register", p[2] = "supported",
             p[3] = "reconcile", p[4] = "reread", p[5] = "upsert"
      PROVE  WellFormed(p) /\ EndsFresh(p) /\ p # <<>> /\ \A i \in 1 .. Len(p) : p[i] # "put"
  BY <1>1 DEF WellFormed, InPlace, EndsFresh
<1>2. ASSUME NEW p \in Seq(Sections), Len(p) = 6, p[1] = "put", p[2] = "register",
             p[3] = "supported", p[4] = "reconcile", p[5] = "reread", p[6] = "upsert"
      PROVE  WellFormed(p) /\ EndsFresh(p) /\ p # <<>>
  BY <1>2 DEF WellFormed, InPlace, EndsFresh
<1> QED BY <1>1, <1>2, RegisterModelsSections

LEMMA RefreshModelsWellFormed ==
  /\ WellFormed(RefreshModels) /\ EndsFresh(RefreshModels) /\ RefreshModels # <<>>
  /\ \A i \in 1 .. Len(RefreshModels) : RefreshModels[i] # "put"
  /\ WellFormed(<<"unregister">> \o RefreshEntry) /\ EndsFresh(<<"unregister">> \o RefreshEntry)
  /\ <<"unregister">> \o RefreshEntry # <<>>
  /\ \A i \in 1 .. Len(<<"unregister">> \o RefreshEntry) :
       /\ (<<"unregister">> \o RefreshEntry)[i] \notin {"put", "register"}
       /\ i = 1 => (<<"unregister">> \o RefreshEntry)[i] # "upsert"
<1>1. ASSUME NEW p \in Seq(Sections), Len(p) = 4, p[1] = "register", p[2] = "supported",
             p[3] = "reconcile", p[4] = "latest"
      PROVE  WellFormed(p) /\ EndsFresh(p) /\ p # <<>> /\ \A i \in 1 .. Len(p) : p[i] # "put"
  <2>1. EndsFresh(p) /\ p # <<>>
    BY <1>1 DEF EndsFresh
  <2>2. \A i \in 1 .. 4 :
          /\ i = 1 \/ i = 2 \/ i = 3 \/ i = 4
          /\ p[i] \in {"register", "supported", "reconcile", "latest"}
          /\ p[i] = "latest" => i = 4
    BY <1>1
  <2>3. \A i \in 1 .. 4 : InPlace(p, i) /\ p[i] # "put"
    BY <1>1, <2>1, <2>2 DEF InPlace
  <2> QED BY <1>1, <2>1, <2>3 DEF WellFormed
<1>2. ASSUME NEW p \in Seq(Sections), Len(p) = 3, p[1] = "unregister", p[2] = "reread", p[3] = "upsert"
      PROVE  /\ WellFormed(p) /\ EndsFresh(p) /\ p # <<>>
             /\ \A i \in 1 .. Len(p) : p[i] \notin {"put", "register"} /\ (i = 1 => p[i] # "upsert")
  BY <1>2 DEF WellFormed, InPlace, EndsFresh
<1> QED BY <1>1, <1>2, RefreshModelsSections

LEMMA RemovalWellFormed ==
  /\ WellFormed(Removal) /\ Removal # <<>>
  /\ \A i \in 1 .. Len(Removal) : Removal[i] \notin {"put", "register", "upsert"}
<1>1. ASSUME NEW p \in Seq(Sections), Len(p) = 5, p[1] = "unregister", p[2] = "delete",
             p[3] = "unschedule", p[4] = "records", p[5] = "save"
      PROVE  /\ WellFormed(p) /\ p # <<>>
             /\ \A i \in 1 .. Len(p) : p[i] \notin {"put", "register", "upsert"}
  BY <1>1 DEF WellFormed, InPlace
<1> QED BY <1>1, RemovalSections

LEMMA OnlyPutWellFormed ==
  WellFormed(<<"put">>) /\ <<"put">> # <<>> /\ WellFormed(<<>>)
<1>1. ASSUME NEW p \in Seq(Sections), Len(p) = 1, p[1] = "put" PROVE WellFormed(p)
  BY <1>1 DEF WellFormed, InPlace
<1>2. WellFormed(<<>>)
  BY DEF WellFormed
<1> QED BY <1>1, <1>2, OnlyPutSections

\* The program without its first section.
LEMMA RestOfProgram ==
  ASSUME NEW p \in Seq(Sections), p # <<>>
  PROVE  /\ Tail(p) \in Seq(Sections) /\ Len(Tail(p)) = Len(p) - 1 /\ Len(p) \in Nat
         /\ \A i \in 1 .. Len(Tail(p)) : i + 1 \in 1 .. Len(p) /\ Tail(p)[i] = p[i + 1]
         /\ Head(p) = p[1] /\ 1 \in 1 .. Len(p)
BY HeadTailProperties

LEMMA RestEndsFresh ==
  ASSUME NEW p \in Seq(Sections), p # <<>>, EndsFresh(p), p[1] \notin {"reread", "latest"}
  PROVE  EndsFresh(Tail(p)) /\ Len(p) > 1 /\ Tail(p) # <<>>
<1> DEFINE n == Len(p)
           q == Tail(p)
<1>1. /\ n \in Nat /\ n > 0 /\ Len(q) = n - 1 /\ q \in Seq(Sections)
      /\ \A i \in 1 .. n - 1 : q[i] = p[i + 1]
  BY RestOfProgram
<1>2. \/ p[n] = "latest"
      \/ n > 1 /\ p[n - 1] = "reread" /\ p[n] = "upsert"
  BY DEF EndsFresh
<1>3. p[1] # "reread" /\ p[1] # "latest"
  OBVIOUS
<1> HIDE DEF n, q
<1>4. n > 1
  BY <1>1, <1>2, <1>3
<1>5. q[n - 1] = p[n]
  BY <1>1, <1>4
<1>6. p[n - 1] = "reread" => n > 2 /\ q[n - 2] = p[n - 1]
  BY <1>1, <1>3, <1>4
<1>7. q # <<>>
  BY <1>1, <1>4
<1>8. \/ q[Len(q)] = "latest"
      \/ Len(q) > 1 /\ q[Len(q) - 1] = "reread" /\ q[Len(q)] = "upsert"
  BY <1>1, <1>2, <1>4, <1>5, <1>6
<1>9. EndsFresh(q)
  BY <1>7, <1>8 DEF EndsFresh
<1> QED BY <1>4, <1>7, <1>9 DEF n, q

\* What is left of a well-formed program is well formed and has no "put" in it; a
\* snapshot is not sent at its head unless it has just been taken.
LEMMA RestWellFormed ==
  ASSUME NEW p, WellFormed(p), p # <<>>, p[1] # "reread"
  PROVE  /\ WellFormed(Tail(p))
         /\ \A i \in 1 .. Len(Tail(p)) :
              /\ Tail(p)[i] # "put"
              /\ i = 1 => Tail(p)[i] # "upsert"
              /\ Tail(p)[i] = p[i + 1] /\ i + 1 \in 1 .. Len(p)
<1> DEFINE q == Tail(p)
<1>1. /\ p \in Seq(Sections) /\ q \in Seq(Sections)
      /\ Len(p) \in Nat /\ Len(p) > 0 /\ Len(q) = Len(p) - 1
      /\ \A i \in 1 .. Len(q) : i + 1 \in 1 .. Len(p) /\ q[i] = p[i + 1]
  BY RestOfProgram DEF WellFormed
<1>2. \A i \in 1 .. Len(p) : InPlace(p, i)
  BY DEF WellFormed
<1>3. EndsFresh(p) /\ p[1] # "latest" => EndsFresh(q)
  BY <1>1, RestEndsFresh
<1> HIDE DEF q
<1>4. p[1] = "latest" => Len(q) = 0
  <2>1. InPlace(p, 1)
    BY <1>1, <1>2
  <2>2. p[1] = "latest" => Len(p) = 1
    BY <2>1 DEF InPlace
  <2> QED BY <1>1, <2>2
<1>5. ASSUME NEW i \in 1 .. Len(q)
      PROVE  InPlace(q, i) /\ q[i] # "put" /\ (i = 1 => q[i] # "upsert")
  <2>1. /\ i \in Nat /\ i > 0 /\ i + 1 \in 1 .. Len(p) /\ q[i] = p[i + 1] /\ p[1] # "latest"
        /\ (i + 1) - 1 = i /\ i + 1 # 1
    BY <1>1, <1>4
  <2>2. InPlace(p, i + 1)
    BY <1>2, <2>1
  <2>3. q[i] # "put"
    BY <2>1, <2>2 DEF InPlace
  <2>4. q[i] = "upsert" => i # 1 /\ q[i - 1] = "reread"
    <3>1. p[i + 1] = "upsert" => p[i] = "reread"
      BY <2>1, <2>2 DEF InPlace
    <3>2. i # 1 => i - 1 \in 1 .. Len(q) /\ q[i - 1] = p[i]
      BY <1>1, <2>1
    <3> QED BY <2>1, <3>1, <3>2
  <2>5. q[i] = "reread" => i + 1 = Len(q) /\ q[i + 1] = "upsert"
    <3>1. ASSUME q[i] = "reread" PROVE i + 2 = Len(p) /\ p[i + 2] = "upsert"
      BY <2>1, <2>2, <3>1 DEF InPlace
    <3>2. ASSUME i + 2 = Len(p) PROVE i + 1 = Len(q) /\ q[i + 1] = p[i + 2]
      <4>1. i + 1 \in 1 .. Len(q) /\ i + 1 = Len(q) /\ (i + 1) + 1 = i + 2
        BY <1>1, <2>1, <3>2
      <4> QED BY <1>1, <4>1
    <3> QED BY <3>1, <3>2
  <2>6. q[i] = "latest" => i = Len(q)
    BY <1>1, <2>1, <2>2 DEF InPlace
  <2>7. q[i] \in {"register", "supported", "reconcile"} => EndsFresh(q)
    BY <1>3, <2>1, <2>2 DEF InPlace
  <2>8. q[i] = "unregister" => EndsFresh(q) \/ (i < Len(q) /\ q[i + 1] = "delete")
    <3>1. ASSUME i + 1 < Len(p) PROVE i < Len(q) /\ q[i + 1] = p[i + 2]
      <4>1. i + 1 \in 1 .. Len(q) /\ i < Len(q) /\ (i + 1) + 1 = i + 2
        BY <1>1, <2>1, <3>1
      <4> QED BY <1>1, <4>1
    <3>2. (i + 1) + 1 = i + 2
      BY <2>1
    <3> QED BY <1>3, <2>1, <2>2, <3>1, <3>2 DEF InPlace
  <2> QED BY <2>3, <2>4, <2>5, <2>6, <2>7, <2>8 DEF InPlace
<1>6. WellFormed(q)
  BY <1>1, <1>5 DEF WellFormed
<1> QED BY <1>1, <1>5, <1>6 DEF q
\* A section may be replaced by a snapshot for the scheduler, followed by a save or
\* not, at the head of the program.
LEMMA ReplacedHead ==
  ASSUME NEW p, WellFormed(p), p # <<>>, p[1] \in {"put", "reconcile"},
         NEW h \in Seq(Sections), Len(h) \in {1, 3}, h[1] = "upsert",
         Len(h) = 3 => h[2] = "records" /\ h[3] = "save"
  PROVE  /\ WellFormed(h \o Tail(p)) /\ h \o Tail(p) # <<>>
         /\ EndsFresh(p) => EndsFresh(h \o Tail(p))
         /\ (h \o Tail(p))[1] = "upsert"
         /\ \A i \in 1 .. Len(h \o Tail(p)) :
              /\ (h \o Tail(p))[i] # "put"
              /\ (h \o Tail(p))[i] = "register" => \E j \in 1 .. Len(p) : p[j] = "register"
              /\ Len(p) = 1 => i = 1 \/ (h \o Tail(p))[i] \in {"records", "save"}
<1> DEFINE q == Tail(p)
           r == h \o q
           n == Len(h) - 1
<1>1. /\ p \in Seq(Sections) /\ q \in Seq(Sections)
      /\ Len(p) \in Nat /\ Len(p) > 0 /\ Len(q) = Len(p) - 1
      /\ \A i \in 1 .. Len(q) : i + 1 \in 1 .. Len(p) /\ q[i] = p[i + 1]
  BY RestOfProgram DEF WellFormed
<1>2. /\ r \in Seq(Sections) /\ Len(r) = Len(h) + Len(q)
      /\ \A i \in 1 .. Len(h) + Len(q) : r[i] = IF i <= Len(h) THEN h[i] ELSE q[i - Len(h)]
  BY <1>1, ConcatProperties
<1>3. \A i \in 1 .. Len(p) : InPlace(p, i)
  BY DEF WellFormed
<1> HIDE DEF q, r
<1>4. n \in {0, 2} /\ Len(h) = n + 1
  OBVIOUS
<1> HIDE DEF n
<1>5. /\ Len(r) = Len(p) + n /\ Len(r) \in Nat /\ r[1] = "upsert" /\ 1 \in 1 .. Len(r)
      /\ n = 2 => r[2] = "records" /\ r[3] = "save"
  <2>1. Len(h) \in Nat /\ Len(h) > 0 /\ Len(p) - 1 \in Nat
    BY <1>1, <1>4
  <2>2. Len(r) = Len(p) + n /\ Len(r) \in Nat /\ 1 \in 1 .. Len(r)
    BY <1>1, <1>2, <1>4, <2>1
  <2>3. ASSUME NEW i \in 1 .. Len(h) PROVE r[i] = h[i]
    <3>1. i \in 1 .. Len(h) + Len(q) /\ i <= Len(h)
      BY <1>1, <2>1
    <3> QED BY <1>2, <3>1
  <2>4. r[1] = "upsert"
    BY <2>1, <2>3
  <2>5. ASSUME n = 2 PROVE r[2] = "records" /\ r[3] = "save"
    <3>1. Len(h) = 3
      BY <1>4, <2>5
    <3>2. r[2] = h[2] /\ r[3] = h[3]
      BY <2>3, <3>1
    <3> QED BY <3>1, <3>2
  <2> QED BY <2>2, <2>4, <2>5
<1>6. ASSUME NEW i \in 2 .. Len(p) PROVE r[i + n] = p[i]
  <2>1. i - 1 \in 1 .. Len(q) /\ (i - 1) + 1 = i
    BY <1>1
  <2>2. i + n \in 1 .. Len(h) + Len(q) /\ ~(i + n <= Len(h)) /\ (i + n) - Len(h) = i - 1
    BY <1>1, <1>4
  <2>3. r[i + n] = q[i - 1]
    BY <1>2, <2>2
  <2> QED BY <1>1, <2>1, <2>3
<1>7. r # <<>>
  BY <1>5
<1>8. ASSUME EndsFresh(p) PROVE EndsFresh(r)
  <2>1. \/ p[Len(p)] = "latest"
        \/ Len(p) > 1 /\ p[Len(p) - 1] = "reread" /\ p[Len(p)] = "upsert"
    BY <1>8 DEF EndsFresh
  <2>2. Len(p) > 1
    BY <1>1, <2>1
  <2>3. r[Len(r)] = p[Len(p)]
    <3>1. Len(p) \in 2 .. Len(p)
      BY <1>1, <2>2
    <3>2. r[Len(p) + n] = p[Len(p)]
      BY <1>6, <3>1
    <3> QED BY <1>5, <3>2
  <2>4. p[Len(p) - 1] = "reread" => Len(r) > 1 /\ r[Len(r) - 1] = p[Len(p) - 1]
    <3>1. ASSUME p[Len(p) - 1] = "reread"
          PROVE  Len(p) - 1 \in 2 .. Len(p) /\ (Len(p) - 1) + n = Len(r) - 1 /\ Len(r) > 1
      <4>1. Len(p) - 1 # 1
        BY <3>1
      <4> QED BY <1>1, <1>4, <1>5, <2>2, <4>1
    <3>2. Len(p) - 1 \in 2 .. Len(p) => r[(Len(p) - 1) + n] = p[Len(p) - 1]
      BY <1>6
    <3> QED BY <3>1, <3>2
  <2> QED BY <1>7, <2>1, <2>3, <2>4 DEF EndsFresh
<1>9. ASSUME NEW i \in 2 .. Len(p)
      PROVE  /\ InPlace(r, i + n) /\ p[i] # "put"
  <2>1. i \in 1 .. Len(p) /\ i \in Nat /\ i > 1 /\ r[i + n] = p[i] /\ i + n \in Nat /\ InPlace(p, i)
    BY <1>1, <1>3, <1>4, <1>6
  <2>2. p[i] # "put"
    BY <2>1 DEF InPlace
  <2>3. p[i] = "upsert" => r[(i + n) - 1] = "reread"
    <3>1. ASSUME p[i] = "upsert" PROVE p[i - 1] = "reread"
      BY <2>1, <3>1 DEF InPlace
    <3>2. ASSUME p[i - 1] = "reread" PROVE i - 1 \in 2 .. Len(p) /\ (i - 1) + n = (i + n) - 1
      <4>1. i - 1 # 1
        BY <3>2
      <4> QED BY <1>4, <2>1, <4>1
    <3>3. ASSUME i - 1 \in 2 .. Len(p) PROVE r[(i - 1) + n] = p[i - 1]
      BY <1>6, <3>3
    <3> QED BY <3>1, <3>2, <3>3
  <2>4. ASSUME i + 1 <= Len(p) PROVE (i + n) + 1 <= Len(r) /\ r[(i + n) + 1] = p[i + 1]
    <3>1. i + 1 \in 2 .. Len(p) /\ (i + 1) + n = (i + n) + 1
      BY <1>4, <2>1, <2>4
    <3>2. r[(i + 1) + n] = p[i + 1]
      BY <1>6, <3>1
    <3> QED BY <1>1, <1>4, <1>5, <2>1, <2>4, <3>1, <3>2
  <2>5. p[i] = "reread" => (i + n) + 1 = Len(r) /\ r[(i + n) + 1] = "upsert"
    <3>1. ASSUME p[i] = "reread" PROVE i + 1 = Len(p) /\ p[i + 1] = "upsert"
      BY <2>1, <3>1 DEF InPlace
    <3>2. i + 1 = Len(p) => (i + n) + 1 = Len(r)
      BY <1>1, <1>4, <1>5, <2>1
    <3>3. i + 1 = Len(p) => i + 1 <= Len(p)
      BY <1>1
    <3> QED BY <2>4, <3>1, <3>2, <3>3
  <2>6. p[i] = "latest" => i + n = Len(r)
    <3>1. p[i] = "latest" => i = Len(p)
      BY <2>1 DEF InPlace
    <3> QED BY <1>5, <3>1
  <2>7. p[i] \in {"register", "supported", "reconcile"} => EndsFresh(r)
    <3>1. p[i] \in {"register", "supported", "reconcile"} => EndsFresh(p)
      BY <2>1 DEF InPlace
    <3> QED BY <1>8, <3>1
  <2>8. p[i] = "unregister" => EndsFresh(r) \/ (i + n < Len(r) /\ r[(i + n) + 1] = "delete")
    <3>1. p[i] = "unregister" => EndsFresh(p) \/ (i < Len(p) /\ p[i + 1] = "delete")
      BY <2>1 DEF InPlace
    <3>2. i < Len(p) => i + 1 <= Len(p) /\ i + n < Len(r)
      BY <1>1, <1>4, <1>5, <2>1
    <3> QED BY <1>8, <2>4, <3>1, <3>2
  <2> QED BY <2>1, <2>2, <2>3, <2>5, <2>6, <2>7, <2>8 DEF InPlace
<1>10. \A i \in 1 .. Len(r) : i <= n + 1 \/ (i - n \in 2 .. Len(p) /\ (i - n) + n = i)
  BY <1>1, <1>4, <1>5
<1>11. \A i \in 1 .. Len(r) : i <= n + 1 => i = 1 \/ (n = 2 /\ (i = 2 \/ i = 3))
  BY <1>4, <1>5
<1>12. \A i \in 1 .. Len(r) : i <= n + 1 => InPlace(r, i) /\ r[i] \notin {"put", "register"}
  BY <1>5, <1>11 DEF InPlace
<1>13. WellFormed(r)
  BY <1>2, <1>9, <1>10, <1>12 DEF WellFormed
<1>14. ASSUME NEW i \in 1 .. Len(r)
       PROVE  r[i] # "put" /\ (r[i] = "register" => \E j \in 1 .. Len(p) : p[j] = "register")
  <2>1. CASE i <= n + 1
    BY <1>12, <2>1
  <2>2. CASE ~(i <= n + 1)
    <3>1. i - n \in 2 .. Len(p) /\ (i - n) + n = i /\ i - n \in 1 .. Len(p)
      BY <1>1, <1>4, <1>10, <2>2
    <3>2. r[i] = p[i - n] /\ p[i - n] # "put"
      BY <1>6, <1>9, <3>1
    <3> QED BY <3>1, <3>2
  <2> QED BY <2>1, <2>2
<1>15. ASSUME NEW i \in 1 .. Len(r), Len(p) = 1 PROVE i = 1 \/ r[i] \in {"records", "save"}
  <2>1. i <= n + 1
    BY <1>4, <1>5, <1>15
  <2> QED BY <1>5, <1>11, <2>1
<1> QED BY <1>5, <1>7, <1>8, <1>13, <1>14, <1>15 DEF q, r
-----------------------------------------------------------------------------
(* One thread goes on, all others are left alone.                          *)

LEMMA NoLocalTyped == NoLocal \in LocalRecords
BY DEF NoLocal, LocalRecords

LEMMA IdleThreaded ==
  ASSUME NEW t PROVE Threaded(t, <<>>, NoLocal)
<1>1. WellFormed(<<>>) /\ Len(<<>>) = 0
  BY OnlyPutWellFormed
<1> QED BY <1>1, NoLocalTyped DEF Threaded, InHand, Known

LEMMA StartTyped ==
  ASSUME ManagerTyped, NEW t \in Threads, NEW p, NEW l, Threaded(t, p, l), Begin(t, p, l)
  PROVE  Programmed' /\ solo' \in Threads \union {NoAuth}
<1>1. todo' = [todo EXCEPT ![t] = p] /\ local' = [local EXCEPT ![t] = l]
  BY DEF Begin
<1>2. /\ todo' = [u \in Threads |-> todo'[u]]
      /\ local' = [u \in Threads |-> local'[u]]
  BY <1>1 DEF ManagerTyped, Programmed
<1>3. ASSUME NEW u \in Threads PROVE Threaded(u, todo'[u], local'[u])
  <2>1. CASE u = t
    <3>1. todo'[u] = p /\ local'[u] = l
      BY <1>1, <2>1 DEF ManagerTyped, Programmed
    <3> QED BY <2>1, <3>1
  <2>2. CASE u # t
    <3>1. todo'[u] = todo[u] /\ local'[u] = local[u]
      BY <1>1, <2>2 DEF ManagerTyped, Programmed
    <3> QED BY <3>1 DEF ManagerTyped, Programmed
  <2> QED BY <2>1, <2>2
<1>4. solo' \in Threads \union {NoAuth}
  BY DEF Begin
<1> QED BY <1>2, <1>3, <1>4 DEF Programmed

LEMMA GotoTyped ==
  ASSUME ManagerTyped, NEW t \in Threads, NEW p, NEW l, p = <<>> \/ Threaded(t, p, l), Goto(t, p, l)
  PROVE  Programmed' /\ solo' \in Threads \union {NoAuth}
<1> DEFINE m == IF p = <<>> THEN NoLocal ELSE l
<1>1. todo' = [todo EXCEPT ![t] = p] /\ local' = [local EXCEPT ![t] = m]
  BY DEF Goto
<1>2. /\ todo' = [u \in Threads |-> todo'[u]]
      /\ local' = [u \in Threads |-> local'[u]]
  BY <1>1 DEF ManagerTyped, Programmed
<1>3. Threaded(t, p, m)
  BY IdleThreaded
<1> HIDE DEF m
<1>4. ASSUME NEW u \in Threads PROVE Threaded(u, todo'[u], local'[u])
  <2>1. CASE u = t
    <3>1. todo'[u] = p /\ local'[u] = m
      BY <1>1, <2>1 DEF ManagerTyped, Programmed
    <3> QED BY <1>3, <2>1, <3>1
  <2>2. CASE u # t
    <3>1. todo'[u] = todo[u] /\ local'[u] = local[u]
      BY <1>1, <2>2 DEF ManagerTyped, Programmed
    <3> QED BY <3>1 DEF ManagerTyped, Programmed
  <2> QED BY <2>1, <2>2
<1>5. solo' \in Threads \union {NoAuth}
  BY DEF Goto, ManagerTyped, ViewType
<1> QED BY <1>2, <1>4, <1>5 DEF Programmed

\* A thread that goes on to its next section, with a credential in hand if it had one.
LEMMA RestThreaded ==
  ASSUME NEW t, NEW p, NEW l, Threaded(t, p, l), p # <<>>, p[1] # "reread",
         NEW m \in LocalRecords, l.auth # NoAuth => m.auth # NoAuth
  PROVE  Threaded(t, Tail(p), m)
<1> DEFINE q == Tail(p)
<1>1. WellFormed(p) /\ InHand(p, l)
  BY DEF Threaded
<1>2. /\ WellFormed(q)
      /\ \A i \in 1 .. Len(q) :
           /\ q[i] # "put" /\ (i = 1 => q[i] # "upsert")
           /\ q[i] = p[i + 1] /\ i + 1 \in 1 .. Len(p)
  BY <1>1, RestWellFormed
<1>3. q # <<>> => 1 \in 1 .. Len(q)
  BY <1>2, RestOfProgram DEF WellFormed
<1> HIDE DEF q
<1>4. InHand(q, m)
  BY <1>1, <1>2 DEF InHand
<1>5. Known(t, q, m)
  BY <1>2, <1>3 DEF Known
<1> QED BY <1>2, <1>4, <1>5 DEF Threaded, q

\* A thread at some section, as the invariant has it.
LEMMA Working ==
  ASSUME ManagerTyped, NEW t \in Threads, NEW s, At(t, s)
  PROVE  /\ todo[t] # <<>> /\ todo[t] \in Seq(Sections) /\ todo[t][1] = s
         /\ Len(todo[t]) \in Nat /\ 1 \in 1 .. Len(todo[t])
         /\ local[t] \in LocalRecords
         /\ Threaded(t, todo[t], local[t]) /\ WellFormed(todo[t]) /\ InPlace(todo[t], 1)
         /\ s \in {"put", "upsert", "register"} => local[t].auth \in Credential /\ local[t].auth # NoAuth
<1>1. /\ todo[t] # <<>> /\ Head(todo[t]) = s /\ Threaded(t, todo[t], local[t])
  BY DEF At, Idle, ManagerTyped, Programmed
<1>2. todo[t] \in Seq(Sections) /\ local[t] \in LocalRecords /\ InHand(todo[t], local[t]) /\ WellFormed(todo[t])
  BY <1>1 DEF Threaded, WellFormed
<1>3. 1 \in 1 .. Len(todo[t]) /\ todo[t][1] = s /\ Len(todo[t]) \in Nat
  BY <1>1, <1>2, RestOfProgram
<1>4. InPlace(todo[t], 1)
  BY <1>2, <1>3 DEF WellFormed
<1>5. local[t].auth \in Credential \union {NoAuth}
  BY <1>2 DEF LocalRecords
<1>6. s \in {"put", "upsert", "register"} => local[t].auth # NoAuth
  BY <1>2, <1>3 DEF InHand
<1> QED BY <1>1, <1>2, <1>3, <1>4, <1>5, <1>6

\* Most sections only go on.
LEMMA ContinueTyped ==
  ASSUME ManagerTyped, NEW t \in Threads, NEW s, At(t, s), s # "reread",
         NEW m \in LocalRecords, local[t].auth # NoAuth => m.auth # NoAuth, Goto(t, Tail(todo[t]), m)
  PROVE  Programmed' /\ solo' \in Threads \union {NoAuth}
<1>1. Threaded(t, Tail(todo[t]), m)
  BY Working, RestThreaded
<1> QED BY <1>1, GotoTyped
-----------------------------------------------------------------------------
(* Types.                                                                  *)

LEMMA NilIsNoCredential == NoAuth \notin Credential
BY ManagerAssumption DEF Credential, States, CoolingStates

LEMMA ScheduledTyped ==
  ASSUME ViewType, NEW a \in Credential
  PROVE  Scheduled(a) \in [ms : States, supports : BOOLEAN] \union {NoAuth}
BY DEF Scheduled, ViewType, Credential

LEMMA RegisteredTyped ==
  ASSUME ViewType, NEW a
  PROVE  /\ Registered(a) \in [bound : BOOLEAN, quota : BOOLEAN, susp : BOOLEAN]
         /\ Unbound \in [bound : BOOLEAN, quota : BOOLEAN, susp : BOOLEAN]
BY DEF Registered, Unbound, ViewType

LEMMA InheritedTyped ==
  ASSUME NEW a \in Credential, NEW old \in Credential
  PROVE  Inherited(a, old) \in Credential /\ Inherited(a, old).disabled = a.disabled
BY DEF Inherited, Credential, States, CoolingStates

LEMMA ClearedTyped ==
  ASSUME NEW a \in Credential
  PROVE  ClearedIfDisabled(a) \in Credential /\ ClearedIfDisabled(a).disabled = a.disabled
BY DEF ClearedIfDisabled, Credential, States, CoolingStates

\* A program starts.
LEMMA RecordedTyped ==
  ASSUME NEW a \in Credential, NEW result \in Results
  PROVE  /\ Recorded(a, result) \in Credential /\ Recorded(a, result).disabled = a.disabled
         /\ result # "request" => Recorded(a, result).ms = StateAfter(result)
<1>1. result # "request" => StateAfter(result) \in States
  BY ManagerAssumption DEF StateAfter, AllResults, States, CoolingStates
<1> QED BY <1>1 DEF Recorded, Credential

LEMMA MarkResultTyped ==
  ASSUME ManagerTyped, NEW t \in Requests, NEW result \in Results, MarkResult(t, result)
  PROVE  ManagerTyped'
<1> DEFINE a == Recorded(auths, result)
           changed == result # "request" /\ (HasRecord(auths) \/ HasRecord(a))
           p == AfterResult(changed, result)
           l == [NoLocal EXCEPT !.auth = a, !.result = result]
<1>1. /\ auths # NoAuth /\ auths' = a /\ Begin(t, p, l)
      /\ UNCHANGED <<sched, reg, disk, off>>
  BY DEF MarkResult
<1>2. t \in Threads
  BY DEF Threads
<1>3. a \in Credential /\ a # NoAuth
  <2>1. auths \in Credential
    BY <1>1 DEF ManagerTyped, ViewType
  <2>2. a \in Credential
    BY <2>1, RecordedTyped
  <2> QED BY <2>2, NilIsNoCredential
<1> HIDE DEF a
<1>4. l \in LocalRecords /\ l.auth # NoAuth
  BY <1>3 DEF NoLocal, LocalRecords
<1>5. changed \in BOOLEAN
  BY DEF HasRecord
<1> HIDE DEF changed, l
<1>6. Threaded(t, p, l)
  <2>1. /\ WellFormed(p) /\ p[1] = "upsert"
        /\ \A i \in 1 .. Len(p) : p[i] \notin {"put", "register"}
    BY <1>5, AfterResultWellFormed
  <2> HIDE DEF p
  <2> QED BY <1>4, <2>1 DEF Threaded, InHand, Known
<1> HIDE DEF p
<1>7. Programmed' /\ solo' \in Threads \union {NoAuth}
  BY <1>1, <1>2, <1>6, StartTyped
<1>8. ViewType'
  BY <1>1, <1>3, <1>7 DEF ManagerTyped, ViewType
<1> QED BY <1>7, <1>8 DEF ManagerTyped

\* The programs that begin with nothing written.
LEMMA PassiveStart ==
  ASSUME ManagerTyped, NEW t \in Threads, NEW p, NEW l, Threaded(t, p, l), Begin(t, p, l),
         UNCHANGED <<auths, sched, reg, disk, off>>
  PROVE  ManagerTyped'
<1>1. Programmed' /\ solo' \in Threads \union {NoAuth}
  BY StartTyped
<1>2. ViewType'
  BY <1>1 DEF ManagerTyped, ViewType
<1> QED BY <1>1, <1>2 DEF ManagerTyped

LEMMA OnlyPutThreaded ==
  ASSUME NEW t, NEW l \in LocalRecords, l.auth # NoAuth, l.exists
  PROVE  Threaded(t, <<"put">>, l)
BY OnlyPutWellFormed DEF Threaded, InHand, Known

LEMMA StartRefreshTyped ==
  ASSUME ManagerTyped, "refresh" \in Threads, StartRefresh("refresh")
  PROVE  ManagerTyped'
<1> DEFINE l == [NoLocal EXCEPT !.auth = auths, !.exists = TRUE]
<1>1. /\ auths # NoAuth /\ Begin("refresh", <<"put">>, l)
      /\ UNCHANGED <<auths, sched, reg, disk, off>>
  BY DEF StartRefresh
<1>2. l \in LocalRecords /\ l.auth # NoAuth /\ l.exists
  BY <1>1 DEF ManagerTyped, ViewType, NoLocal, LocalRecords
<1> HIDE DEF l
<1> QED BY <1>1, <1>2, OnlyPutThreaded, PassiveStart

LEMMA StartPatchTyped ==
  ASSUME ManagerTyped, "admin" \in Threads, NEW d \in BOOLEAN, StartPatch("admin", d)
  PROVE  ManagerTyped'
<1> DEFINE a == [auths EXCEPT !.disabled = d]
           l == [NoLocal EXCEPT !.auth = a, !.exists = TRUE]
<1>1. /\ auths # NoAuth /\ Begin("admin", <<"put">>, l)
      /\ UNCHANGED <<auths, sched, reg, disk, off>>
  BY DEF StartPatch
<1>2. a \in Credential /\ a # NoAuth
  <2>1. a \in Credential
    BY <1>1 DEF ManagerTyped, ViewType, Credential
  <2> QED BY <2>1, NilIsNoCredential
<1> HIDE DEF a
<1>3. l \in LocalRecords /\ l.auth # NoAuth /\ l.exists
  BY <1>2 DEF NoLocal, LocalRecords
<1> HIDE DEF l
<1> QED BY <1>1, <1>3, OnlyPutThreaded, PassiveStart

LEMMA StartAddTyped ==
  ASSUME ManagerTyped, "service" \in Threads, NEW d \in BOOLEAN, StartAdd("service", d)
  PROVE  ManagerTyped'
<1> DEFINE a == [disabled |-> d, ms |-> "none"]
           b == IF auths = NoAuth THEN a ELSE Inherited(a, auths)
           l == [NoLocal EXCEPT !.auth = b, !.exists = auths # NoAuth]
<1>1. /\ Begin("service", <<"put">> \o RegisterModels, l)
      /\ UNCHANGED <<auths, sched, reg, disk, off>>
  BY DEF StartAdd
<1>2. b \in Credential /\ b # NoAuth
  <2>1. a \in Credential
    BY DEF Credential, States, CoolingStates
  <2> HIDE DEF a
  <2>2. auths # NoAuth => auths \in Credential
    BY DEF ManagerTyped, ViewType
  <2>3. b \in Credential
    BY <2>1, <2>2, InheritedTyped
  <2> QED BY <2>3, NilIsNoCredential
<1> HIDE DEF b
<1>3. l \in LocalRecords /\ l.auth # NoAuth
  BY <1>2 DEF NoLocal, LocalRecords
<1> HIDE DEF l
<1>4. Threaded("service", <<"put">> \o RegisterModels, l)
  <2>1. WellFormed(<<"put">> \o RegisterModels)
    BY RegisterModelsWellFormed
  <2> QED BY <1>3, <2>1 DEF Threaded, InHand, Known
<1> QED BY <1>1, <1>4, PassiveStart

LEMMA StartRemoveTyped ==
  ASSUME ManagerTyped, "service" \in Threads, StartRemove("service")
  PROVE  ManagerTyped'
<1>1. Begin("service", Removal, NoLocal) /\ UNCHANGED <<auths, sched, reg, disk, off>>
  BY DEF StartRemove
<1>2. Threaded("service", Removal, NoLocal)
  <2>1. /\ WellFormed(Removal)
        /\ \A i \in 1 .. Len(Removal) : Removal[i] \notin {"put", "register", "upsert"}
    BY RemovalWellFormed
  <2> QED BY <2>1, NoLocalTyped DEF Threaded, InHand, Known
<1> QED BY <1>1, <1>2, PassiveStart

LEMMA StartModelsTyped ==
  ASSUME ManagerTyped, "models" \in Threads, StartModels("models")
  PROVE  ManagerTyped'
<1> DEFINE l == [NoLocal EXCEPT !.auth = auths]
<1>1. /\ auths # NoAuth /\ Begin("models", RefreshModels, l)
      /\ UNCHANGED <<auths, sched, reg, disk, off>>
  BY DEF StartModels
<1>2. l \in LocalRecords /\ l.auth # NoAuth
  BY <1>1 DEF ManagerTyped, ViewType, NoLocal, LocalRecords
<1> HIDE DEF l
<1>3. Threaded("models", RefreshModels, l)
  <2>1. /\ WellFormed(RefreshModels) /\ RefreshModels # <<>>
        /\ \A i \in 1 .. Len(RefreshModels) : RefreshModels[i] # "put"
    BY RefreshModelsWellFormed
  <2>2. RefreshModels[1] = "register"
    BY RefreshModelsSections
  <2> QED BY <1>2, <2>1, <2>2 DEF Threaded, InHand, Known
<1> QED BY <1>1, <1>3, PassiveStart

LEMMA StartsTyped ==
  ASSUME ManagerTyped, Start PROVE ManagerTyped'
<1>1. \A t \in Operators : t \in Threads
  BY DEF Threads
<1>2. CASE \E t \in Requests, result \in Results : MarkResult(t, result)
  BY <1>2, MarkResultTyped
<1>3. CASE May("refresh", "refresh") /\ StartRefresh("refresh")
  BY <1>1, <1>3, StartRefreshTyped DEF May
<1>4. CASE May("admin", "patch") /\ \E d \in BOOLEAN : StartPatch("admin", d)
  BY <1>1, <1>4, StartPatchTyped DEF May
<1>5. CASE May("service", "add") /\ \E d \in BOOLEAN : StartAdd("service", d)
  BY <1>1, <1>5, StartAddTyped DEF May
<1>6. CASE May("service", "remove") /\ StartRemove("service")
  BY <1>1, <1>6, StartRemoveTyped DEF May
<1>7. CASE May("models", "models") /\ StartModels("models")
  BY <1>1, <1>7, StartModelsTyped DEF May
<1> QED BY <1>2, <1>3, <1>4, <1>5, <1>6, <1>7 DEF Start
\* A section of a running program.
LEMMA PutTyped ==
  ASSUME ManagerTyped, NEW t \in Threads, Put(t)
  PROVE  ManagerTyped'
<1> DEFINE p == todo[t]
           a == IF local[t].exists THEN Inherited(local[t].auth, auths) ELSE local[t].auth
           b == ClearedIfDisabled(a)
           m == [local[t] EXCEPT !.auth = b]
<1>1. At(t, "put") /\ UNCHANGED <<sched, reg, disk>>
  BY DEF Put
<1>2. /\ p # <<>> /\ p[1] = "put" /\ local[t] \in LocalRecords /\ WellFormed(p) /\ Threaded(t, p, local[t])
      /\ local[t].auth \in Credential
  BY <1>1, Working
<1>3. CASE local[t].exists /\ auths = NoAuth
  <2>1. Goto(t, Tail(p), local[t]) /\ UNCHANGED <<auths, off>>
    BY <1>3 DEF Put, Continue
  <2>2. Programmed' /\ solo' \in Threads \union {NoAuth}
    BY <1>1, <1>2, <2>1, ContinueTyped
  <2> QED BY <1>1, <2>1, <2>2 DEF ManagerTyped, ViewType
<1>4. CASE ~(local[t].exists /\ auths = NoAuth)
  <2>1. /\ auths' = b /\ off' = (IF t = "refresh" THEN off ELSE b.disabled)
        /\ Goto(t, AfterPut(a # b) \o Tail(p), m)
    BY <1>4 DEF Put
  <2>2. a \in Credential
    <3>1. local[t].exists => auths \in Credential
      BY <1>4 DEF ManagerTyped, ViewType
    <3>2. CASE local[t].exists
      BY <1>2, <3>1, <3>2, InheritedTyped
    <3>3. CASE ~local[t].exists
      BY <1>2, <3>3
    <3> QED BY <3>2, <3>3
  <2> HIDE DEF a
  <2>3. b \in Credential /\ b # NoAuth
    BY <2>2, ClearedTyped, NilIsNoCredential
  <2>4. b.disabled \in BOOLEAN
    BY <2>3 DEF Credential
  <2> HIDE DEF b
  <2>5. m \in LocalRecords /\ m.auth # NoAuth
    BY <1>2, <2>3 DEF LocalRecords
  <2> HIDE DEF m
  <2>6. PICK h \in Seq(Sections) :
          /\ Len(h) \in {1, 3} /\ h[1] = "upsert" /\ (Len(h) = 3 => h[2] = "records" /\ h[3] = "save")
          /\ h = AfterPut(a # b)
    <3>1. CASE a # b
      <4>1. AfterPut(a # b) = AfterPut(TRUE)
        BY <3>1
      <4> QED BY <4>1, AfterPutSections
    <3>2. CASE a = b
      <4>1. AfterPut(a # b) = AfterPut(FALSE)
        BY <3>2
      <4> QED BY <4>1, AfterPutSections
    <3> QED BY <3>1, <3>2
  <2> HIDE DEF p
  <2>7. /\ WellFormed(h \o Tail(p)) /\ h \o Tail(p) # <<>> /\ (h \o Tail(p))[1] = "upsert"
        /\ \A i \in 1 .. Len(h \o Tail(p)) : (h \o Tail(p))[i] # "put"
    BY <1>2, <2>6, ReplacedHead
  <2>8. Threaded(t, h \o Tail(p), m)
    BY <2>5, <2>7 DEF Threaded, InHand, Known
  <2>9. Programmed' /\ solo' \in Threads \union {NoAuth}
    BY <2>1, <2>6, <2>8, GotoTyped
  <2>10. off' \in BOOLEAN
    BY <2>1, <2>4 DEF ManagerTyped, ViewType
  <2> QED BY <1>1, <2>1, <2>3, <2>9, <2>10 DEF ManagerTyped, ViewType
<1> QED BY <1>3, <1>4

LEMMA RefreshFailedTyped ==
  ASSUME ManagerTyped, NEW t \in Threads, RefreshFailed(t)
  PROVE  ManagerTyped'
<1>1. /\ At(t, "put") /\ sched' = (IF auths = NoAuth THEN sched ELSE Scheduled(auths))
      /\ Goto(t, Tail(todo[t]), local[t]) /\ UNCHANGED <<auths, reg, disk, off>>
  BY DEF RefreshFailed, Continue
<1>2. Programmed' /\ solo' \in Threads \union {NoAuth}
  BY <1>1, Working, ContinueTyped
<1>3. sched' \in [ms : States, supports : BOOLEAN] \union {NoAuth}
  <2>1. auths # NoAuth => auths \in Credential
    BY DEF ManagerTyped, ViewType
  <2>2. auths # NoAuth => Scheduled(auths) \in [ms : States, supports : BOOLEAN] \union {NoAuth}
    BY <2>1, ScheduledTyped DEF ManagerTyped
  <2> QED BY <1>1, <2>2 DEF ManagerTyped, ViewType
<1> QED BY <1>1, <1>2, <1>3 DEF ManagerTyped, ViewType

LEMMA RefreshCancelledTyped ==
  ASSUME ManagerTyped, NEW t \in Threads, RefreshCancelled(t)
  PROVE  ManagerTyped'
<1>1. /\ At(t, "put") /\ Goto(t, Tail(todo[t]), local[t]) /\ UNCHANGED <<auths, sched, reg, disk, off>>
  BY DEF RefreshCancelled, Continue
<1>2. Programmed' /\ solo' \in Threads \union {NoAuth}
  BY <1>1, Working, ContinueTyped
<1> QED BY <1>1, <1>2 DEF ManagerTyped, ViewType

LEMMA UpsertTyped ==
  ASSUME ManagerTyped, NEW t \in Threads, UpsertScheduler(t)
  PROVE  ManagerTyped'
<1>1. /\ At(t, "upsert") /\ sched' = Scheduled(local[t].auth)
      /\ Goto(t, Tail(todo[t]), local[t]) /\ UNCHANGED <<auths, reg, disk, off>>
  BY DEF UpsertScheduler, Continue
<1>2. Programmed' /\ solo' \in Threads \union {NoAuth}
  BY <1>1, Working, ContinueTyped
<1>3. sched' \in [ms : States, supports : BOOLEAN] \union {NoAuth}
  BY <1>1, Working, ScheduledTyped DEF ManagerTyped
<1> QED BY <1>1, <1>2, <1>3 DEF ManagerTyped, ViewType

\* What is left after "reread" is the snapshot's "upsert".
LEMMA RereadLeaves ==
  ASSUME NEW p, WellFormed(p), p # <<>>, p[1] = "reread"
  PROVE  /\ Tail(p) \in Seq(Sections) /\ Len(Tail(p)) = 1 /\ Tail(p) # <<>> /\ Tail(p)[1] = "upsert"
         /\ Tail(Tail(p)) = <<>> /\ WellFormed(Tail(p))
<1>1. p \in Seq(Sections) /\ 1 \in 1 .. Len(p)
  BY RestOfProgram DEF WellFormed
<1>2. InPlace(p, 1)
  BY <1>1 DEF WellFormed
<1>3. Len(p) = 2 /\ p[2] = "upsert"
  <2>1. 1 + 1 = Len(p) /\ p[1 + 1] = "upsert"
    BY <1>2 DEF InPlace
  <2> QED BY <2>1
<1> DEFINE q == Tail(p)
<1>4. q \in Seq(Sections) /\ Len(q) = 1 /\ q[1] = "upsert"
  <2>1. q \in Seq(Sections) /\ Len(q) = Len(p) - 1 /\ \A i \in 1 .. Len(q) : q[i] = p[i + 1]
    BY <1>1, RestOfProgram
  <2> HIDE DEF q
  <2>2. Len(q) = 1
    BY <1>3, <2>1
  <2>3. q[1] = p[1 + 1]
    <3>1. 1 \in 1 .. Len(q)
      BY <2>2
    <3> QED BY <2>1, <3>1
  <2> QED BY <1>3, <2>1, <2>2, <2>3
<1> HIDE DEF q
<1>5. q # <<>>
  BY <1>4
<1>6. Tail(q) = <<>>
  <2>1. Tail(q) \in Seq(Sections) /\ Len(Tail(q)) = Len(q) - 1
    BY <1>4, <1>5, RestOfProgram
  <2>2. Len(Tail(q)) = 0
    <3>1. Len(q) - 1 = 0
      BY <1>4
    <3> QED BY <2>1, <3>1
  <2> QED BY <2>1, <2>2, EmptySeq
<1>7. WellFormed(q)
  BY <1>4 DEF WellFormed, InPlace
<1> QED BY <1>4, <1>5, <1>6, <1>7 DEF q

LEMMA RereadTyped ==
  ASSUME ManagerTyped, NEW t \in Threads, Reread(t)
  PROVE  ManagerTyped'
<1> DEFINE m == [local[t] EXCEPT !.auth = auths]
<1>1. At(t, "reread") /\ UNCHANGED <<auths, sched, reg, disk, off>>
  BY DEF Reread
<1>2. /\ Tail(todo[t]) \in Seq(Sections) /\ Len(Tail(todo[t])) = 1 /\ Tail(todo[t])[1] = "upsert"
      /\ Tail(Tail(todo[t])) = <<>> /\ WellFormed(Tail(todo[t]))
  BY <1>1, Working, RereadLeaves
<1>3. Programmed' /\ solo' \in Threads \union {NoAuth}
  <2>1. CASE auths = NoAuth
    <3>1. Goto(t, Tail(Tail(todo[t])), local[t])
      BY <2>1 DEF Reread
    <3> QED BY <1>2, <3>1, GotoTyped
  <2>2. CASE auths # NoAuth
    <3>1. Goto(t, Tail(todo[t]), m)
      BY <2>2 DEF Reread
    <3>2. m \in LocalRecords /\ m.auth # NoAuth
      BY <1>1, <2>2, Working DEF ManagerTyped, ViewType, LocalRecords
    <3> HIDE DEF m
    <3>3. Threaded(t, Tail(todo[t]), m)
      BY <1>2, <3>2 DEF Threaded, InHand, Known
    <3> QED BY <3>1, <3>3, GotoTyped
  <2> QED BY <2>1, <2>2
<1> QED BY <1>1, <1>3 DEF ManagerTyped, ViewType
LEMMA RecordsTyped ==
  ASSUME ManagerTyped, NEW t \in Threads, TakeRecords(t) \/ SaveRecords(t) \/ ReadSupported(t)
  PROVE  ManagerTyped'
<1>1. CASE TakeRecords(t)
  <2> DEFINE m == [local[t] EXCEPT !.rec = HasRecord(auths)]
  <2>1. At(t, "records") /\ Goto(t, Tail(todo[t]), m) /\ UNCHANGED <<auths, sched, reg, disk, off>>
    BY <1>1 DEF TakeRecords
  <2>2. HasRecord(auths) \in BOOLEAN
    BY DEF HasRecord
  <2>3. m \in LocalRecords /\ m.auth = local[t].auth
    BY <2>1, <2>2, Working DEF LocalRecords
  <2> HIDE DEF m
  <2>4. Programmed' /\ solo' \in Threads \union {NoAuth}
    BY <2>1, <2>3, ContinueTyped
  <2> QED BY <2>1, <2>4 DEF ManagerTyped, ViewType
<1>2. CASE SaveRecords(t)
  <2>1. /\ At(t, "save") /\ Goto(t, Tail(todo[t]), local[t]) /\ disk' = local[t].rec
        /\ UNCHANGED <<auths, sched, reg, off>>
    BY <1>2 DEF SaveRecords, Continue
  <2>2. Programmed' /\ solo' \in Threads \union {NoAuth}
    BY <2>1, Working, ContinueTyped
  <2>3. disk' \in BOOLEAN
    BY <2>1, Working DEF LocalRecords
  <2> QED BY <2>1, <2>2, <2>3 DEF ManagerTyped, ViewType
<1>3. CASE ReadSupported(t)
  <2> DEFINE m == [local[t] EXCEPT !.supported = reg.bound]
  <2>1. At(t, "supported") /\ Goto(t, Tail(todo[t]), m) /\ UNCHANGED <<auths, sched, reg, disk, off>>
    BY <1>3 DEF ReadSupported
  <2>2. reg.bound \in BOOLEAN
    BY DEF ManagerTyped, ViewType
  <2>3. m \in LocalRecords /\ m.auth = local[t].auth
    BY <2>1, <2>2, Working DEF LocalRecords
  <2> HIDE DEF m
  <2>4. Programmed' /\ solo' \in Threads \union {NoAuth}
    BY <2>1, <2>3, ContinueTyped
  <2> QED BY <2>1, <2>4 DEF ManagerTyped, ViewType
<1> QED BY <1>1, <1>2, <1>3

LEMMA RegistryTyped ==
  ASSUME ManagerTyped, NEW t \in Threads,
         MarkQuota(t) \/ MarkSuspend(t) \/ RegisterClient(t) \/ UnregisterClient(t)
  PROVE  ManagerTyped'
<1>1. /\ Goto(t, Tail(todo[t]), local[t]) /\ UNCHANGED <<auths, sched, disk, off>>
      /\ \E s \in {"quota", "suspend", "register", "unregister"} : At(t, s)
  BY DEF MarkQuota, MarkSuspend, RegisterClient, UnregisterClient, Continue
<1>2. Programmed' /\ solo' \in Threads \union {NoAuth}
  BY <1>1, Working, ContinueTyped
<1>3. reg' \in [bound : BOOLEAN, quota : BOOLEAN, susp : BOOLEAN]
  <2>1. CASE MarkQuota(t)
    BY <1>2, <2>1 DEF MarkQuota, ManagerTyped, ViewType
  <2>2. CASE MarkSuspend(t)
    BY <1>2, <2>2 DEF MarkSuspend, ManagerTyped, ViewType
  <2>3. CASE RegisterClient(t)
    BY <2>3, RegisteredTyped DEF RegisterClient, ManagerTyped
  <2>4. CASE UnregisterClient(t)
    <3>1. reg' = (IF reg.bound THEN Unbound ELSE reg)
      BY <2>4 DEF UnregisterClient
    <3>2. Unbound \in [bound : BOOLEAN, quota : BOOLEAN, susp : BOOLEAN]
      BY DEF Unbound
    <3> QED BY <3>1, <3>2 DEF ManagerTyped, ViewType
  <2> QED BY <2>1, <2>2, <2>3, <2>4
<1> QED BY <1>1, <1>2, <1>3 DEF ManagerTyped, ViewType

LEMMA ReconcileTyped ==
  ASSUME ManagerTyped, NEW t \in Threads, Reconcile(t)
  PROVE  ManagerTyped'
<1> DEFINE p == todo[t]
           ms == IF local[t].supported THEN "clean" ELSE "none"
           changes == auths # NoAuth /\ auths.ms \notin {"none", ms}
           a == [auths EXCEPT !.ms = ms]
           m == [local[t] EXCEPT !.auth = auths']
<1>1. /\ At(t, "reconcile") /\ UNCHANGED <<sched, reg, disk, off>>
  BY DEF Reconcile
<1>2. p # <<>> /\ p[1] = "reconcile" /\ local[t] \in LocalRecords /\ Threaded(t, p, local[t]) /\ WellFormed(p)
  BY <1>1, Working
<1>3. CASE changes
  <2>1. auths' = a /\ Goto(t, <<"upsert">> \o Tail(p), m)
    BY <1>3 DEF Reconcile
  <2>2. a \in Credential /\ a # NoAuth
    <3>1. ms \in States
      BY DEF States, CoolingStates
    <3> HIDE DEF ms
    <3>2. a \in Credential
      BY <1>3, <3>1 DEF ManagerTyped, ViewType, Credential
    <3> QED BY <3>2, NilIsNoCredential
  <2> HIDE DEF a
  <2>3. m \in LocalRecords /\ m.auth # NoAuth
    BY <1>2, <2>1, <2>2 DEF LocalRecords
  <2> HIDE DEF m, p
  <2>4. PICK h \in Seq(Sections) : h = <<"upsert">> /\ Len(h) = 1 /\ h[1] = "upsert"
    <3>1. LET h == <<"upsert">> IN h \in Seq(Sections) /\ Len(h) = 1 /\ h[1] = "upsert"
      BY DEF Sections
    <3> QED BY <3>1
  <2>5. /\ WellFormed(h \o Tail(p)) /\ h \o Tail(p) # <<>> /\ (h \o Tail(p))[1] = "upsert"
        /\ \A i \in 1 .. Len(h \o Tail(p)) : (h \o Tail(p))[i] # "put"
    <3>1. /\ WellFormed(p) /\ p # <<>> /\ p[1] \in {"put", "reconcile"}
          /\ h \in Seq(Sections) /\ Len(h) \in {1, 3} /\ h[1] = "upsert"
          /\ Len(h) = 3 => h[2] = "records" /\ h[3] = "save"
      BY <1>2, <2>4
    <3> QED BY <3>1, ReplacedHead
  <2>6. Threaded(t, h \o Tail(p), m)
    BY <2>3, <2>5 DEF Threaded, InHand, Known
  <2>7. Programmed' /\ solo' \in Threads \union {NoAuth}
    BY <2>1, <2>4, <2>6, GotoTyped
  <2> QED BY <1>1, <2>1, <2>2, <2>7 DEF ManagerTyped, ViewType
<1>4. CASE ~changes
  <2>1. Goto(t, Tail(p), local[t]) /\ UNCHANGED auths
    BY <1>4 DEF Reconcile, Continue
  <2>2. Programmed' /\ solo' \in Threads \union {NoAuth}
    BY <1>1, <1>2, <2>1, ContinueTyped
  <2> QED BY <1>1, <2>1, <2>2 DEF ManagerTyped, ViewType
<1> QED BY <1>3, <1>4

LEMMA ReadLatestTyped ==
  ASSUME ManagerTyped, NEW t \in Threads, ReadLatest(t)
  PROVE  ManagerTyped'
<1> DEFINE m == [local[t] EXCEPT !.auth = auths]
<1>1. At(t, "latest") /\ UNCHANGED <<auths, sched, reg, disk, off>>
  BY DEF ReadLatest
<1>2. local[t] \in LocalRecords
  BY <1>1, Working
<1>3. Programmed' /\ solo' \in Threads \union {NoAuth}
  <2>1. CASE auths = NoAuth \/ auths.disabled
    <3>1. Goto(t, <<"unregister">> \o RefreshEntry, local[t])
      BY <2>1 DEF ReadLatest
    <3>2. Threaded(t, <<"unregister">> \o RefreshEntry, local[t])
      <4>1. (<<"unregister">> \o RefreshEntry)[1] = "unregister"
        BY RefreshModelsSections
      <4> QED BY <1>2, <4>1, RefreshModelsWellFormed DEF Threaded, InHand, Known
    <3> QED BY <3>1, <3>2, GotoTyped
  <2>2. CASE ~(auths = NoAuth \/ auths.disabled)
    <3>1. Goto(t, RegisterModels, m)
      BY <2>2 DEF ReadLatest
    <3>2. m \in LocalRecords /\ m.auth # NoAuth
      BY <1>2, <2>2 DEF ManagerTyped, ViewType, LocalRecords
    <3> HIDE DEF m
    <3>3. Threaded(t, RegisterModels, m)
      <4>1. /\ WellFormed(RegisterModels) /\ RegisterModels[1] = "register"
            /\ \A i \in 1 .. Len(RegisterModels) : RegisterModels[i] # "put"
        BY RegisterModelsWellFormed, RegisterModelsSections
      <4> QED BY <3>2, <4>1 DEF Threaded, InHand, Known
    <3> QED BY <3>1, <3>3, GotoTyped
  <2> QED BY <2>1, <2>2
<1> QED BY <1>1, <1>3 DEF ManagerTyped, ViewType

LEMMA RemovalTyped ==
  ASSUME ManagerTyped, NEW t \in Threads, Delete(t) \/ Unschedule(t)
  PROVE  ManagerTyped'
<1>1. CASE Delete(t)
  <2>1. /\ At(t, "delete") /\ auths' = NoAuth /\ UNCHANGED <<sched, reg, disk, off>>
        /\ Goto(t, <<>>, local[t]) \/ Goto(t, Tail(todo[t]), local[t])
    BY <1>1 DEF Delete, Continue
  <2>2. Programmed' /\ solo' \in Threads \union {NoAuth}
    <3>1. CASE Goto(t, <<>>, local[t])
      BY <3>1, GotoTyped
    <3>2. CASE Goto(t, Tail(todo[t]), local[t])
      BY <2>1, <3>2, Working, ContinueTyped
    <3> QED BY <2>1, <3>1, <3>2
  <2> QED BY <2>1, <2>2 DEF ManagerTyped, ViewType
<1>2. CASE Unschedule(t)
  <2>1. /\ At(t, "unschedule") /\ sched' = NoAuth /\ Goto(t, Tail(todo[t]), local[t])
        /\ UNCHANGED <<auths, reg, disk, off>>
    BY <1>2 DEF Unschedule, Continue
  <2>2. Programmed' /\ solo' \in Threads \union {NoAuth}
    BY <2>1, Working, ContinueTyped
  <2> QED BY <2>1, <2>2 DEF ManagerTyped, ViewType
<1> QED BY <1>1, <1>2

LEMMA SectionTyped ==
  ASSUME ManagerTyped, NEW t \in Threads, Section(t)
  PROVE  ManagerTyped'
<1>1. CASE Put(t)
  BY <1>1, PutTyped
<1>2. CASE RefreshFailed(t)
  BY <1>2, RefreshFailedTyped
<1>3. CASE UpsertScheduler(t)
  BY <1>3, UpsertTyped
<1>4. CASE Reread(t)
  BY <1>4, RereadTyped
<1>5. CASE TakeRecords(t) \/ SaveRecords(t) \/ ReadSupported(t)
  BY <1>5, RecordsTyped
<1>6. CASE MarkQuota(t) \/ MarkSuspend(t) \/ RegisterClient(t) \/ UnregisterClient(t)
  BY <1>6, RegistryTyped
<1>7. CASE Reconcile(t)
  BY <1>7, ReconcileTyped
<1>8. CASE ReadLatest(t)
  BY <1>8, ReadLatestTyped
<1>9. CASE Delete(t) \/ Unschedule(t)
  BY <1>9, RemovalTyped
<1>10. CASE RefreshCancelled(t)
  BY <1>10, RefreshCancelledTyped
<1> QED BY <1>1, <1>2, <1>3, <1>4, <1>5, <1>6, <1>7, <1>8, <1>9, <1>10 DEF Section

LEMMA ManagerStartsTyped == Init => ManagerTyped
<1> SUFFICES ASSUME Init PROVE ManagerTyped
  OBVIOUS
<1>1. ViewType
  BY DEF Init, ViewType, Unbound
<1>2. todo = [t \in Threads |-> <<>>] /\ local = [t \in Threads |-> NoLocal]
  BY DEF Init
<1>3. \A t \in Threads : Threaded(t, todo[t], local[t])
  BY <1>2, IdleThreaded
<1> QED BY <1>1, <1>2, <1>3 DEF ManagerTyped, Programmed

LEMMA ManagerStaysTyped == ManagerTyped /\ [Next]_vars => ManagerTyped'
<1> SUFFICES ASSUME ManagerTyped, [Next]_vars PROVE ManagerTyped'
  OBVIOUS
<1>1. CASE Start
  BY <1>1, StartsTyped
<1>2. CASE \E t \in Threads : Section(t)
  BY <1>2, SectionTyped
<1>3. CASE UNCHANGED vars
  BY <1>3 DEF vars, ManagerTyped, ViewType, Programmed
<1> QED BY <1>1, <1>2, <1>3 DEF Next

LEMMA ManagerAlwaysTyped == Spec => []ManagerTyped
BY ManagerStartsTyped, ManagerStaysTyped, PTL DEF Spec

LEMMA TypedIsTyped == ManagerTyped => TypeOK
<1> SUFFICES ASSUME ManagerTyped PROVE TypeOK
  OBVIOUS
<1>1. todo \in [Threads -> Seq(Sections)]
  BY DEF ManagerTyped, Programmed, Threaded, WellFormed
<1>2. ASSUME NEW t \in Threads
      PROVE  /\ local[t].auth \in Credential \union {NoAuth}
             /\ \A s \in {"put", "upsert", "register"} : At(t, s) => local[t].auth # NoAuth
  <2>1. local[t] \in LocalRecords
    BY DEF ManagerTyped, Programmed, Threaded
  <2> QED BY <2>1, Working DEF LocalRecords
<1> QED BY <1>1, <1>2 DEF TypeOK, ManagerTyped, ViewType

\* In every behaviour the manager's credential, its views and what every goroutine
\* has read have their types, and a section that writes or announces a credential
\* has one in hand (MarkResult, Update, refreshAuth, applyCoreAuthAddOrUpdate).
THEOREM ManagerTypeCorrect == Spec => []TypeOK
BY ManagerAlwaysTyped, TypedIsTyped, PTL

-----------------------------------------------------------------------------
(* Who creates a credential.                                               *)

LEMMA CreationStep ==
  ASSUME ManagerTyped, [Next]_vars, auths = NoAuth, auths' # NoAuth
  PROVE  At("service", "put") /\ ~local["service"].exists
<1>1. ~Start
  <2>1. ASSUME Start PROVE auths' = auths
    BY <2>1 DEF Start, MarkResult, StartRefresh, StartPatch, StartAdd, StartRemove, StartModels
  <2> QED BY <2>1
<1>2. PICK t \in Threads : Section(t)
  BY <1>1 DEF Next, vars
<1>3. Put(t)
  <2>1. ~Reconcile(t)
    BY DEF Reconcile
  <2>2. ~Delete(t)
    BY DEF Delete
  <2> QED BY <1>2, <2>1, <2>2 DEF Section, RefreshFailed, RefreshCancelled, UpsertScheduler, Reread, TakeRecords, SaveRecords,
       MarkQuota, MarkSuspend, RegisterClient, UnregisterClient, ReadSupported, ReadLatest, Unschedule
<1>4. At(t, "put") /\ ~local[t].exists
  BY <1>3 DEF Put
<1>5. Known(t, todo[t], local[t]) /\ todo[t] # <<>> /\ todo[t][1] = "put"
  BY <1>4, Working DEF Threaded
<1>6. t = "service"
  BY <1>4, <1>5 DEF Known
<1> QED BY <1>4, <1>6

\* Whatever is under way when a credential is removed - a result, a token refresh,
\* a change of status, a refresh of the models - does not bring it back: Update
\* drops it, and only the service's Register creates one (conductor.go, service.go).
THEOREM NothingResurrects == Spec => OnlyTheServiceCreates
<1>1. ManagerTyped /\ [Next]_vars =>
        [auths = NoAuth /\ auths' # NoAuth => At("service", "put") /\ ~local["service"].exists]_vars
  BY CreationStep
<1> QED BY <1>1, ManagerAlwaysTyped, PTL DEF Spec, OnlyTheServiceCreates
-----------------------------------------------------------------------------
(* A thread that runs alone.                                               *)

\* Sections that leave the credential, the scheduler and the binding as they are.
Calm(p) == \A i \in 1 .. Len(p) : p[i] \in {"records", "save", "quota", "suspend"}

\* What is left of the program brings the scheduler in step, or it is in step already
\* and nothing that is left disturbs it.
Prospect(p, l) ==
  \/ auths = NoAuth
  \/ SchedulerInSync /\ Calm(p)
  \/ /\ p # <<>>
     /\ \/ p[1] \in {"put", "delete"}
        \/ EndsFresh(p)
        \/ p[1] = "unregister" /\ Len(p) > 1 /\ p[2] = "delete"
        \/ p[1] = "upsert" /\ l.auth = auths /\ Calm(Tail(p))

Alone(t) == todo[t] # <<>> /\ \A u \in Threads : u # t => todo[u] = <<>>

AloneSyncs == solo \in Threads => Alone(solo) /\ Prospect(todo[solo], local[solo])

\* Where Goto leaves the threads.
LEMMA Gone ==
  ASSUME ManagerTyped, NEW t \in Threads, NEW p, NEW l, Goto(t, p, l)
  PROVE  /\ todo'[t] = p /\ (p # <<>> => local'[t] = l)
         /\ \A u \in Threads : u # t => todo'[u] = todo[u] /\ local'[u] = local[u]
         /\ solo' = IF p = <<>> /\ solo = t THEN NoAuth ELSE solo
BY DEF Goto, ManagerTyped, Programmed

LEMMA Begun ==
  ASSUME ManagerTyped, NEW t \in Threads, NEW p, NEW l, Begin(t, p, l)
  PROVE  /\ todo'[t] = p /\ local'[t] = l
         /\ \A u \in Threads : u # t => todo'[u] = todo[u] /\ local'[u] = local[u]
         /\ solo' \in Threads => solo' = t /\ \A u \in Threads : todo[u] = <<>>
<1>1. /\ todo'[t] = p /\ local'[t] = l
      /\ \A u \in Threads : u # t => todo'[u] = todo[u] /\ local'[u] = local[u]
  BY DEF Begin, ManagerTyped, Programmed
<1>2. NoAuth \notin Threads
  BY ManagerAssumption DEF Threads
<1>3. Quiet => \A u \in Threads : todo[u] = <<>>
  BY DEF Quiet, Busy, Idle
<1>4. solo' = IF Quiet THEN t ELSE NoAuth
  BY DEF Begin
<1> QED BY <1>1, <1>2, <1>3, <1>4

\* Every section moves its own thread on, and no other.
LEMMA SectionGoes ==
  ASSUME ManagerTyped, NEW t \in Threads, Section(t)
  PROVE  /\ todo[t] # <<>>
         /\ \A u \in Threads : u # t => todo'[u] = todo[u] /\ local'[u] = local[u]
         /\ solo' = IF todo'[t] = <<>> /\ solo = t THEN NoAuth ELSE solo
<1>1. todo[t] # <<>>
  BY DEF Section, Put, RefreshFailed, RefreshCancelled, UpsertScheduler, Reread, TakeRecords, SaveRecords, MarkQuota,
     MarkSuspend, RegisterClient, UnregisterClient, ReadSupported, Reconcile, ReadLatest, Delete,
     Unschedule, At, Idle
<1>2. CASE Put(t)
  BY <1>1, <1>2, Gone DEF Put, Continue
<1>3. CASE Reread(t)
  BY <1>1, <1>3, Gone DEF Reread
<1>4. CASE TakeRecords(t) \/ ReadSupported(t)
  BY <1>1, <1>4, Gone DEF TakeRecords, ReadSupported
<1>5. CASE Reconcile(t)
  BY <1>1, <1>5, Gone DEF Reconcile, Continue
<1>6. CASE ReadLatest(t)
  BY <1>1, <1>6, Gone DEF ReadLatest
<1>7. CASE Delete(t)
  BY <1>1, <1>7, Gone DEF Delete, Continue
<1>8. CASE RefreshFailed(t) \/ RefreshCancelled(t) \/ UpsertScheduler(t) \/ SaveRecords(t) \/ MarkQuota(t) \/ MarkSuspend(t)
           \/ RegisterClient(t) \/ UnregisterClient(t) \/ Unschedule(t)
  BY <1>1, <1>8, Gone DEF RefreshFailed, RefreshCancelled, UpsertScheduler, SaveRecords, MarkQuota, MarkSuspend, RegisterClient,
     UnregisterClient, Unschedule, Continue
<1> QED BY <1>1, <1>2, <1>3, <1>4, <1>5, <1>6, <1>7, <1>8 DEF Section
\* What a thread that goes on must show for the prospect to hold of it again.
Promising(p, l) ==
  \/ auths' = NoAuth
  \/ SchedulerInSync' /\ Calm(p)
  \/ /\ p # <<>>
     /\ \/ p[1] \in {"put", "delete"}
        \/ EndsFresh(p)
        \/ p[1] = "unregister" /\ Len(p) > 1 /\ p[2] = "delete"
        \/ p[1] = "upsert" /\ l.auth = auths' /\ Calm(Tail(p))

LEMMA ProspectOf ==
  ASSUME NEW t \in Threads, NEW p, NEW l, todo'[t] = p, p # <<>> => local'[t] = l, Promising(p, l)
  PROVE  Prospect(todo[t], local[t])'
<1>1. CASE auths' = NoAuth
  BY <1>1 DEF Prospect
<1>2. CASE SchedulerInSync' /\ Calm(p)
  BY <1>2 DEF Prospect, Calm
<1>3. CASE p # <<>>
  <2>1. CASE p[1] \in {"put", "delete"}
    BY <1>3, <2>1 DEF Prospect
  <2>2. CASE EndsFresh(p)
    BY <1>3, <2>2 DEF Prospect, EndsFresh
  <2>3. CASE p[1] = "unregister" /\ Len(p) > 1 /\ p[2] = "delete"
    BY <1>3, <2>3 DEF Prospect
  <2>4. CASE p[1] = "upsert" /\ l.auth = auths' /\ Calm(Tail(p))
    BY <1>3, <2>4 DEF Prospect, Calm
  <2> QED BY <1>1, <1>2, <1>3, <2>1, <2>2, <2>3, <2>4 DEF Promising
<1> QED BY <1>1, <1>2, <1>3 DEF Promising

LEMMA ProspectGoes ==
  ASSUME ManagerTyped, NEW t \in Threads, NEW p, NEW l, Goto(t, p, l), Promising(p, l)
  PROVE  Prospect(todo[t], local[t])'
BY Gone, ProspectOf

\* What is left when a calm program goes on, and when one goes on that ends with a
\* fresh look.
LEMMA RestCalm ==
  ASSUME NEW p, WellFormed(p), p # <<>>, Calm(p)
  PROVE  Calm(Tail(p)) /\ p[1] \in {"records", "save", "quota", "suspend"}
<1>1. p \in Seq(Sections)
  BY DEF WellFormed
<1>2. /\ 1 \in 1 .. Len(p)
      /\ \A i \in 1 .. Len(Tail(p)) : i + 1 \in 1 .. Len(p) /\ Tail(p)[i] = p[i + 1]
  BY <1>1, RestOfProgram
<1> QED BY <1>2 DEF Calm

LEMMA ShortIsCalm ==
  ASSUME NEW p, WellFormed(p), Len(p) = 1
  PROVE  Calm(Tail(p)) /\ Tail(p) = <<>>
<1>1. p \in Seq(Sections) /\ p # <<>>
  BY DEF WellFormed
<1>2. Tail(p) \in Seq(Sections) /\ Len(Tail(p)) = Len(p) - 1
  BY <1>1, RestOfProgram
<1>3. Len(Tail(p)) = 0
  <2>1. Len(p) - 1 = 0
    OBVIOUS
  <2> QED BY <1>2, <2>1
<1>4. Tail(p) = <<>>
  BY <1>2, <1>3, EmptySeq
<1>5. Calm(<<>>)
  BY DEF Calm
<1> QED BY <1>4, <1>5

LEMMA PutProspect ==
  ASSUME ManagerTyped, NEW t \in Threads, Put(t) \/ RefreshFailed(t)
  PROVE  Prospect(todo[t], local[t])'
<1> DEFINE p == todo[t]
<1>1. At(t, "put")
  BY DEF Put, RefreshFailed
<1>2. /\ p # <<>> /\ p[1] = "put" /\ WellFormed(p) /\ p \in Seq(Sections)
      /\ Len(p) = 1 \/ EndsFresh(p)
  BY <1>1, Working DEF InPlace
<1>3. CASE RefreshFailed(t)
  <2>1. /\ sched' = (IF auths = NoAuth THEN sched ELSE Scheduled(auths))
        /\ Goto(t, Tail(p), local[t]) /\ UNCHANGED <<auths, reg>>
    BY <1>3 DEF RefreshFailed, Continue
  <2>2. auths' = NoAuth \/ SchedulerInSync'
    BY <2>1 DEF SchedulerInSync, Scheduled
  <2>3. CASE Len(p) = 1
    <3>1. Calm(Tail(p))
      BY <1>2, <2>3, ShortIsCalm
    <3> QED BY <2>1, <2>2, <3>1, ProspectGoes DEF Promising
  <2>4. CASE EndsFresh(p)
    <3>1. EndsFresh(Tail(p)) /\ Tail(p) # <<>>
      BY <1>2, <2>4, RestEndsFresh
    <3> QED BY <2>1, <3>1, ProspectGoes DEF Promising
  <2> QED BY <1>2, <2>3, <2>4
<1>4. CASE Put(t) /\ local[t].exists /\ auths = NoAuth
  <2>1. Goto(t, Tail(p), local[t]) /\ UNCHANGED auths
    BY <1>4 DEF Put, Continue
  <2> QED BY <1>4, <2>1, ProspectGoes DEF Promising
<1>5. CASE Put(t) /\ ~(local[t].exists /\ auths = NoAuth)
  <2> DEFINE a == IF local[t].exists THEN Inherited(local[t].auth, auths) ELSE local[t].auth
             b == ClearedIfDisabled(a)
             m == [local[t] EXCEPT !.auth = b]
  <2>1. auths' = b /\ Goto(t, AfterPut(a # b) \o Tail(p), m)
    BY <1>5 DEF Put
  <2>2. local[t] \in LocalRecords
    BY <1>1, Working
  <2> HIDE DEF a, b
  <2>3. m.auth = auths'
    BY <2>1, <2>2 DEF LocalRecords
  <2> HIDE DEF m, p
  <2>4. PICK h \in Seq(Sections) :
          /\ Len(h) \in {1, 3} /\ h[1] = "upsert" /\ (Len(h) = 3 => h[2] = "records" /\ h[3] = "save")
          /\ h = AfterPut(a # b)
    <3>1. CASE a # b
      <4>1. AfterPut(a # b) = AfterPut(TRUE)
        BY <3>1
      <4> QED BY <4>1, AfterPutSections
    <3>2. CASE a = b
      <4>1. AfterPut(a # b) = AfterPut(FALSE)
        BY <3>2
      <4> QED BY <4>1, AfterPutSections
    <3> QED BY <3>1, <3>2
  <2> DEFINE r == h \o Tail(p)
  <2>5. /\ WellFormed(r) /\ r # <<>> /\ r[1] = "upsert" /\ (EndsFresh(p) => EndsFresh(r))
        /\ Len(p) = 1 => \A i \in 1 .. Len(r) : i = 1 \/ r[i] \in {"records", "save"}
    BY <1>2, <2>4, ReplacedHead
  <2>6. Goto(t, r, m)
    BY <2>1, <2>4
  <2> HIDE DEF r
  <2>7. CASE EndsFresh(p)
    BY <2>5, <2>6, <2>7, ProspectGoes DEF Promising
  <2>8. CASE Len(p) = 1
    <3>1. \A i \in 1 .. Len(Tail(r)) : i \in Nat /\ i + 1 \in 1 .. Len(r) /\ Tail(r)[i] = r[i + 1] /\ i + 1 # 1
      BY <2>5, RestOfProgram DEF WellFormed
    <3>2. Calm(Tail(r))
      BY <2>5, <2>8, <3>1 DEF Calm
    <3> QED BY <2>3, <2>5, <2>6, <3>2, ProspectGoes DEF Promising
  <2> QED BY <1>2, <2>7, <2>8
<1> QED BY <1>3, <1>4, <1>5
LEMMA RestProspect ==
  ASSUME ManagerTyped, NEW t \in Threads, NEW s, At(t, s),
         s \notin {"put", "delete", "reread", "latest", "upsert"},
         NEW m, Goto(t, Tail(todo[t]), m), auths' = auths, Prospect(todo[t], local[t]),
         s \in {"records", "save", "quota", "suspend"} /\ SchedulerInSync => SchedulerInSync'
  PROVE  Prospect(todo[t], local[t])'
<1> DEFINE p == todo[t]
<1>1. p # <<>> /\ p[1] = s /\ WellFormed(p) /\ p \in Seq(Sections)
  BY Working
<1> HIDE DEF p
<1>2. CASE auths = NoAuth
  BY <1>2, ProspectGoes DEF Promising, p
<1>3. CASE SchedulerInSync /\ Calm(p)
  <2>1. Calm(Tail(p)) /\ s \in {"records", "save", "quota", "suspend"}
    BY <1>1, <1>3, RestCalm
  <2> QED BY <1>3, <2>1, ProspectGoes DEF Promising, p
<1>4. CASE EndsFresh(p)
  <2>1. EndsFresh(Tail(p)) /\ Tail(p) # <<>>
    BY <1>1, <1>4, RestEndsFresh
  <2> QED BY <2>1, ProspectGoes DEF Promising, p
<1>5. CASE p[1] = "unregister" /\ Len(p) > 1 /\ p[2] = "delete"
  <2> DEFINE q == Tail(p)
  <2>1. /\ q \in Seq(Sections) /\ Len(q) = Len(p) - 1 /\ Len(p) \in Nat
        /\ \A i \in 1 .. Len(q) : q[i] = p[i + 1]
    BY <1>1, RestOfProgram
  <2> HIDE DEF q
  <2>2. 1 \in 1 .. Len(q) /\ q # <<>> /\ 1 + 1 = 2
    BY <1>5, <2>1
  <2>3. q[1] = p[2]
    BY <2>1, <2>2
  <2> QED BY <1>5, <2>2, <2>3, ProspectGoes DEF Promising, p, q
<1> QED BY <1>1, <1>2, <1>3, <1>4, <1>5 DEF Prospect, p

LEMMA UpsertProspect ==
  ASSUME ManagerTyped, NEW t \in Threads, UpsertScheduler(t), Prospect(todo[t], local[t])
  PROVE  Prospect(todo[t], local[t])'
<1> DEFINE p == todo[t]
<1>1. /\ At(t, "upsert") /\ sched' = Scheduled(local[t].auth)
      /\ Goto(t, Tail(p), local[t]) /\ UNCHANGED <<auths, reg>>
  BY DEF UpsertScheduler, Continue
<1>2. p # <<>> /\ p[1] = "upsert" /\ WellFormed(p) /\ p \in Seq(Sections)
  BY <1>1, Working
<1> HIDE DEF p
<1>3. CASE auths = NoAuth
  BY <1>1, <1>3, ProspectGoes DEF Promising
<1>4. ~Calm(p)
  BY <1>2, RestCalm
<1>5. CASE EndsFresh(p)
  <2>1. EndsFresh(Tail(p)) /\ Tail(p) # <<>>
    BY <1>2, <1>5, RestEndsFresh
  <2> QED BY <1>1, <2>1, ProspectGoes DEF Promising
<1>6. CASE local[t].auth = auths /\ Calm(Tail(p))
  <2>1. SchedulerInSync'
    BY <1>1, <1>6 DEF SchedulerInSync, Scheduled
  <2> QED BY <1>1, <1>6, <2>1, ProspectGoes DEF Promising
<1> QED BY <1>2, <1>3, <1>4, <1>5, <1>6 DEF Prospect, p

LEMMA RereadProspect ==
  ASSUME ManagerTyped, NEW t \in Threads, Reread(t)
  PROVE  Prospect(todo[t], local[t])'
<1> DEFINE m == [local[t] EXCEPT !.auth = auths]
<1>1. At(t, "reread") /\ UNCHANGED auths
  BY DEF Reread
<1>2. /\ Len(Tail(todo[t])) = 1 /\ Tail(todo[t]) # <<>> /\ Tail(todo[t])[1] = "upsert"
      /\ WellFormed(Tail(todo[t])) /\ local[t] \in LocalRecords
  BY <1>1, Working, RereadLeaves
<1>3. CASE auths = NoAuth
  <2>1. Goto(t, Tail(Tail(todo[t])), local[t])
    BY <1>3 DEF Reread
  <2> QED BY <1>1, <1>3, <2>1, ProspectGoes DEF Promising
<1>4. CASE auths # NoAuth
  <2>1. Goto(t, Tail(todo[t]), m)
    BY <1>4 DEF Reread
  <2>2. m.auth = auths'
    BY <1>1, <1>2 DEF LocalRecords
  <2> HIDE DEF m
  <2>3. Calm(Tail(Tail(todo[t])))
    BY <1>2, ShortIsCalm
  <2> QED BY <1>2, <2>1, <2>2, <2>3, ProspectGoes DEF Promising
<1> QED BY <1>3, <1>4

LEMMA ReconcileProspect ==
  ASSUME ManagerTyped, NEW t \in Threads, Reconcile(t), Prospect(todo[t], local[t])
  PROVE  Prospect(todo[t], local[t])'
<1> DEFINE p == todo[t]
           ms == IF local[t].supported THEN "clean" ELSE "none"
           changes == auths # NoAuth /\ auths.ms \notin {"none", ms}
           m == [local[t] EXCEPT !.auth = auths']
<1>1. At(t, "reconcile")
  BY DEF Reconcile
<1>2. p # <<>> /\ p[1] = "reconcile" /\ WellFormed(p) /\ EndsFresh(p)
  BY <1>1, Working DEF InPlace
<1>3. CASE changes
  <2>1. Goto(t, <<"upsert">> \o Tail(p), m)
    BY <1>3 DEF Reconcile
  <2> HIDE DEF m, p
  <2>2. PICK h \in Seq(Sections) : h = <<"upsert">> /\ Len(h) = 1 /\ h[1] = "upsert"
    <3>1. LET h == <<"upsert">> IN h \in Seq(Sections) /\ Len(h) = 1 /\ h[1] = "upsert"
      BY DEF Sections
    <3> QED BY <3>1
  <2>3. h \o Tail(p) # <<>> /\ EndsFresh(h \o Tail(p))
    <3>1. /\ WellFormed(p) /\ p # <<>> /\ p[1] \in {"put", "reconcile"}
          /\ h \in Seq(Sections) /\ Len(h) \in {1, 3} /\ h[1] = "upsert"
          /\ Len(h) = 3 => h[2] = "records" /\ h[3] = "save"
      BY <1>2, <2>2
    <3> QED BY <1>2, <3>1, ReplacedHead
  <2>4. Goto(t, h \o Tail(p), m)
    BY <2>1, <2>2
  <2> QED BY <2>3, <2>4, ProspectGoes DEF Promising
<1>4. CASE ~changes
  <2>1. Goto(t, Tail(p), local[t]) /\ auths' = auths
    BY <1>4 DEF Reconcile, Continue
  <2> QED BY <1>1, <2>1, RestProspect
<1> QED BY <1>3, <1>4

LEMMA ReadLatestProspect ==
  ASSUME ManagerTyped, NEW t \in Threads, ReadLatest(t)
  PROVE  Prospect(todo[t], local[t])'
<1> DEFINE m == [local[t] EXCEPT !.auth = auths]
<1>1. CASE auths = NoAuth \/ auths.disabled
  <2>1. Goto(t, <<"unregister">> \o RefreshEntry, local[t])
    BY <1>1 DEF ReadLatest
  <2> QED BY <2>1, RefreshModelsWellFormed, ProspectGoes DEF Promising
<1>2. CASE ~(auths = NoAuth \/ auths.disabled)
  <2>1. Goto(t, RegisterModels, m)
    BY <1>2 DEF ReadLatest
  <2> HIDE DEF m
  <2> QED BY <2>1, RegisterModelsWellFormed, ProspectGoes DEF Promising
<1> QED BY <1>1, <1>2

LEMMA DeleteProspect ==
  ASSUME ManagerTyped, NEW t \in Threads, Delete(t)
  PROVE  Prospect(todo[t], local[t])'
<1>1. /\ auths' = NoAuth
      /\ Goto(t, <<>>, local[t]) \/ Goto(t, Tail(todo[t]), local[t])
  BY DEF Delete, Continue
<1> QED BY <1>1, ProspectGoes DEF Promising

LEMMA SectionProspect ==
  ASSUME ManagerTyped, NEW t \in Threads, Section(t), ~RefreshCancelled(t), Prospect(todo[t], local[t])
  PROVE  Prospect(todo[t], local[t])'
<1>1. CASE Put(t) \/ RefreshFailed(t)
  BY <1>1, PutProspect
<1>2. CASE UpsertScheduler(t)
  BY <1>2, UpsertProspect
<1>3. CASE Reread(t)
  BY <1>3, RereadProspect
<1>4. CASE Reconcile(t)
  BY <1>4, ReconcileProspect
<1>5. CASE ReadLatest(t)
  BY <1>5, ReadLatestProspect
<1>6. CASE Delete(t)
  BY <1>6, DeleteProspect
<1>7. CASE TakeRecords(t)
  <2>1. /\ At(t, "records") /\ Goto(t, Tail(todo[t]), [local[t] EXCEPT !.rec = HasRecord(auths)])
        /\ UNCHANGED <<auths, sched, reg>>
    BY <1>7 DEF TakeRecords
  <2>2. SchedulerInSync => SchedulerInSync'
    BY <2>1 DEF SchedulerInSync, Scheduled
  <2> QED BY <2>1, <2>2, RestProspect
<1>8. CASE SaveRecords(t)
  <2>1. /\ At(t, "save") /\ Goto(t, Tail(todo[t]), local[t]) /\ UNCHANGED <<auths, sched, reg>>
    BY <1>8 DEF SaveRecords, Continue
  <2>2. SchedulerInSync => SchedulerInSync'
    BY <2>1 DEF SchedulerInSync, Scheduled
  <2> QED BY <2>1, <2>2, RestProspect
<1>9. CASE MarkQuota(t) \/ MarkSuspend(t)
  <2>1. /\ Goto(t, Tail(todo[t]), local[t]) /\ UNCHANGED <<auths, sched>>
        /\ \E s \in {"quota", "suspend"} : At(t, s)
    BY <1>9 DEF MarkQuota, MarkSuspend, Continue
  <2>2. reg'.bound = reg.bound
    BY <1>9 DEF MarkQuota, MarkSuspend, ManagerTyped, ViewType
  <2>3. SchedulerInSync => SchedulerInSync'
    BY <2>1, <2>2 DEF SchedulerInSync, Scheduled
  <2> QED BY <2>1, <2>3, RestProspect
<1>10. CASE RegisterClient(t) \/ UnregisterClient(t) \/ Unschedule(t)
  <2>1. /\ Goto(t, Tail(todo[t]), local[t]) /\ auths' = auths
        /\ \E s \in {"register", "unregister", "unschedule"} : At(t, s)
    BY <1>10 DEF RegisterClient, UnregisterClient, Unschedule, Continue
  <2> QED BY <2>1, RestProspect
<1>11. CASE ReadSupported(t)
  <2>1. /\ At(t, "supported") /\ Goto(t, Tail(todo[t]), [local[t] EXCEPT !.supported = reg.bound])
        /\ auths' = auths
    BY <1>11 DEF ReadSupported
  <2> QED BY <2>1, RestProspect
<1> QED BY <1>1, <1>2, <1>3, <1>4, <1>5, <1>6, <1>7, <1>8, <1>9, <1>10, <1>11 DEF Section
\* An operation that starts while all is quiet has the prospect from the first.
LEMMA StartSyncs ==
  ASSUME ManagerTyped, Start PROVE AloneSyncs'
<1> SUFFICES ASSUME solo' \in Threads PROVE Alone(solo)' /\ Prospect(todo[solo], local[solo])'
  BY DEF AloneSyncs
<1>1. ASSUME NEW t \in Threads, NEW p, NEW l, Begin(t, p, l), p # <<>>, Promising(p, l)
      PROVE  Alone(solo)' /\ Prospect(todo[solo], local[solo])'
  <2>1. /\ todo'[t] = p /\ local'[t] = l /\ solo' = t
        /\ \A u \in Threads : u # t => todo'[u] = <<>>
    BY <1>1, Begun
  <2>2. Alone(solo)'
    BY <1>1, <2>1 DEF Alone
  <2>3. Prospect(todo[t], local[t])'
    BY <1>1, <2>1, ProspectOf
  <2> QED BY <2>1, <2>2, <2>3
<1>2. \A t \in Operators \union Requests : t \in Threads
  BY DEF Threads
<1>3. ASSUME NEW t \in Requests, NEW result \in Results, MarkResult(t, result)
      PROVE  Alone(solo)' /\ Prospect(todo[solo], local[solo])'
  <2> DEFINE a == Recorded(auths, result)
             changed == result # "request" /\ (HasRecord(auths) \/ HasRecord(a))
             l == [NoLocal EXCEPT !.auth = a, !.result = result]
             p == AfterResult(changed, result)
  <2>1. auths' = a /\ Begin(t, p, l)
    BY <1>3 DEF MarkResult
  <2>2. l.auth = a
    BY DEF NoLocal
  <2>3. changed \in BOOLEAN
    BY DEF HasRecord
  <2> HIDE DEF a, changed, l
  <2>4. /\ WellFormed(p) /\ p # <<>> /\ p[1] = "upsert"
        /\ \A i \in 2 .. Len(p) : p[i] \in {"records", "save", "quota", "suspend"}
    BY <2>3, AfterResultWellFormed, AfterResultSectionKinds DEF ResultSections
  <2> HIDE DEF p
  <2>5. Calm(Tail(p))
    <3>1. \A i \in 1 .. Len(Tail(p)) : i + 1 \in 2 .. Len(p) /\ Tail(p)[i] = p[i + 1]
      BY <2>4, RestOfProgram DEF WellFormed
    <3> QED BY <2>4, <3>1 DEF Calm
  <2> QED BY <1>1, <1>2, <2>1, <2>2, <2>4, <2>5 DEF Promising
<1>4. ASSUME NEW t \in Operators, NEW l, Begin(t, <<"put">>, l)
      PROVE  Alone(solo)' /\ Prospect(todo[solo], local[solo])'
  <2>1. <<"put">> # <<>> /\ <<"put">>[1] = "put"
    BY OnlyPutSections, OnlyPutWellFormed
  <2> QED BY <1>1, <1>2, <1>4, <2>1 DEF Promising
<1>5. CASE \E t \in Requests, result \in Results : MarkResult(t, result)
  BY <1>3, <1>5
<1>6. CASE May("refresh", "refresh") /\ StartRefresh("refresh")
  BY <1>4, <1>6 DEF May, StartRefresh
<1>7. CASE May("admin", "patch") /\ \E d \in BOOLEAN : StartPatch("admin", d)
  BY <1>4, <1>7 DEF May, StartPatch
<1>8. CASE May("service", "add") /\ \E d \in BOOLEAN : StartAdd("service", d)
  <2>1. "service" \in Threads
    BY <1>2, <1>8 DEF May
  <2>2. PICK l : Begin("service", <<"put">> \o RegisterModels, l)
    BY <1>8 DEF StartAdd
  <2>3. EndsFresh(<<"put">> \o RegisterModels) /\ <<"put">> \o RegisterModels # <<>>
    BY RegisterModelsWellFormed
  <2> QED BY <1>1, <2>1, <2>2, <2>3 DEF Promising
<1>9. CASE May("service", "remove") /\ StartRemove("service")
  <2>1. "service" \in Threads
    BY <1>2, <1>9 DEF May
  <2>2. Begin("service", Removal, NoLocal)
    BY <1>9 DEF StartRemove
  <2>3. Removal # <<>> /\ Removal[1] = "unregister" /\ Len(Removal) > 1 /\ Removal[2] = "delete"
    BY RemovalSections, RemovalWellFormed
  <2> QED BY <1>1, <2>1, <2>2, <2>3 DEF Promising
<1>10. CASE May("models", "models") /\ StartModels("models")
  <2>1. "models" \in Threads
    BY <1>2, <1>10 DEF May
  <2>2. Begin("models", RefreshModels, [NoLocal EXCEPT !.auth = auths])
    BY <1>10 DEF StartModels
  <2>3. EndsFresh(RefreshModels) /\ RefreshModels # <<>>
    BY RefreshModelsWellFormed
  <2> QED BY <1>1, <2>1, <2>2, <2>3 DEF Promising
<1> QED BY <1>5, <1>6, <1>7, <1>8, <1>9, <1>10 DEF Start

\* While one thread runs alone, the sections that run are its own.
LEMMA AloneRuns ==
  ASSUME ManagerTyped, NEW t \in Threads, NEW u \in Threads, Alone(t), Section(u)
  PROVE  u = t
BY SectionGoes DEF Alone

\* A token refresh that is cancelled leaves everything as it is.
LEMMA CancelledSyncs ==
  ASSUME ManagerTyped, AloneSyncs, NEW t \in Threads, RefreshCancelled(t)
  PROVE  AloneSyncs'
<1> DEFINE p == todo[t]
<1>1. /\ At(t, "put") /\ Goto(t, Tail(p), local[t]) /\ UNCHANGED <<auths, sched, reg>>
  BY DEF RefreshCancelled, Continue
<1>2. /\ p # <<>> /\ p[1] = "put" /\ WellFormed(p) /\ p \in Seq(Sections) /\ Len(p) \in Nat
      /\ Len(p) = 1 \/ EndsFresh(p)
  BY <1>1, Working DEF InPlace
<1>3. Section(t)
  BY DEF Section
<1>4. /\ todo'[t] = Tail(p) /\ \A u \in Threads : u # t => todo'[u] = todo[u]
      /\ solo' = IF Tail(p) = <<>> /\ solo = t THEN NoAuth ELSE solo
  BY <1>1, Gone
<1>5. NoAuth \notin Threads
  BY ManagerAssumption DEF Threads
<1>6. ASSUME solo' \in Threads PROVE Alone(solo)' /\ Prospect(todo[solo], local[solo])'
  <2>1. solo = t /\ solo' = t /\ Tail(p) # <<>> /\ Alone(t)
    BY <1>3, <1>4, <1>5, <1>6, AloneRuns DEF AloneSyncs
  <2>2. Alone(solo)'
    BY <1>4, <2>1 DEF Alone
  <2>3. EndsFresh(Tail(p))
    BY <1>2, <2>1, ShortIsCalm, RestEndsFresh
  <2>4. Promising(Tail(p), local[t])
    BY <2>1, <2>3 DEF Promising
  <2>5. Prospect(todo[t], local[t])'
    BY <1>1, <2>4, ProspectGoes
  <2> QED BY <2>1, <2>2, <2>5
<1> QED BY <1>6 DEF AloneSyncs

LEMMA SectionSyncs ==
  ASSUME ManagerTyped, AloneSyncs, NEW t \in Threads, Section(t)
  PROVE  /\ AloneSyncs'
         /\ solo \in Threads =>
              solo = t /\ (~RefreshCancelled(t) => Prospect(todo[t], local[t])')
<1>1. /\ \A u \in Threads : u # t => todo'[u] = todo[u] /\ local'[u] = local[u]
      /\ solo' = IF todo'[t] = <<>> /\ solo = t THEN NoAuth ELSE solo
  BY SectionGoes
<1>2. NoAuth \notin Threads
  BY ManagerAssumption DEF Threads
<1>3. ASSUME solo \in Threads
      PROVE  solo = t /\ Alone(t) /\ (~RefreshCancelled(t) => Prospect(todo[t], local[t])')
  <2>1. solo = t /\ Alone(t) /\ Prospect(todo[t], local[t])
    BY <1>3, AloneRuns DEF AloneSyncs
  <2> QED BY <2>1, SectionProspect
<1>4. ASSUME solo' \in Threads, ~RefreshCancelled(t)
      PROVE  Alone(solo)' /\ Prospect(todo[solo], local[solo])'
  <2>1. solo' = solo /\ solo = t /\ todo'[t] # <<>>
    BY <1>1, <1>2, <1>3, <1>4
  <2>2. \A u \in Threads : u # t => todo'[u] = <<>>
    BY <1>1, <1>3, <2>1 DEF Alone
  <2>3. Alone(solo)'
    BY <2>1, <2>2 DEF Alone
  <2> QED BY <1>3, <1>4, <2>1, <2>3
<1>5. AloneSyncs'
  BY <1>4, CancelledSyncs DEF AloneSyncs
<1> QED BY <1>3, <1>5

LEMMA AloneSyncsStarts == Init => AloneSyncs
<1> SUFFICES ASSUME Init, solo \in Threads PROVE FALSE
  BY DEF AloneSyncs
<1> QED BY ManagerAssumption DEF Init, Threads

LEMMA AloneSyncsStays == ManagerTyped /\ AloneSyncs /\ [Next]_vars => AloneSyncs'
<1> SUFFICES ASSUME ManagerTyped, AloneSyncs, [Next]_vars PROVE AloneSyncs'
  OBVIOUS
<1>1. CASE Start
  BY <1>1, StartSyncs
<1>2. CASE \E t \in Threads : Section(t)
  BY <1>2, SectionSyncs
<1>3. CASE UNCHANGED vars
  BY <1>3 DEF vars, AloneSyncs, Alone, Prospect, SchedulerInSync, Scheduled
<1> QED BY <1>1, <1>2, <1>3 DEF Next

LEMMA AloneAlwaysSyncs == Spec => []AloneSyncs
BY ManagerAlwaysTyped, AloneSyncsStarts, AloneSyncsStays, PTL DEF Spec

\* A step that ends a program that ran alone.
LEMMA EndingStep ==
  ASSUME ManagerTyped, [Next]_vars, NEW t \in Threads, EndsAlone(t), Alone(t)
  PROVE  Section(t)
<1>1. solo = t /\ todo[t] # <<>> /\ todo'[t] = <<>>
  BY DEF EndsAlone
<1>2. ASSUME Start PROVE FALSE
  <2>1. ASSUME NEW u \in Threads, NEW p, NEW l, Begin(u, p, l), Idle(u) PROVE FALSE
    <3>1. u # t
      BY <1>1, <2>1 DEF Idle
    <3>2. todo'[t] = todo[t]
      BY <2>1, <3>1, Begun
    <3> QED BY <1>1, <3>2
  <2>2. \A u \in Requests \union Operators : u \in Threads
    BY DEF Threads
  <2>3. CASE \E u \in Requests, result \in Results : MarkResult(u, result)
    BY <2>1, <2>2, <2>3 DEF MarkResult
  <2>4. CASE May("refresh", "refresh") /\ StartRefresh("refresh")
    BY <2>1, <2>2, <2>4 DEF May, StartRefresh
  <2>5. CASE May("admin", "patch") /\ \E d \in BOOLEAN : StartPatch("admin", d)
    BY <2>1, <2>2, <2>5 DEF May, StartPatch
  <2>6. CASE May("service", "add") /\ \E d \in BOOLEAN : StartAdd("service", d)
    BY <2>1, <2>2, <2>6 DEF May, StartAdd
  <2>7. CASE May("service", "remove") /\ StartRemove("service")
    BY <2>1, <2>2, <2>7 DEF May, StartRemove
  <2>8. CASE May("models", "models") /\ StartModels("models")
    BY <2>1, <2>2, <2>8 DEF May, StartModels
  <2> QED BY <1>2, <2>3, <2>4, <2>5, <2>6, <2>7, <2>8 DEF Start
<1>3. ~UNCHANGED vars
  BY <1>1 DEF vars
<1>4. PICK u \in Threads : Section(u)
  BY <1>2, <1>3 DEF Next
<1> QED BY <1>4, AloneRuns

LEMMA AloneSyncsStep ==
  ASSUME ManagerTyped, AloneSyncs, [Next]_vars, NEW t \in Threads, EndsAlone(t), auths' # NoAuth,
         ~RefreshCancelled(t)
  PROVE  SchedulerInSync'
<1>1. solo = t /\ todo[t] # <<>> /\ todo'[t] = <<>>
  BY DEF EndsAlone
<1>2. Section(t)
  BY <1>1, EndingStep DEF AloneSyncs
<1>3. Prospect(todo[t], local[t])'
  BY <1>1, <1>2, SectionSyncs
<1> QED BY <1>1, <1>3 DEF Prospect

\* However stale the races before it have left the scheduler, an operation on a known
\* credential that runs without company - a result, a token refresh, a change of status,
\* an update from its file, a refresh of its models - leaves the scheduler with the
\* manager's credential and the registry's models; only a token refresh that is
\* cancelled does nothing (syncScheduler, RefreshSchedulerEntry,
\* conductor.go; completeModelRegistrationForAuth, service.go).
THEOREM LastOneSyncsScheduler == Spec => AloneSyncsScheduler
<1>1. ManagerTyped /\ AloneSyncs /\ [Next]_vars =>
        [\A t \in Threads :
           EndsAlone(t) /\ auths' # NoAuth /\ ~RefreshCancelled(t) => SchedulerInSync']_vars
  BY AloneSyncsStep
<1> QED BY <1>1, ManagerAlwaysTyped, AloneAlwaysSyncs, PTL DEF Spec, AloneSyncsScheduler
-----------------------------------------------------------------------------
(* A result that is recorded alone.                                        *)

\* What is left of the program of a result: the marks it calls for are its last
\* sections.
Report(p, result) ==
  /\ \A i \in 1 .. Len(p) : p[i] \in {"upsert", "records", "save", "quota", "suspend"}
  /\ result \in {"success", "quota", "rejected"} =>
       \A i \in 1 .. Len(p) : p[i] = "suspend" <=> i = Len(p)
  /\ result \in {"success", "quota"} =>
       \A i \in 1 .. Len(p) : p[i] = "quota" <=> i = Len(p) - 1

\* Only results run on the request goroutines; where one runs alone, the manager's
\* credential is as it left it, and the registry has its first mark when only the
\* second is left.
Reporting ==
  /\ \A t \in Requests : Report(todo[t], local[t].result)
  /\ solo \in Requests =>
       /\ auths # NoAuth
       /\ local[solo].result \in Results
       /\ local[solo].result # "request" => auths.ms = StateAfter(local[solo].result)
       /\ Len(todo[solo]) = 1 /\ local[solo].result \in {"success", "quota"} =>
            reg.quota = (local[solo].result = "quota")

LEMMA EmptyReports == ASSUME NEW result PROVE Report(<<>>, result)
BY DEF Report

LEMMA AfterResultReports ==
  ASSUME NEW changed \in BOOLEAN, NEW result \in Results
  PROVE  LET p == AfterResult(changed, result) IN
         /\ Report(p, result) /\ Len(p) \in Nat
         /\ result \in {"success", "quota"} => Len(p) # 1
<1> DEFINE p == AfterResult(changed, result)
<1>1. /\ Len(p) \in 1 .. 5 /\ p[1] = "upsert"
      /\ \A i \in 2 .. Len(p) : p[i] \in {"records", "save", "quota", "suspend"}
      /\ result \in {"success", "quota", "rejected"} =>
           \A i \in 1 .. Len(p) : p[i] = "suspend" <=> i = Len(p)
      /\ result \in {"success", "quota"} =>
           Len(p) > 2 /\ \A i \in 1 .. Len(p) : p[i] = "quota" <=> i = Len(p) - 1
  BY AfterResultSectionKinds DEF ResultSections
<1> HIDE DEF p
<1>2. \A i \in 1 .. Len(p) : i = 1 \/ i \in 2 .. Len(p)
  BY <1>1
<1>3. Report(p, result)
  BY <1>1, <1>2 DEF Report
<1> QED BY <1>1, <1>3 DEF p

LEMMA RestReports ==
  ASSUME NEW p \in Seq(Sections), p # <<>>, NEW result, Report(p, result)
  PROVE  /\ Report(Tail(p), result) /\ Len(Tail(p)) = Len(p) - 1 /\ Len(p) \in Nat
         /\ p[1] \in {"upsert", "records", "save", "quota", "suspend"}
         /\ result \in {"success", "quota", "rejected"} => (p[1] = "suspend" <=> Len(p) = 1)
         /\ result \in {"success", "quota"} => (p[1] = "quota" <=> Len(p) = 2)
<1> DEFINE q == Tail(p)
<1>1. /\ q \in Seq(Sections) /\ Len(q) = Len(p) - 1 /\ Len(p) \in Nat /\ 1 \in 1 .. Len(p)
      /\ \A i \in 1 .. Len(q) : i + 1 \in 1 .. Len(p) /\ q[i] = p[i + 1]
  BY RestOfProgram
<1> HIDE DEF q
<1>2. ASSUME NEW i \in 1 .. Len(q)
      PROVE  /\ q[i] \in {"upsert", "records", "save", "quota", "suspend"}
             /\ result \in {"success", "quota", "rejected"} => (q[i] = "suspend" <=> i = Len(q))
             /\ result \in {"success", "quota"} => (q[i] = "quota" <=> i = Len(q) - 1)
  <2>1. i + 1 \in 1 .. Len(p) /\ q[i] = p[i + 1] /\ i \in Nat
    BY <1>1
  <2>2. i + 1 = Len(p) <=> i = Len(q)
    BY <1>1, <2>1
  <2>3. i + 1 = Len(p) - 1 <=> i = Len(q) - 1
    BY <1>1, <2>1
  <2> QED BY <2>1, <2>2, <2>3 DEF Report
<1>3. Report(q, result)
  BY <1>2 DEF Report
<1>4. /\ p[1] \in {"upsert", "records", "save", "quota", "suspend"}
      /\ result \in {"success", "quota", "rejected"} => (p[1] = "suspend" <=> 1 = Len(p))
      /\ result \in {"success", "quota"} => (p[1] = "quota" <=> 1 = Len(p) - 1)
  BY <1>1 DEF Report
<1>5. 1 = Len(p) - 1 <=> Len(p) = 2
  BY <1>1
<1> QED BY <1>1, <1>3, <1>4, <1>5 DEF q

\* A request goroutine is never at any other section.
LEMMA RequestSection ==
  ASSUME ManagerTyped, Reporting, NEW t \in Requests, Section(t)
  PROVE  /\ t \in Threads /\ todo[t] \in Seq(Sections) /\ todo[t] # <<>>
         /\ Report(todo[t], local[t].result)
         /\ UpsertScheduler(t) \/ TakeRecords(t) \/ SaveRecords(t) \/ MarkQuota(t) \/ MarkSuspend(t)
         /\ todo'[t] = Tail(todo[t]) /\ auths' = auths
         /\ todo'[t] # <<>> => local'[t].result = local[t].result
         /\ MarkQuota(t) => reg'.quota = (local[t].result = "quota")
         /\ MarkSuspend(t) => reg'.susp = (local[t].result # "success") /\ reg'.quota = reg.quota
<1>1. t \in Threads /\ todo[t] # <<>> /\ Report(todo[t], local[t].result)
  BY SectionGoes DEF Threads, Reporting
<1>2. todo[t] \in Seq(Sections) /\ local[t] \in LocalRecords
  BY <1>1 DEF ManagerTyped, Programmed, Threaded, WellFormed
<1>3. Head(todo[t]) \in {"upsert", "records", "save", "quota", "suspend"}
  BY <1>1, <1>2, RestReports, RestOfProgram
<1>4. UpsertScheduler(t) \/ TakeRecords(t) \/ SaveRecords(t) \/ MarkQuota(t) \/ MarkSuspend(t)
  BY <1>3 DEF Section, Put, RefreshFailed, RefreshCancelled, Reread, RegisterClient, UnregisterClient,
     ReadSupported, Reconcile, ReadLatest, Delete, Unschedule, At
<1>5. PICK l : Goto(t, Tail(todo[t]), l) /\ l.result = local[t].result /\ auths' = auths
  <2>1. CASE TakeRecords(t)
    <3> DEFINE m == [local[t] EXCEPT !.rec = HasRecord(auths)]
    <3>1. Goto(t, Tail(todo[t]), m) /\ auths' = auths
      BY <2>1 DEF TakeRecords
    <3>2. m.result = local[t].result
      BY <1>2 DEF LocalRecords
    <3> QED BY <3>1, <3>2
  <2>2. CASE UpsertScheduler(t) \/ SaveRecords(t) \/ MarkQuota(t) \/ MarkSuspend(t)
    BY <2>2 DEF UpsertScheduler, SaveRecords, MarkQuota, MarkSuspend, Continue
  <2> QED BY <1>4, <2>1, <2>2
<1>6. todo'[t] = Tail(todo[t]) /\ (todo'[t] # <<>> => local'[t] = l)
  BY <1>1, <1>5, Gone
<1>7. MarkQuota(t) => reg'.quota = (local[t].result = "quota")
  BY DEF MarkQuota, ManagerTyped, ViewType
<1>8. MarkSuspend(t) => reg'.susp = (local[t].result # "success") /\ reg'.quota = reg.quota
  BY DEF MarkSuspend, ManagerTyped, ViewType
<1> QED BY <1>1, <1>2, <1>4, <1>5, <1>6, <1>7, <1>8

LEMMA MarkResultReports ==
  ASSUME ManagerTyped, Reporting, NEW t \in Requests, NEW result \in Results, MarkResult(t, result)
  PROVE  Reporting'
<1> DEFINE a == Recorded(auths, result)
           changed == result # "request" /\ (HasRecord(auths) \/ HasRecord(a))
           l == [NoLocal EXCEPT !.auth = a, !.result = result]
           p == AfterResult(changed, result)
<1>1. auths' = a /\ Begin(t, p, l) /\ t \in Threads /\ auths # NoAuth
  BY DEF MarkResult, Threads
<1>2. changed \in BOOLEAN
  BY DEF HasRecord
<1>3. a # NoAuth /\ (result # "request" => a.ms = StateAfter(result))
  <2>1. auths \in Credential
    BY <1>1 DEF ManagerTyped, ViewType
  <2> QED BY <2>1, RecordedTyped, NilIsNoCredential
<1> HIDE DEF a
<1>4. l.result = result
  BY DEF NoLocal
<1> HIDE DEF changed, l
<1>5. Report(p, result) /\ (result \in {"success", "quota"} => Len(p) # 1)
  BY <1>2, AfterResultReports
<1> HIDE DEF p
<1>6. /\ todo'[t] = p /\ local'[t] = l
      /\ \A u \in Threads : u # t => todo'[u] = todo[u] /\ local'[u] = local[u]
      /\ solo' \in Threads => solo' = t
  BY <1>1, Begun
<1>7. ASSUME NEW u \in Requests PROVE Report(todo'[u], local'[u].result)
  <2>1. u \in Threads
    BY DEF Threads
  <2> QED BY <1>4, <1>5, <1>6, <2>1 DEF Reporting
<1>8. ASSUME solo' \in Requests
      PROVE  /\ auths' # NoAuth
             /\ local'[solo'].result \in Results
             /\ local'[solo'].result # "request" => auths'.ms = StateAfter(local'[solo'].result)
             /\ local'[solo'].result \in {"success", "quota"} => Len(todo'[solo']) # 1
  <2>1. solo' = t
    BY <1>6, <1>8 DEF Threads
  <2>2. local'[solo'].result = result /\ todo'[solo'] = p
    BY <1>4, <1>6, <2>1
  <2> QED BY <1>1, <1>3, <1>5, <2>2
<1>9. \A u \in Requests : Report(todo[u], local[u].result)'
  BY <1>7 DEF Report
<1> QED BY <1>8, <1>9 DEF Reporting, StateAfter

LEMMA OtherStartReports ==
  ASSUME ManagerTyped, Reporting, NEW t \in Operators, NEW p, NEW l, Begin(t, p, l)
  PROVE  Reporting'
<1>1. t \in Threads /\ t \notin Requests /\ Requests \subseteq Threads
  BY ManagerAssumption DEF Threads
<1>2. /\ \A u \in Threads : u # t => todo'[u] = todo[u] /\ local'[u] = local[u]
      /\ solo' \in Threads => solo' = t
  BY <1>1, Begun
<1>3. \A u \in Requests : todo'[u] = todo[u] /\ local'[u] = local[u]
  BY <1>1, <1>2
<1>4. solo' \notin Requests
  BY <1>1, <1>2
<1> QED BY <1>3, <1>4 DEF Reporting, Report

LEMMA RequestReports ==
  ASSUME ManagerTyped, AloneSyncs, Reporting, NEW t \in Requests, Section(t)
  PROVE  Reporting'
<1> DEFINE p == todo[t]
           r == local[t].result
<1>1. /\ t \in Threads /\ p \in Seq(Sections) /\ p # <<>> /\ Report(p, r)
      /\ UpsertScheduler(t) \/ TakeRecords(t) \/ SaveRecords(t) \/ MarkQuota(t) \/ MarkSuspend(t)
      /\ todo'[t] = Tail(p) /\ auths' = auths
      /\ todo'[t] # <<>> => local'[t].result = r
      /\ MarkQuota(t) => reg'.quota = (r = "quota")
  BY RequestSection
<1>2. /\ \A u \in Threads : u # t => todo'[u] = todo[u] /\ local'[u] = local[u]
      /\ solo' = IF todo'[t] = <<>> /\ solo = t THEN NoAuth ELSE solo
  BY <1>1, SectionGoes
<1>3. /\ Report(Tail(p), r) /\ Len(Tail(p)) = Len(p) - 1 /\ Len(p) \in Nat
      /\ r \in {"success", "quota"} => (p[1] = "quota" <=> Len(p) = 2)
  BY <1>1, RestReports
<1>4. Head(p) = p[1]
  BY <1>1, RestOfProgram
<1> HIDE DEF p, r
<1>5. ASSUME NEW u \in Requests PROVE Report(todo'[u], local'[u].result)
  <2>1. u \in Threads
    BY DEF Threads
  <2>2. CASE u # t
    BY <1>2, <2>1, <2>2 DEF Reporting
  <2>3. CASE u = t /\ todo'[t] = <<>>
    BY <2>3, EmptyReports
  <2>4. CASE u = t /\ todo'[t] # <<>>
    BY <1>1, <1>3, <2>4
  <2> QED BY <2>2, <2>3, <2>4
<1>6. ASSUME solo' \in Requests
      PROVE  /\ auths' # NoAuth
             /\ local'[solo'].result \in Results
             /\ local'[solo'].result # "request" => auths'.ms = StateAfter(local'[solo'].result)
             /\ Len(todo'[solo']) = 1 /\ local'[solo'].result \in {"success", "quota"} =>
                  reg'.quota = (local'[solo'].result = "quota")
  <2>1. NoAuth \notin Requests /\ Requests \subseteq Threads
    BY ManagerAssumption DEF Threads
  <2>2. solo' = solo /\ solo \in Threads /\ solo \in Requests
    BY <1>2, <1>6, <2>1
  <2>3. solo = t
    BY <1>1, <2>2, SectionSyncs
  <2>4. todo'[t] # <<>>
    BY <1>2, <1>6, <2>1, <2>3
  <2>5. local'[t].result = r
    BY <1>1, <2>4
  <2>6. auths # NoAuth /\ r \in Results /\ (r # "request" => auths.ms = StateAfter(r))
    BY <2>2, <2>3 DEF Reporting, r
  <2>7. ASSUME Len(todo'[t]) = 1, r \in {"success", "quota"} PROVE reg'.quota = (r = "quota")
    <3>1. Len(p) = 2
      <4>1. Len(Tail(p)) = 1
        BY <1>1, <2>7
      <4> QED BY <1>3, <4>1
    <3>2. Head(todo[t]) = "quota"
      BY <1>3, <1>4, <2>7, <3>1 DEF p
    <3>3. MarkQuota(t)
      BY <1>1, <3>2 DEF UpsertScheduler, TakeRecords, SaveRecords, MarkSuspend, At
    <3> QED BY <1>1, <3>3
  <2> QED BY <1>1, <2>2, <2>3, <2>5, <2>6, <2>7
<1>7. \A u \in Requests : Report(todo[u], local[u].result)'
  BY <1>5 DEF Report
<1> QED BY <1>6, <1>7 DEF Reporting, StateAfter

LEMMA OtherReports ==
  ASSUME ManagerTyped, AloneSyncs, Reporting, NEW t \in Threads, t \notin Requests, Section(t)
  PROVE  Reporting'
<1>1. /\ \A u \in Threads : u # t => todo'[u] = todo[u] /\ local'[u] = local[u]
      /\ solo' = IF todo'[t] = <<>> /\ solo = t THEN NoAuth ELSE solo
  BY SectionGoes
<1>2. NoAuth \notin Requests /\ Requests \subseteq Threads
  BY ManagerAssumption DEF Threads
<1>3. \A u \in Requests : todo'[u] = todo[u] /\ local'[u] = local[u]
  BY <1>1, <1>2
<1>4. solo' \notin Requests
  <2>1. solo \in Threads => solo = t
    BY SectionSyncs
  <2> QED BY <1>1, <1>2, <2>1
<1> QED BY <1>3, <1>4 DEF Reporting, Report

LEMMA ReportingStarts == Init => Reporting
<1> SUFFICES ASSUME Init PROVE Reporting
  OBVIOUS
<1>1. NoAuth \notin Requests /\ Requests \subseteq Threads
  BY ManagerAssumption DEF Threads
<1>2. \A t \in Requests : todo[t] = <<>>
  BY <1>1 DEF Init
<1> QED BY <1>1, <1>2, EmptyReports DEF Init, Reporting

LEMMA ReportingStays == ManagerTyped /\ AloneSyncs /\ Reporting /\ [Next]_vars => Reporting'
<1> SUFFICES ASSUME ManagerTyped, AloneSyncs, Reporting, [Next]_vars PROVE Reporting'
  OBVIOUS
<1>1. CASE \E t \in Requests, result \in Results : MarkResult(t, result)
  BY <1>1, MarkResultReports
<1>2. CASE May("refresh", "refresh") /\ StartRefresh("refresh")
  BY <1>2, OtherStartReports DEF May, StartRefresh
<1>3. CASE May("admin", "patch") /\ \E d \in BOOLEAN : StartPatch("admin", d)
  BY <1>3, OtherStartReports DEF May, StartPatch
<1>4. CASE May("service", "add") /\ \E d \in BOOLEAN : StartAdd("service", d)
  BY <1>4, OtherStartReports DEF May, StartAdd
<1>5. CASE May("service", "remove") /\ StartRemove("service")
  BY <1>5, OtherStartReports DEF May, StartRemove
<1>6. CASE May("models", "models") /\ StartModels("models")
  BY <1>6, OtherStartReports DEF May, StartModels
<1>7. CASE \E t \in Threads : Section(t)
  BY <1>7, RequestReports, OtherReports
<1>8. CASE UNCHANGED vars
  BY <1>8 DEF vars, Reporting, Report
<1> QED BY <1>1, <1>2, <1>3, <1>4, <1>5, <1>6, <1>7, <1>8 DEF Next, Start

LEMMA AlwaysReporting == Spec => []Reporting
BY ManagerAlwaysTyped, AloneAlwaysSyncs, ReportingStarts, ReportingStays, PTL DEF Spec

LEMMA ReportStep ==
  ASSUME ManagerTyped, AloneSyncs, Reporting, [Next]_vars, NEW t \in Requests, EndsAlone(t),
         local[t].result # "request"
  PROVE  MarksInSync'
<1> DEFINE r == local[t].result
<1>1. solo = t /\ todo[t] # <<>> /\ todo'[t] = <<>> /\ t \in Threads
  BY DEF EndsAlone, Threads
<1>2. Section(t)
  BY <1>1, EndingStep DEF AloneSyncs
<1>3. /\ todo[t] \in Seq(Sections) /\ Report(todo[t], r)
      /\ UpsertScheduler(t) \/ TakeRecords(t) \/ SaveRecords(t) \/ MarkQuota(t) \/ MarkSuspend(t)
      /\ todo'[t] = Tail(todo[t]) /\ auths' = auths
      /\ MarkSuspend(t) => reg'.susp = (r # "success") /\ reg'.quota = reg.quota
  BY <1>2, RequestSection
<1>4. r \in Results /\ auths.ms = StateAfter(r)
  BY <1>1 DEF Reporting
<1>5. Len(todo[t]) = 1 /\ (r \in {"success", "quota", "rejected"} => Head(todo[t]) = "suspend")
  <2>1. /\ Len(Tail(todo[t])) = Len(todo[t]) - 1 /\ Len(todo[t]) \in Nat
        /\ r \in {"success", "quota", "rejected"} => (todo[t][1] = "suspend" <=> Len(todo[t]) = 1)
    BY <1>1, <1>3, RestReports
  <2>2. Len(Tail(todo[t])) = 0
    <3>1. Tail(todo[t]) = <<>>
      BY <1>1, <1>3
    <3>2. Len(<<>>) = 0
      OBVIOUS
    <3> QED BY <3>1, <3>2
  <2>3. Len(todo[t]) = 1
    BY <2>1, <2>2
  <2> QED BY <1>1, <1>3, <2>1, <2>3, RestOfProgram
<1>6. r \in {"success", "quota"} => reg.quota = (r = "quota")
  BY <1>1, <1>5 DEF Reporting
<1> HIDE DEF r
<1>7. CASE r \in {"success", "quota", "rejected"}
  <2>1. MarkSuspend(t)
    BY <1>3, <1>5, <1>7 DEF UpsertScheduler, TakeRecords, SaveRecords, MarkQuota, At
  <2>2. reg'.susp = (r # "success") /\ reg'.quota = reg.quota
    BY <1>3, <2>1
  <2>3. auths'.ms = StateAfter(r)
    BY <1>3, <1>4
  <2> QED BY <1>6, <1>7, <2>2, <2>3 DEF MarksInSync, StateAfter
<1>8. CASE r \notin {"success", "quota", "rejected"}
  <2>1. auths'.ms \notin {"clean", "quota", "rejected"}
    BY <1>3, <1>4, <1>8, ManagerAssumption DEF StateAfter, AllResults
  <2> QED BY <2>1 DEF MarksInSync
<1> QED BY <1>7, <1>8

\* Whatever races left the registry's marks wrong, the next result about the model that
\* is recorded without company makes them fit what the manager says of it: MarkResult
\* ends with the marks the kind of result calls for - both lifted by a success, both set
\* by a quota error, the suspension by a rejection (conductor.go).
THEOREM LastResultSyncsMarks == Spec => AloneResultSyncsMarks
<1>1. ManagerTyped /\ AloneSyncs /\ Reporting /\ [Next]_vars =>
        [\A t \in Requests :
           EndsAlone(t) /\ local[t].result # "request" => MarksInSync']_vars
  BY ReportStep
<1> QED BY <1>1, ManagerAlwaysTyped, AloneAlwaysSyncs, AlwaysReporting, PTL DEF Spec, AloneResultSyncsMarks
=============================================================================
