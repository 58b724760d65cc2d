----------------------------- MODULE AuthManager ----------------------------
(***************************************************************************)
(* What is concurrent around one credential (sdk/cliproxy/auth/conductor.go *)
(* and sdk/cliproxy/service.go).                                           *)
(*                                                                         *)
(* The manager's map is the truth; three views of it are kept elsewhere:   *)
(* the scheduler's snapshot, the registry's binding and marks, and the     *)
(* cooldown file.  Each has a lock of its own, and every operation brings  *)
(* the views up to date AFTER it has left the manager's lock, from values  *)
(* it read inside.  Operations of different goroutines interleave between  *)
(* these critical sections; one critical section is one action here.       *)
(*                                                                         *)
(* The credential is reduced to its disabled flag and to what its model    *)
(* states say of one model: none, clean, in error, or cooling down after a *)
(* failure that the registry is told of (a quota error, a rejection) or is *)
(* not (a transient one).  AuthCooldown has the detail; here cooling is    *)
(* switched on and no cooldown ends by itself.  The scheduler is reduced   *)
(* to the snapshot it holds (AuthScheduler), the registry to this          *)
(* credential's binding and marks of that model (ModelRegistry), where     *)
(* another client keeps the model's registration alive.                    *)
(***************************************************************************)
EXTENDS Sequences, Naturals, FiniteSets

CONSTANTS
  Requests,   \* request goroutines
  Operators,  \* the other goroutines, subset of Others
  Programs,   \* what the operators may start, subset of AllPrograms
  Results,    \* bound: what requests report, subset of AllResults
  MaxBusy,    \* bound: goroutines at work at one time
  NoAuth      \* nil

Others == {"refresh", "admin", "service", "models"}
AllPrograms == {"refresh", "patch", "add", "remove", "models"}

\* What a request may report of the model: a success; a 429; a 401, 402, 403, 404
\* or an unsupported model; a 408, 5xx or Cloudflare challenge; any other failure;
\* a failure that is the request's own fault.
AllResults == {"success", "quota", "rejected", "transient", "other", "request"}

\* auth.ModelStates[model]; an error is "cleared" when its block was taken back.
CoolingStates == {"quota", "rejected", "transient"}
States == {"none", "clean", "errored", "cleared"} \union CoolingStates

ASSUME ManagerAssumption ==
  /\ Operators \subseteq Others
  /\ Programs \subseteq AllPrograms
  /\ Results \subseteq AllResults
  /\ Requests \intersect Others = {}
  /\ IsFiniteSet(Requests)
  /\ NoAuth \notin Requests \union Others \union [disabled : BOOLEAN, ms : States]
  /\ MaxBusy \in Nat \ {0}

VARIABLES
  auths,  \* m.auths[id]
  sched,  \* the scheduler's snapshot of it
  reg,    \* the registry: bound, quota mark, suspension
  disk,   \* whether the store holds a cooldown record
  todo,   \* thread -> critical sections it still has to run
  local,  \* thread -> the values it read
  solo,   \* history: the thread that has run alone since it started
  off     \* history: the operator's last word was "disabled"

vars == <<auths, sched, reg, disk, todo, local, solo, off>>

Threads == Requests \union Operators
Credential == [disabled : BOOLEAN, ms : States]

Idle(t) == todo[t] = <<>>
Busy == {t \in Threads : ~Idle(t)}
Quiet == Busy = {}

NoLocal == [auth |-> NoAuth, rec |-> FALSE, supported |-> FALSE,
            exists |-> FALSE, result |-> "none"]

-----------------------------------------------------------------------------
(* What the critical sections compute.                                     *)

\* scheduler.upsertAuth: a disabled credential is removed; the model set is
\* read from the registry at that moment.
Scheduled(a) ==
  IF a.disabled THEN NoAuth ELSE [ms |-> a.ms, supports |-> reg.bound]

\* cooldownStateRecordsForAuthLocked.
HasRecord(a) == a # NoAuth /\ ~a.disabled /\ a.ms \in CoolingStates

\* clearCooldownStateForAuth.
ClearedIfDisabled(a) ==
  IF a.disabled /\ a.ms \in CoolingStates \union {"errored"} THEN [a EXCEPT !.ms = "cleared"] ELSE a

\* The state of the model that a result leaves.
StateAfter(result) ==
  CASE result = "success" -> "clean"
    [] result = "other" -> "errored"
    [] OTHER -> result

Recorded(a, result) == IF result = "request" THEN a ELSE [a EXCEPT !.ms = StateAfter(result)]

\* The model states Update keeps: those of the new value unless it has none
\* and neither value is disabled.
Inherited(a, old) ==
  IF ~old.disabled /\ ~a.disabled /\ a.ms = "none" THEN [a EXCEPT !.ms = old.ms] ELSE a

Unbound == [bound |-> FALSE, quota |-> FALSE, susp |-> FALSE]

\* registerModelsForAuth: a disabled credential is unregistered; marks are
\* dropped with a binding or when a binding is renewed, not by a first one.
Registered(a) ==
  IF a.disabled THEN IF reg.bound THEN Unbound ELSE reg
  ELSE IF reg.bound THEN [Unbound EXCEPT !.bound = TRUE]
  ELSE [reg EXCEPT !.bound = TRUE]

-----------------------------------------------------------------------------
(* The programs: the critical sections of an operation, in order.  Those   *)
(* that depend on what a section finds are appended when it runs.          *)

Save == <<"records", "save">>

\* The registry hears of a success and of a quota error twice, of a rejection once,
\* of other failures never.
Marking(result) ==
  CASE result \in {"success", "quota"} -> <<"quota", "suspend">>
    [] result = "rejected" -> <<"suspend">>
    [] OTHER -> <<>>

\* Mutant of AfterResult: the scheduler is told only when a record changed.
AfterResultLazily(changed, result) == (IF changed THEN <<"upsert">> \o Save ELSE <<>>) \o Marking(result)

AfterResult(changed, result) == <<"upsert">> \o (IF changed THEN Save ELSE <<>>) \o Marking(result)

AfterPut(cleared) == <<"upsert">> \o (IF cleared THEN Save ELSE <<>>)

\* Mutant of RefreshEntry: the scheduler is not told of the models.
NoRefreshEntry == <<>>

RefreshEntry == <<"reread", "upsert">>

\* completeModelRegistrationForAuth.
RegisterModels == <<"register", "supported", "reconcile">> \o RefreshEntry

\* refreshModelRegistrationForAuth.
RefreshModels == <<"register", "supported", "reconcile", "latest">>

Removal == <<"unregister", "delete", "unschedule">> \o Save

-----------------------------------------------------------------------------
(* Starting an operation.                                                  *)

Begin(t, program, l) ==
  /\ Cardinality(Busy) < MaxBusy
  /\ todo' = [todo EXCEPT ![t] = program]
  /\ local' = [local EXCEPT ![t] = l]
  /\ solo' = IF Quiet THEN t ELSE NoAuth

\* MarkResult under the manager's lock.  A result for a credential that is gone
\* changes nothing.
MarkResult(t, result) ==
  /\ Idle(t) /\ auths # NoAuth
  /\ LET a == Recorded(auths, result)
         changed == result # "request" /\ (HasRecord(auths) \/ HasRecord(a))
     IN /\ auths' = a
        /\ Begin(t, AfterResult(changed, result), [NoLocal EXCEPT !.auth = a, !.result = result])
  /\ UNCHANGED <<sched, reg, disk, off>>

\* refreshAuth and PatchAuthFileStatus: read a clone, write it back later.
StartRefresh(t) ==
  /\ Idle(t) /\ auths # NoAuth
  /\ Begin(t, <<"put">>, [NoLocal EXCEPT !.auth = auths, !.exists = TRUE])
  /\ UNCHANGED <<auths, sched, reg, disk, off>>

StartPatch(t, d) ==
  /\ Idle(t) /\ auths # NoAuth
  /\ Begin(t, <<"put">>, [NoLocal EXCEPT !.auth = [auths EXCEPT !.disabled = d], !.exists = TRUE])
  /\ UNCHANGED <<auths, sched, reg, disk, off>>

\* applyCoreAuthAddOrUpdate: the credential as its file has it now.
StartAdd(t, d) ==
  /\ Idle(t)
  /\ LET a == [disabled |-> d, ms |-> "none"] IN
     Begin(t, <<"put">> \o RegisterModels,
           [NoLocal EXCEPT !.auth = IF auths = NoAuth THEN a ELSE Inherited(a, auths),
                           !.exists = auths # NoAuth])
  /\ UNCHANGED <<auths, sched, reg, disk, off>>

\* applyCoreAuthRemoval.
StartRemove(t) ==
  /\ Idle(t)
  /\ Begin(t, Removal, NoLocal)
  /\ UNCHANGED <<auths, sched, reg, disk, off>>

\* The callback of the model catalog passes over disabled credentials.
StartModels(t) ==
  /\ Idle(t) /\ auths # NoAuth /\ ~auths.disabled
  /\ Begin(t, RefreshModels, [NoLocal EXCEPT !.auth = auths])
  /\ UNCHANGED <<auths, sched, reg, disk, off>>

-----------------------------------------------------------------------------
(* The critical sections.                                                  *)

At(t, section) == ~Idle(t) /\ Head(todo[t]) = section

\* The rest of the program; finished threads forget what they read.
Goto(t, rest, l) ==
  /\ todo' = [todo EXCEPT ![t] = rest]
  /\ local' = [local EXCEPT ![t] = IF rest = <<>> THEN NoLocal ELSE l]
  /\ solo' = IF rest = <<>> /\ solo = t THEN NoAuth ELSE solo

Continue(t) == Goto(t, Tail(todo[t]), local[t])

\* Mutant of Put: a credential that is gone is written all the same.
PutAlways(t) ==
  /\ At(t, "put")
  /\ LET a == local[t].auth
         b == ClearedIfDisabled(IF local[t].exists /\ auths # NoAuth THEN Inherited(a, auths) ELSE a)
     IN /\ auths' = b
        /\ off' = IF t = "refresh" THEN off ELSE b.disabled
        /\ Goto(t, AfterPut(a # b) \o Tail(todo[t]), [local[t] EXCEPT !.auth = b])
  /\ UNCHANGED <<sched, reg, disk>>

\* Update, or Register when the service found no credential: an update of a
\* credential that is gone is dropped, the registration of models goes on.
Put(t) ==
  /\ At(t, "put")
  /\ IF local[t].exists /\ auths = NoAuth
     THEN /\ Continue(t)
          /\ UNCHANGED <<auths, off>>
     ELSE LET a == IF local[t].exists THEN Inherited(local[t].auth, auths) ELSE local[t].auth
              b == ClearedIfDisabled(a)
          IN /\ auths' = b
             /\ off' = IF t = "refresh" THEN off ELSE b.disabled
             /\ Goto(t, AfterPut(a # b) \o Tail(todo[t]), [local[t] EXCEPT !.auth = b])
  /\ UNCHANGED <<sched, reg, disk>>

\* A token refresh that failed writes no clone back; the credential as it is now
\* goes to the scheduler inside the manager's lock.
RefreshFailed(t) ==
  /\ At(t, "put") /\ t = "refresh"
  /\ sched' = IF auths = NoAuth THEN sched ELSE Scheduled(auths)
  /\ Continue(t)
  /\ UNCHANGED <<auths, reg, disk, off>>

\* One that was cancelled records nothing at all.
RefreshCancelled(t) ==
  /\ At(t, "put") /\ t = "refresh"
  /\ Continue(t)
  /\ UNCHANGED <<auths, sched, reg, disk, off>>

UpsertScheduler(t) ==
  /\ At(t, "upsert")
  /\ sched' = Scheduled(local[t].auth)
  /\ Continue(t)
  /\ UNCHANGED <<auths, reg, disk, off>>

\* Mutant of Reread: it does not look whether the credential is still there.
RereadUnchecked(t) ==
  /\ At(t, "reread")
  /\ Goto(t, Tail(todo[t]), [local[t] EXCEPT !.auth = auths])
  /\ UNCHANGED <<auths, sched, reg, disk, off>>

\* RefreshSchedulerEntry reads the credential, and stops if it is gone.
Reread(t) ==
  /\ At(t, "reread")
  /\ IF auths = NoAuth THEN Goto(t, Tail(Tail(todo[t])), local[t])
     ELSE Goto(t, Tail(todo[t]), [local[t] EXCEPT !.auth = auths])
  /\ UNCHANGED <<auths, sched, reg, disk, off>>

\* persistCooldownStates: the records are taken under the manager's lock ...
TakeRecords(t) ==
  /\ At(t, "records")
  /\ Goto(t, Tail(todo[t]), [local[t] EXCEPT !.rec = HasRecord(auths)])
  /\ UNCHANGED <<auths, sched, reg, disk, off>>

\* ... and written under the store's.
SaveRecords(t) ==
  /\ At(t, "save")
  /\ disk' = local[t].rec
  /\ Continue(t)
  /\ UNCHANGED <<auths, sched, reg, off>>

MarkQuota(t) ==
  /\ At(t, "quota")
  /\ reg' = [reg EXCEPT !.quota = local[t].result = "quota"]
  /\ Continue(t)
  /\ UNCHANGED <<auths, sched, disk, off>>

\* Mutant of MarkSuspend: a success does not resume the client.
MarkSuspendOnly(t) ==
  /\ At(t, "suspend")
  /\ reg' = IF local[t].result # "success" THEN [reg EXCEPT !.susp = TRUE] ELSE reg
  /\ Continue(t)
  /\ UNCHANGED <<auths, sched, disk, off>>

MarkSuspend(t) ==
  /\ At(t, "suspend")
  /\ reg' = [reg EXCEPT !.susp = local[t].result # "success"]
  /\ Continue(t)
  /\ UNCHANGED <<auths, sched, disk, off>>

RegisterClient(t) ==
  /\ At(t, "register")
  /\ reg' = Registered(local[t].auth)
  /\ Continue(t)
  /\ UNCHANGED <<auths, sched, disk, off>>

UnregisterClient(t) ==
  /\ At(t, "unregister")
  /\ reg' = IF reg.bound THEN Unbound ELSE reg
  /\ Continue(t)
  /\ UNCHANGED <<auths, sched, disk, off>>

\* ReconcileRegistryModelStates reads the registry first ...
ReadSupported(t) ==
  /\ At(t, "supported")
  /\ Goto(t, Tail(todo[t]), [local[t] EXCEPT !.supported = reg.bound])
  /\ UNCHANGED <<auths, sched, reg, disk, off>>

\* ... then resets the states of supported models and drops the others.
Reconcile(t) ==
  /\ At(t, "reconcile")
  /\ LET ms == IF local[t].supported THEN "clean" ELSE "none"
         changes == auths # NoAuth /\ auths.ms \notin {"none", ms}
     IN IF changes
        THEN /\ auths' = [auths EXCEPT !.ms = ms]
             /\ Goto(t, <<"upsert">> \o Tail(todo[t]), [local[t] EXCEPT !.auth = auths'])
        ELSE Continue(t) /\ UNCHANGED auths
  /\ UNCHANGED <<sched, reg, disk, off>>

\* The model refresh looks at the credential again.
ReadLatest(t) ==
  /\ At(t, "latest")
  /\ IF auths = NoAuth \/ auths.disabled
     THEN Goto(t, <<"unregister">> \o RefreshEntry, local[t])
     ELSE Goto(t, RegisterModels, [local[t] EXCEPT !.auth = auths])
  /\ UNCHANGED <<auths, sched, reg, disk, off>>

\* Remove; without a credential it returns at once.
Delete(t) ==
  /\ At(t, "delete")
  /\ IF auths = NoAuth THEN Goto(t, <<>>, local[t]) ELSE Continue(t)
  /\ auths' = NoAuth
  /\ UNCHANGED <<sched, reg, disk, off>>

Unschedule(t) ==
  /\ At(t, "unschedule")
  /\ sched' = NoAuth
  /\ Continue(t)
  /\ UNCHANGED <<auths, reg, disk, off>>

-----------------------------------------------------------------------------

Init ==
  /\ auths = NoAuth
  /\ sched = NoAuth
  /\ reg = Unbound
  /\ disk = FALSE
  /\ todo = [t \in Threads |-> <<>>]
  /\ local = [t \in Threads |-> NoLocal]
  /\ solo = NoAuth
  /\ off = FALSE

May(t, program) == t \in Operators /\ program \in Programs

Start ==
  \/ \E t \in Requests, result \in Results : MarkResult(t, result)
  \/ May("refresh", "refresh") /\ StartRefresh("refresh")
  \/ May("admin", "patch") /\ \E d \in BOOLEAN : StartPatch("admin", d)
  \/ May("service", "add") /\ \E d \in BOOLEAN : StartAdd("service", d)
  \/ May("service", "remove") /\ StartRemove("service")
  \/ May("models", "models") /\ StartModels("models")

Section(t) ==
  \/ Put(t) \/ RefreshFailed(t) \/ RefreshCancelled(t) \/ UpsertScheduler(t) \/ Reread(t)
  \/ TakeRecords(t) \/ SaveRecords(t)
  \/ MarkQuota(t) \/ MarkSuspend(t) \/ RegisterClient(t) \/ UnregisterClient(t)
  \/ ReadSupported(t) \/ Reconcile(t) \/ ReadLatest(t) \/ Delete(t) \/ Unschedule(t)

Next == Start \/ \E t \in Threads : Section(t)

Spec == Init /\ [][Next]_vars

-----------------------------------------------------------------------------
(* Properties.                                                             *)

Sections == {"put", "upsert", "reread", "records", "save", "quota", "suspend",
             "register", "unregister", "supported", "reconcile", "latest",
             "delete", "unschedule"}

\* Every state variable has its type, and a section that works on a credential
\* has one in hand.
TypeOK ==
  /\ auths \in Credential \union {NoAuth}
  /\ sched \in [ms : States, supports : BOOLEAN] \union {NoAuth}
  /\ reg \in [bound : BOOLEAN, quota : BOOLEAN, susp : BOOLEAN]
  /\ disk \in BOOLEAN
  /\ todo \in [Threads -> Seq(Sections)]
  /\ \A t \in Threads :
       /\ local[t].auth \in Credential \union {NoAuth}
       /\ \A s \in {"put", "upsert", "register"} : At(t, s) => local[t].auth # NoAuth
  /\ solo \in Threads \union {NoAuth}
  /\ off \in BOOLEAN

\* A finishing operation that ran alone, whatever races came before it.
EndsAlone(t) == solo = t /\ todo[t] # <<>> /\ todo'[t] = <<>>

SchedulerInSync == sched = Scheduled(auths)

\* Where the model is clean, the registry holds no mark of it; where it cools down
\* for a quota, both; where it was rejected, the suspension.
MarksInSync ==
  /\ auths.ms = "clean" => ~reg.quota /\ ~reg.susp
  /\ auths.ms = "quota" => reg.quota /\ reg.susp
  /\ auths.ms = "rejected" => reg.susp

\* However stale earlier races have left the scheduler, the next operation on
\* a known credential that runs without company leaves the scheduler with the
\* manager's credential and the registry's models; a token refresh that is
\* cancelled does nothing.
AloneSyncsScheduler ==
  [][\A t \in Threads :
       EndsAlone(t) /\ auths' # NoAuth /\ ~RefreshCancelled(t) => SchedulerInSync']_vars

\* Likewise the next result that runs alone and is about the model makes the
\* registry's marks fit what the manager says of it (MarkResult).
AloneResultSyncsMarks ==
  [][\A t \in Requests :
       EndsAlone(t) /\ local[t].result # "request" => MarksInSync']_vars

\* Only the service creates a credential: neither a result nor a refresh or a
\* change of status that was under way when it was removed brings it back.
OnlyTheServiceCreates ==
  [][auths = NoAuth /\ auths' # NoAuth => At("service", "put") /\ ~local["service"].exists]_vars

\* "Re-apply the latest auth snapshot so concurrent auth updates cannot leave
\* stale model registrations behind" (service.go:2182); a removal is one of the
\* watcher's auth updates.
NoStaleRegistration == Quiet /\ auths = NoAuth => ~reg.bound

\* "Remove deletes an auth from runtime state" (conductor.go:2177): once all is
\* quiet the scheduler does not offer it any more.
RemovedIsUnscheduled == Quiet /\ auths = NoAuth => sched = NoAuth

\* "Disabled indicates the auth is intentionally disabled by operator"
\* (types.go:66): it stays so until the operator or the file says otherwise.
DisabledStaysDisabled == off /\ auths # NoAuth => auths.disabled
=============================================================================
