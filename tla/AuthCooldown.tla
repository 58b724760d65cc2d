---------------------------- MODULE AuthCooldown ---------------------------
(***************************************************************************)
(* The life of one credential's cooldown state: results of requests        *)
(* (Manager.MarkResult), quota resets, model re-registration, changes of   *)
(* the auth file, configuration reloads, and process restarts that keep    *)
(* only what was written to the cooldown store (conductor.go, service.go). *)
(*                                                                         *)
(* One action is what one call does under the manager's lock.  A call that *)
(* has to save the records does so after it has released the lock, in two  *)
(* more steps: it takes a snapshot under the read lock, and writes it      *)
(* under the store's own.  Nothing orders two savers, so snapshots may be  *)
(* written in the other order, and a write may fail.  A reload has parts   *)
(* of its own, because reading the store is outside any lock and requests  *)
(* go on around it.  What happens when the other unlocked parts of calls   *)
(* interleave (scheduler, registry) is in AuthManager.                     *)
(***************************************************************************)
EXTENDS AuthState

CONSTANTS
  Failures, \* bound: the kinds of failure that happen to models
  AuthFailures, \* bound: those of results without a model; {}: no such results
  Hints,    \* values of result.RetryAfter
  MaxTime,  \* bound on the clock
  Storing,  \* TRUE: save-cooldown-status is on, so that there is a store
  Savers,   \* bound: calls other than a reload that save at a time
  Admin     \* TRUE: re-registration, file changes and reloads happen too

Reloader == "reload"   \* the goroutine of the configuration reloads
Writers == Savers \union {Reloader}

ASSUME CooldownAssumption ==
  /\ Failures \subseteq Kinds \ {"request"}
  /\ AuthFailures \subseteq Kinds
  /\ Hints \subseteq Nat
  /\ Reloader \notin Savers
  /\ MaxTime \in Nat \ {0}
  /\ Storing \in BOOLEAN
  /\ Admin \in BOOLEAN

VARIABLES
  auth,   \* m.auths[id]
  off,    \* cooldownDisabledForAuth(auth)
  disk,   \* the records in the credential's .cds file
  save,   \* writer -> its save: due, or with a snapshot in hand
  stale,  \* history: see DiskIsExact
  reload, \* a reload in progress: its phase and the records it has read
  why,    \* history: model -> the last result that changed its state
  now     \* time.Now()

saves == <<save, stale>>
vars == <<auth, off, disk, saves, reload, why, now>>

NoRecords == [k \in Models \union {AuthLevel} |-> NoRecord]
NoSave == [at |-> "none", records |-> NoRecords, old |-> FALSE]
Idle == [phase |-> "idle", records |-> NoRecords]

Init ==
  /\ auth = FreshAuth(FALSE)
  /\ off \in BOOLEAN
  /\ disk = NoRecords
  /\ save = [s \in Writers |-> NoSave]
  /\ stale = FALSE
  /\ reload = Idle
  /\ why = [m \in Models |-> "none"]
  /\ now = 1

-----------------------------------------------------------------------------
(* Saving the records.                                                     *)

\* Whether a call that leaves credential a changes the records to be kept, and
\* the saves under way then: the snapshots already taken are old.
Changes(a, switch) == CooldownRecords(a, switch, now) # CooldownRecords(auth, off, now)
Overtaken(a, switch) ==
  IF Changes(a, switch) THEN [s \in Writers |-> [save[s] EXCEPT !.old = save[s].at = "held"]]
  ELSE save

\* persistCooldownStates, called by a writer that has left the lock.
SaveBy(writers, a, switch) ==
  /\ IF Storing
     THEN \E s \in writers :
            save[s].at = "none" /\ save' = [Overtaken(a, switch) EXCEPT ![s].at = "due"]
     ELSE UNCHANGED save
  /\ UNCHANGED stale

\* A call that returns without saving: a change of the records waits for the
\* next save.
SaveByNobody(a, switch) ==
  /\ save' = Overtaken(a, switch)
  /\ stale' = (stale \/ (Storing /\ Changes(a, switch)))

\* Mutant of SaveIfChanged: only if there is still a record to be kept.
SaveIfChangedAdds(a) ==
  IF Changes(a, off) /\ \E k \in DOMAIN disk : CooldownRecords(a, off, now)[k] # NoRecord
  THEN SaveBy(Savers, a, off) ELSE save' = Overtaken(a, off) /\ UNCHANGED stale

\* A result or a reset saves if it changed the credential's records.
SaveIfChanged(a) == IF Changes(a, off) THEN SaveBy(Savers, a, off) ELSE UNCHANGED saves

\* cooldownStateSnapshot, under the read lock.
TakeSnapshot(s) ==
  /\ save[s].at = "due"
  /\ save' = [save EXCEPT ![s] =
       [at |-> "held", records |-> CooldownRecords(auth, off, now), old |-> FALSE]]
  /\ UNCHANGED <<auth, off, disk, stale, reload, why, now>>

\* The store writes a snapshot, whatever was written since it was taken.
WriteStore(s) ==
  /\ save[s].at = "held"
  /\ disk' = save[s].records
  /\ stale' = save[s].old
  /\ save' = [save EXCEPT ![s] = NoSave]
  /\ UNCHANGED <<auth, off, reload, why, now>>

\* The write fails, which is logged and not tried again.
WriteFails(s) ==
  /\ save[s].at = "held"
  /\ stale' = TRUE
  /\ save' = [save EXCEPT ![s] = NoSave]
  /\ UNCHANGED <<auth, off, disk, reload, why, now>>

-----------------------------------------------------------------------------
(* The calls.                                                              *)

MarkSuccess(m) ==
  /\ auth' = Succeed(auth, m, now)
  /\ SaveIfChanged(auth')
  /\ why' = [why EXCEPT ![m] = "success"]
  /\ UNCHANGED <<off, disk, reload, now>>

MarkFailure(m, kind, hint) ==
  /\ auth' = Fail(auth, m, kind, hint, off, now)
  /\ SaveIfChanged(auth')
  /\ why' = [why EXCEPT ![m] = kind]
  /\ UNCHANGED <<off, disk, reload, now>>

MarkAuthSuccess ==
  /\ auth' = SucceedAuth(auth)
  /\ SaveIfChanged(auth')
  /\ UNCHANGED <<off, disk, reload, why, now>>

MarkAuthFailure(kind, hint) ==
  /\ auth' = FailAuth(auth, kind, hint, off, now)
  /\ SaveIfChanged(auth')
  /\ UNCHANGED <<off, disk, reload, why, now>>

\* If the credential itself cannot be persisted the call ends there, with the
\* reset done and the cooldown records not saved.
ResetQuotaCall ==
  /\ auth' = ResetQuota(auth, now)
  /\ SaveIfChanged(auth') \/ SaveByNobody(auth', off)
  /\ why' = [m \in Models |-> "reset"]
  /\ UNCHANGED <<off, disk, reload, now>>

\* completeModelRegistrationForAuth, on a catalogue refresh or an auth file
\* event: the registry now lists these models.  Nothing is saved.
Reconcile(supported) ==
  /\ auth' = Reconciled(auth, supported, now)
  /\ SaveByNobody(auth', off)
  /\ why' = [m \in Models |-> "reset"]
  /\ UNCHANGED <<off, disk, reload, now>>

\* Manager.Update with record b: the states are inherited if b brings none and
\* neither is disabled, and cleared if b is disabled or cooling is off.  The
\* records are saved only if something was cleared.
Update(b) ==
  LET kept == IF Present(b) = {} /\ ~IsDisabled(auth) /\ ~IsDisabled(b)
              THEN [b EXCEPT !.ms = auth.ms] ELSE b
      clear == (off \/ IsDisabled(kept)) /\ ClearChanges(kept)
      new == IF off \/ IsDisabled(kept) THEN ClearCooldown(kept, now) ELSE kept
  IN /\ auth' = new
     /\ IF clear THEN SaveBy(Savers, new, off) ELSE SaveByNobody(new, off)
     /\ why' = IF Present(new) = {} \/ clear THEN [m \in Models |-> "reset"] ELSE why
     /\ UNCHANGED <<off, disk, reload, now>>

\* The management API toggles a credential: the current record with the flag
\* and the status changed.
PatchDisabled(d) ==
  Update([auth EXCEPT !.disabled = d, !.status = IF d THEN "disabled" ELSE "active"])

\* The auth file changed on disk: its record carries no runtime state.
FileChanged(d) == Update(FreshAuth(d))

\* SetConfig with the new cooling switch.
SetConfig(switch) ==
  LET clear == (switch \/ IsDisabled(auth)) /\ ClearChanges(auth)
      new == IF switch \/ IsDisabled(auth) THEN ClearCooldown(auth, now) ELSE auth
  IN /\ reload.phase = "idle" /\ save[Reloader].at = "none"
     /\ off' = switch
     /\ auth' = new
     /\ IF clear THEN SaveBy({Reloader}, new, switch) ELSE SaveByNobody(new, switch)
     /\ reload' = [phase |-> "load", records |-> NoRecords]
     /\ why' = IF clear THEN [m \in Models |-> "reset"] ELSE why
     /\ UNCHANGED <<disk, now>>

\* Once SetConfig has saved, RestoreCooldownStates reads the store; it ends there
\* if that fails or there are no records ...
ReloadRead ==
  /\ reload.phase = "load" /\ save[Reloader].at = "none"
  /\ \/ reload' = Idle
     \/ disk # NoRecords /\ reload' = [phase |-> "apply", records |-> disk]
  /\ UNCHANGED <<auth, off, disk, saves, why, now>>

\* ... and applies what it read under the lock, then saves.
ReloadApply ==
  /\ reload.phase = "apply"
  /\ auth' = Restore(auth, reload.records, off, now)
  /\ SaveBy({Reloader}, auth', off)
  /\ reload' = Idle
  /\ why' = [m \in Models |-> IF auth'.ms[m] # auth.ms[m] THEN "restored" ELSE why[m]]
  /\ UNCHANGED <<off, disk, now>>

\* The boot sequence of Service.Run after the process died: load the auth
\* files, restore the cooldowns and save them, then register the models of
\* every loaded credential, which reconciles its states.  Nothing else runs yet.
Booted(supported) ==
  LET restored == Restore(FreshAuth(auth.disabled), disk, off, now)
  IN [auth |-> Reconciled(restored, supported, now),
      records |-> CooldownRecords(restored, off, now)]

Restart(supported) ==
  LET b == Booted(supported) IN
  /\ auth' = b.auth
  /\ \/ /\ disk' = IF disk = NoRecords THEN disk ELSE b.records
        /\ stale' = (CooldownRecords(b.auth, off, now) # b.records)
     \/ /\ disk # NoRecords /\ disk' = disk /\ stale' = TRUE  \* the write fails
  /\ save' = [s \in Writers |-> NoSave]
  /\ reload' = Idle
  /\ why' = [m \in Models |-> "booted"]
  /\ UNCHANGED <<off, now>>

Tick ==
  /\ now < MaxTime
  /\ now' = now + 1
  /\ UNCHANGED <<auth, off, disk, saves, reload, why>>

HintsFor(kind) == IF kind = "quota" THEN Hints \union {NoHint} ELSE {NoHint}

MarkOf(m) ==
  \/ MarkSuccess(m)
  \/ \E kind \in Failures : \E hint \in HintsFor(kind) : MarkFailure(m, kind, hint)

Result == \E m \in Models : MarkOf(m)

AuthResult ==
  /\ AuthFailures # {}
  /\ \/ MarkAuthSuccess
     \/ \E kind \in AuthFailures : \E hint \in HintsFor(kind) : MarkAuthFailure(kind, hint)

Administration ==
  /\ Admin
  /\ \/ \E supported \in SUBSET Models : Reconcile(supported) \/ Restart(supported)
     \/ \E d \in BOOLEAN : PatchDisabled(d) \/ FileChanged(d)
     \/ \E switch \in BOOLEAN : SetConfig(switch)
     \/ ReloadRead
     \/ ReloadApply

Saving == \E s \in Writers : TakeSnapshot(s) \/ WriteStore(s) \/ WriteFails(s)

Next == Result \/ AuthResult \/ ResetQuotaCall \/ Administration \/ Saving \/ Tick

Spec == Init /\ [][Next]_vars

-----------------------------------------------------------------------------
(* Properties.                                                             *)

QuotaRecord == [exceeded : BOOLEAN, recover : Nat, level : Nat]
State == [has : BOOLEAN, error : BOOLEAN, unavail : BOOLEAN, next : Nat,
          quota : QuotaRecord, lastErr : BOOLEAN]
Auth == [disabled : BOOLEAN, status : {"active", "error", "disabled"}, unavail : BOOLEAN,
         next : Nat, quota : QuotaRecord, lastErr : BOOLEAN, ms : [Models -> State]]
Record == [next : Nat, quota : QuotaRecord, lastErr : BOOLEAN]
Records == [Models \union {AuthLevel} -> Record]
Save == [at : {"none", "due", "held"}, records : Records, old : BOOLEAN]
Reasons == Kinds \union {"none", "success", "reset", "restored", "booted"}

\* Every variable has the shape its Go type gives it.
TypeOK ==
  /\ auth \in Auth
  /\ off \in BOOLEAN
  /\ disk \in Records
  /\ save \in [Writers -> Save]
  /\ stale \in BOOLEAN
  /\ reload \in [phase : {"idle", "load", "apply"}, records : Records]
  /\ why \in [Models -> Reasons]
  /\ now \in 1 .. MaxTime

\* However many failures, reloads and restarts follow one another, no backoff
\* level ever goes beyond the first one that reaches quotaBackoffMax, so the
\* shift 1 << level of nextQuotaCooldown cannot overflow.
BackoffLevelBounded ==
  /\ auth.quota.level <= MaxLevel
  /\ \A m \in Models : auth.ms[m].quota.level <= MaxLevel
  /\ \A k \in Models \union {AuthLevel} :
       /\ disk[k].quota.level <= MaxLevel /\ reload.records[k].quota.level <= MaxLevel
       /\ \A s \in Writers : save[s].records[k].quota.level <= MaxLevel

\* A backoff level falls only when its model succeeded, was reset or restored
\* from an older record, or the process was booted; "reset" is a quota reset or
\* an administrator's change (registration anew, another auth file, a disabled
\* credential, the cooling switch).  A failure of another kind (a 500 between
\* two 429s), the end of a cooldown and a result that names no model do not
\* make the next 429 start over.
BackoffFallsOnlyOnRelief ==
  [][\A m \in Models :
       auth'.ms[m].quota.level < auth.ms[m].quota.level
         => why'[m] \in {"success", "reset", "restored", "booted"}]_vars

\* A result for one model changes the verdict on that model only: sweeping and
\* aggregating the other models' states neither frees nor blocks them.
ResultsAreIsolated ==
  [][\A m \in Models : MarkOf(m) =>
       \A k \in Models \ {m} : BlockedFor(auth', k, now) = BlockedFor(auth, k, now)]_vars

\* With disable-cooling in force the only cooldown ever running is the one of
\* an unsupported model; whatever was running is cleared, and neither a reload
\* that overtook the switch nor a boot brings it back.
OffBlocksOnlyUnsupported ==
  off => \A m \in Present(auth) : Cooling(auth.ms[m], now) => why[m] = "support"

\* Without administration and model-less results, the credential itself is
\* blocked exactly while every model it has state for is: the moment of its
\* own recovery is the moment of the first model's.
AggregateIsExact ==
  BlockedAny(auth, now) <=>
    Present(auth) # {} /\ \A m \in Present(auth) : BlockedFor(auth, m, now)

\* Without administration and model-less results, a credential shows the error
\* status exactly while some model's last result was a failure.
StatusTellsErrors ==
  auth.status = "error" <=> \E m \in Models : why[m] \in Kinds

LiveRecords(recs, t) == [k \in DOMAIN recs |-> IF recs[k].next > t THEN recs[k] ELSE NoRecord]

\* When no save is under way, the store holds exactly the cooldowns that are
\* running: none is missing, none is left over, whatever results, resets,
\* reloads and restarts came between a snapshot and its write.  Unless the
\* store was left behind (stale), which takes one of three things: a write
\* that failed; a snapshot written although the records have changed since it
\* was taken; or a change of the records that its call does not save (a reset
\* that cannot persist the credential, a registration anew, another auth file,
\* cooling switched on again).  The next snapshot that is written before
\* anything changes again makes up for it.
DiskIsExact ==
  Storing /\ (\A s \in Writers : save[s].at = "none") /\ ~stale
    => LiveRecords(disk, now) = CooldownRecords(auth, off, now)

\* "When true, disable auth/model cooldown scheduling globally (prevents
\* blackout windows after failure states)" (config.example.yaml:126).
CoolingOffNeverBlocks ==
  off /\ ~IsDisabled(auth) => \A m \in Models : ~BlockedFor(auth, m, now)

\* "When true, persist per-auth cooldown status as .cds files next to auth
\* files. Default is false; when false, cooldown status is kept in memory only"
\* (config.example.yaml:129): a recorded cooldown is in force after a restart.
RestartKeepsCooldowns ==
  [][(\A m \in Models : why'[m] = "booted") /\ ~off /\ ~auth.disabled /\ auth' # auth
       => \A m \in Models : disk[m].next > now => BlockedFor(auth', m, now)]_vars

\* "StatusDisabled marks the auth as intentionally disabled" (status.go:17): the
\* status of a disabled credential says so.
DisabledShowsInStatus == auth.disabled => auth.status = "disabled"
=============================================================================
