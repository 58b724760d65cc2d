---------------------------- MODULE FileWatcher ----------------------------
(***************************************************************************)
(* The watcher of the credential files and of the configuration            *)
(* (internal/watcher), on top of the pipeline that takes its updates to    *)
(* the service.                                                            *)
(*                                                                         *)
(* It keeps a picture of the credentials (currentAuths), compares it with  *)
(* what it finds and tells the service the differences.  Its picture is    *)
(* changed by                                                              *)
(*   - the event loop, one file event after the other (events.go), which   *)
(*     skips a file whose content it has seen last (lastAuthHashes);       *)
(*   - a reload after a change of the configuration (config_reload.go),    *)
(*     which takes all files anew, without looking at the hashes;          *)
(*   - a login, which has written its file itself;                         *)
(*   - a provider that connects over a websocket, or goes.                 *)
(* Each of them changes the picture under clientsMutex and hands in its    *)
(* updates (its outbox) afterwards, without a lock in common.              *)
(*                                                                         *)
(* A file holds one credential (no plugin parses it).  What a credential   *)
(* file says of its credential and what the configuration excludes for it  *)
(* make up its state, <<content, excluded>>.                               *)
(***************************************************************************)
EXTENDS AuthUpdates

CONSTANTS
  Files, Keys, Runtimes, \* the credentials: files, API keys of the configuration, websockets
  Contents,    \* what users write into files
  LoginContents, \* what a login writes: tokens that were never there before
  Configs,     \* configurations: [keys, excluded, retry]
  Affected,    \* the credentials of the providers whose excluded models change
  StartFiles, StartConfig, \* what the service found when it started, None for no file
  Reloads,     \* the reloads that may run at the same time
  None, Empty, \* no file; a file that is being rewritten
  Gone,        \* an update's word for a removed credential
  MaxChanges   \* bound on what users do

Names == Files \cup Keys
Texts == Contents \cup LoginContents \cup ({StartFiles[f] : f \in Files} \ {None})
LoginRecord == "login" \* a login's record does not have what the configuration excludes
KeyAuth == <<"key", "config">>
RuntimeAuth == <<"runtime", "websocket">>

ASSUME WatcherAssumption ==
  /\ Ids = Names \cup Runtimes
  /\ Files \cap Keys = {} /\ Names \cap Runtimes = {}
  /\ Values = (Texts \X ({c.excluded : c \in Configs} \cup {LoginRecord}))
              \cup {KeyAuth, RuntimeAuth, Gone}
  /\ {None, Empty} \cap Texts = {} /\ None # Empty
  /\ LoginContents \cap (Contents \cup {StartFiles[f] : f \in Files}) = {}
  /\ StartFiles \in [Files -> Texts \cup {None}]
  /\ StartConfig \in Configs /\ None \notin Configs
  /\ Affected \subseteq Names
  /\ Reloads # {} /\ Reloads \cap Runtimes = {}
  /\ {"loop", "login"} \cap (Reloads \cup Runtimes) = {}
  /\ MaxChanges \in Nat

VARIABLES
  disk,       \* the auth directory
  configFile, \* config.yaml
  events,     \* file system events the loop has not taken yet
  hashes,     \* lastAuthHashes, the content standing for its hash
  files,      \* fileAuthsByPath: the files known to hold their credential
  current,    \* currentAuths
  runtime,    \* runtimeAuths
  recent,     \* lastRemoveTimes: files that have had a remove event
  config,     \* w.config
  configHash, \* lastConfigHash
  armed,      \* configReloadTimer is running
  hand,       \* the event loop at work
  reload,     \* the reloads at work
  login,      \* a login between writing its file and publishing its record
  outbox,     \* what has been found out and not been handed in yet, by whom
  changes,    \* what users have done so far
  missed      \* history: what the watcher is known to have missed

sources == <<disk, configFile, changes>>
picture == <<hashes, files, current, runtime, recent, config, configHash, armed>>
watcher == <<sources, events, picture, hand, reload, login, outbox, missed>>
vars == <<pipeline, watcher>>

Tellers == {"loop", "login"} \cup Reloads \cup Runtimes
Quietly == [id \in {} |-> Gone]

-----------------------------------------------------------------------------
(* The credentials.                                                        *)

\* synthesizeFileAuths: what is in a file, under the exclusions of a configuration.
FileAuth(content, cfg) ==
  IF content \in Texts THEN <<content, cfg.excluded>> ELSE Gone

\* snapshotCoreAuths: the credentials of a configuration and the files.
Snapshot(cfg, found) ==
  [id \in Names |-> IF id \in Files THEN FileAuth(found[id], cfg)
                    ELSE IF id \in cfg.keys THEN KeyAuth ELSE Gone]

\* What the service has of a credential: the last update, or what it loaded itself.
AtStart == [id \in Ids |-> IF id \in Names THEN Snapshot(StartConfig, StartFiles)[id] ELSE Gone]
Held(id) == IF applied[id] = 0 THEN AtStart[id] ELSE told[id][applied[id]]

\* The last word on a credential, if it is still on its way.
LastTold(id) == IF told[id] = <<>> THEN AtStart[id] ELSE told[id][Len(told[id])]
Untold(id) == {t \in Tellers : id \in DOMAIN outbox[t]}
LastWords(id) ==
  IF Untold(id) = {} THEN {LastTold(id)} ELSE {outbox[t][id] : t \in Untold(id)}

\* The differences between two pictures of some credentials.
News(old, new, force) ==
  [id \in {i \in DOMAIN new : \/ new[i] # old[i]
                              \/ force /\ new[i] # Gone} |-> new[id]]

\* A teller finds out its news.  They cross those of another teller that say something
\* else and are not handed in yet: which of the two comes last is open then.
Finds(teller, news, alsoMissed) ==
  /\ outbox' = [outbox EXCEPT ![teller] = news]
  /\ missed' = missed \cup alsoMissed
                \cup {id \in DOMAIN news : \E t \in Untold(id) : outbox[t][id] # news[id]}

\* The event loop has dealt with the file as it is now.
Handled(f) ==
  /\ hashes[f] = IF disk[f] \in Texts THEN disk[f] ELSE None
  /\ ~(hand.at = "building" /\ hand.file = f)

Resting == [at |-> "idle", file |-> None, data |-> None, cfg |-> None]
NoReload == [at |-> "idle", cfg |-> None, force |-> FALSE, forgot |-> {}, under |-> None,
             found |-> <<>>]
StartReload == CHOOSE r \in Reloads : TRUE

\* A reload that will still make what it finds the picture.
Active(r) == reload[r].at \notin {"idle", "rehashing"}

Init ==
  /\ PipelineInit
  /\ disk = StartFiles
  /\ configFile = StartConfig
  /\ events = <<>>
  /\ hashes = [f \in Files |-> None]
  /\ files = {}
  /\ current = [id \in Ids |-> Gone]
  /\ runtime = {}
  /\ recent = {}
  /\ config = StartConfig
  /\ configHash = None
  /\ armed = FALSE
  /\ hand = Resting
  /\ reload = [r \in Reloads |->
                 IF r = StartReload
                 THEN [NoReload EXCEPT !.at = "rescanning", !.forgot = {id \in Names : AtStart[id] # Gone}]
                 ELSE NoReload]
  /\ login = [at |-> "idle", file |-> None, data |-> None, fresh |-> LoginContents]
  /\ outbox = [t \in Tellers |-> Quietly]
  /\ changes = 0
  /\ missed = {}

-----------------------------------------------------------------------------
(* Users, and the file system events of what they do.                      *)

\* Bound: what users do costs some of MaxChanges.
Change(cost) ==
  /\ changes + cost <= MaxChanges
  /\ changes' = changes + cost

Notify(file, op) == events' = Append(events, [file |-> file, op |-> op])

WriteFile(f, content) ==
  /\ Change(1)
  /\ disk[f] # content
  /\ disk' = [disk EXCEPT ![f] = content]
  /\ Notify(f, "write")
  /\ UNCHANGED <<pipeline, configFile, picture, hand, reload, login, outbox, missed>>

RemoveFile(f) ==
  /\ Change(1)
  /\ disk[f] # None
  /\ disk' = [disk EXCEPT ![f] = None]
  /\ Notify(f, "remove")
  /\ UNCHANGED <<pipeline, configFile, picture, hand, reload, login, outbox, missed>>

WriteConfig(c) ==
  /\ Change(2)
  /\ configFile # c
  /\ configFile' = c
  /\ Notify(None, "config")
  /\ UNCHANGED <<pipeline, disk, picture, hand, reload, login, outbox, missed>>

\* saveTokenRecord: a login writes its file ...
Login(f, content) ==
  /\ Change(3)
  /\ login.at = "idle" /\ outbox["login"] = Quietly
  /\ content \in login.fresh
  /\ disk' = [disk EXCEPT ![f] = content]
  /\ Notify(f, "write")
  /\ login' = [at |-> "saved", file |-> f, data |-> content, fresh |-> login.fresh \ {content}]
  /\ UNCHANGED <<pipeline, configFile, picture, hand, reload, outbox, missed>>

\* ... and dispatchPersistedAuthUpdate publishes its record.
PublishLogin ==
  LET f == login.file
      record == <<login.data, LoginRecord>>
  IN /\ login.at = "saved"
     /\ current' = [current EXCEPT ![f] = record]
     /\ files' = files \cup {f}
     /\ Finds("login", [id \in {f} |-> record],
              {id \in {f} : disk[f] # login.data /\ Handled(f)})
     /\ login' = [login EXCEPT !.at = "idle", !.file = None, !.data = None]
     /\ UNCHANGED <<pipeline, sources, events, hashes, runtime, recent, config, configHash,
                    armed, hand, reload>>

\* dispatchRuntimeAuthUpdate, for a provider whose name is used once.
Connect(w) ==
  /\ Change(3)
  /\ w \notin runtime /\ told[w] = <<>> /\ outbox[w] = Quietly
  /\ runtime' = runtime \cup {w}
  /\ current' = [current EXCEPT ![w] = RuntimeAuth]
  /\ Finds(w, [id \in {w} |-> RuntimeAuth], {})
  /\ UNCHANGED <<pipeline, disk, configFile, events, hashes, files, recent, config, configHash,
                 armed, hand, reload, login>>

Disconnect(w) ==
  /\ Change(1)
  /\ w \in runtime /\ outbox[w] = Quietly
  /\ runtime' = runtime \ {w}
  /\ current' = [current EXCEPT ![w] = Gone]
  /\ Finds(w, [id \in {w} |-> Gone], {})
  /\ UNCHANGED <<pipeline, disk, configFile, events, hashes, files, recent, config, configHash,
                 armed, hand, reload, login>>

-----------------------------------------------------------------------------
(* The event loop.                                                         *)

\* handleEvent: a change of the configuration starts the reload's timer; a remove
\* event within a second of an earlier one of the file is dropped.  Whether the second
\* is over is left open.
TakeEvent ==
  LET e == Head(events)
  IN /\ events # <<>>
     /\ hand.at = "idle" /\ outbox["loop"] = Quietly
     /\ events' = Tail(events)
     /\ \/ /\ e.op = "config"
           /\ armed' = TRUE
           /\ UNCHANGED <<hand, recent, missed>>
        \/ /\ e.op = "remove" /\ e.file \in recent
           /\ missed' = missed \cup {f \in {e.file} : disk[f] = None}
           /\ UNCHANGED <<hand, recent, armed>>
        \/ /\ e.op = "remove"
           /\ recent' = recent \cup {e.file}
           /\ hand' = [hand EXCEPT !.at = "settling", !.file = e.file]
           /\ UNCHANGED <<armed, missed>>
        \/ /\ e.op = "write"
           /\ hand' = [hand EXCEPT !.at = "reading", !.file = e.file]
           /\ UNCHANGED <<recent, armed, missed>>
     /\ UNCHANGED <<pipeline, sources, hashes, files, current, runtime, config, configHash,
                    reload, login, outbox>>

\* After a short delay a removed file may be there again.  If it is not, and the hash
\* cache knows it, its credential is removed (removeClientLocked).
SettleEnds ==
  LET f == hand.file
  IN /\ hand.at = "settling"
     /\ \/ /\ disk[f] # None
           /\ hand' = [hand EXCEPT !.at = "reading"]
           /\ UNCHANGED <<hashes, files, current, outbox, missed>>
        \/ /\ disk[f] = None
           /\ hand' = Resting
           /\ \/ /\ hashes[f] = None
                 /\ missed' = missed \cup {id \in {f} : current[f] # Gone}
                 /\ UNCHANGED <<hashes, files, current, outbox>>
              \/ /\ hashes[f] # None
                 /\ hashes' = [hashes EXCEPT ![f] = None]
                 /\ files' = files \ {f}
                 /\ current' = [current EXCEPT ![f] = IF f \in files THEN Gone ELSE @]
                 /\ Finds("loop", [id \in files \cap {f} |-> Gone], {})
     /\ UNCHANGED <<pipeline, sources, events, runtime, recent, config, configHash, armed,
                    reload, login>>

\* authFileUnchanged and the first half of addOrUpdateClientLocked: the file is read; if
\* it is not gone, empty or what it was, its hash is kept and the configuration looked up.
ReadFile ==
  LET f == hand.file
      unchanged == disk[f] \in Texts /\ hashes[f] = disk[f]
  IN /\ hand.at = "reading"
     /\ \/ /\ disk[f] \notin Texts \/ unchanged
           /\ hand' = Resting
           /\ missed' = missed \cup
                {id \in {f} : unchanged /\ (current[f] = Gone \/ current[f][1] # disk[f])}
           /\ UNCHANGED hashes
        \/ /\ disk[f] \in Texts /\ ~unchanged
           /\ hashes' = [hashes EXCEPT ![f] = disk[f]]
           /\ hand' = [hand EXCEPT !.at = "building", !.data = disk[f], !.cfg = config]
           /\ UNCHANGED missed
     /\ UNCHANGED <<pipeline, sources, events, files, current, runtime, recent, config,
                    configHash, armed, reload, login, outbox>>

\* The second half: the credential is built and compared with the picture.  The
\* configuration may have been replaced meanwhile, and the reload be over.
BuildAuth ==
  LET f == hand.file
      built == [id \in {f} |-> FileAuth(hand.data, hand.cfg)]
  IN /\ hand.at = "building"
     /\ files' = files \cup {f}
     /\ current' = [current EXCEPT ![f] = built[f]]
     /\ Finds("loop", News(current, built, FALSE),
              {id \in {f} : hand.cfg.excluded # config.excluded /\ \A r \in Reloads : ~Active(r)})
     /\ hand' = Resting
     /\ UNCHANGED <<pipeline, sources, events, hashes, runtime, recent, config, configHash,
                    armed, reload, login>>

-----------------------------------------------------------------------------
(* Reloads.                                                                *)

\* Mutant of Rescan: it does not fill fileAuthsByPath.
RescanHashes(r) ==
  /\ reload[r].at = "rescanning"
  /\ hand.at = "idle" /\ outbox["loop"] = Quietly
  /\ hashes' = [f \in Files |-> IF disk[f] \in Texts THEN disk[f] ELSE None]
  /\ reload' = [reload EXCEPT ![r].at = "snapshotting"]
  /\ UNCHANGED <<pipeline, sources, events, files, current, runtime, recent, config, configHash,
                 armed, hand, login, outbox, missed>>

\* The directory is scanned for the caches when the watcher starts; no event is being
\* handled then (authRescanMu).
Rescan(r) ==
  /\ reload[r].at = "rescanning"
  /\ hand.at = "idle" /\ outbox["loop"] = Quietly
  /\ hashes' = [f \in Files |-> IF disk[f] \in Texts THEN disk[f] ELSE None]
  /\ files' = {f \in Files : disk[f] \in Texts}
  /\ reload' = [reload EXCEPT ![r].at = "snapshotting"]
  /\ UNCHANGED <<pipeline, sources, events, current, runtime, recent, config, configHash, armed,
                 hand, login, outbox, missed>>

\* reloadConfigIfChanged, when the timer has run out or, whatever the timer does, the
\* management API asks for it (ReloadConfigIfChanged).
ReloadStarts(r) ==
  /\ reload[r].at = "idle" /\ outbox[r] = Quietly
  /\ \/ armed /\ armed' = FALSE /\ UNCHANGED changes
     \/ Change(2) /\ UNCHANGED armed
  /\ reload' = [reload EXCEPT ![r].at = IF configFile = configHash THEN "idle" ELSE "loading"]
  /\ UNCHANGED <<pipeline, disk, configFile, events, hashes, files, current, runtime, recent,
                 config, configHash, hand, login, outbox, missed>>

\* reloadConfig reads the file once more ...
LoadConfig(r) ==
  /\ reload[r].at = "loading"
  /\ reload' = [reload EXCEPT ![r] = [@ EXCEPT !.at = "publishing", !.cfg = configFile]]
  /\ UNCHANGED <<pipeline, sources, events, picture, hand, login, outbox, missed>>

\* ... replaces the configuration and works out what the change means.
PublishConfig(r) ==
  LET new == reload[r].cfg
  IN /\ reload[r].at = "publishing"
     /\ config' = new
     /\ reload' = [reload EXCEPT ![r] = [@ EXCEPT
                      !.at = IF config.excluded # new.excluded THEN "forgetting" ELSE "snapshotting",
                      !.force = config.retry # new.retry]]
     /\ UNCHANGED <<pipeline, sources, events, hashes, files, current, runtime, recent,
                    configHash, armed, hand, login, outbox, missed>>

\* The credentials of the affected providers are dropped from the picture, so that the
\* reload takes them for new.
ForgetAffected(r) ==
  /\ reload[r].at = "forgetting"
  /\ reload' = [reload EXCEPT ![r] = [@ EXCEPT
                   !.at = "snapshotting", !.forgot = {id \in Affected : current[id] # Gone}]]
  /\ current' = [id \in Ids |-> IF id \in Affected THEN Gone ELSE current[id]]
  /\ UNCHANGED <<pipeline, sources, events, hashes, files, runtime, recent, config, configHash,
                 armed, hand, login, outbox, missed>>

\* refreshAuthState looks up the configuration, under the lock ...
LookUpConfig(r) ==
  /\ reload[r].at = "snapshotting"
  /\ reload' = [reload EXCEPT ![r] = [@ EXCEPT !.at = "scanning", !.under = config]]
  /\ UNCHANGED <<pipeline, sources, events, picture, hand, login, outbox, missed>>

\* ... reads all files, without it ...
TakeSnapshot(r) ==
  /\ reload[r].at = "scanning"
  /\ reload' = [reload EXCEPT ![r] = [@ EXCEPT !.at = "refreshing",
                                                   !.found = Snapshot(reload[r].under, disk)]]
  /\ UNCHANGED <<pipeline, sources, events, picture, hand, login, outbox, missed>>

\* Mutant of Merged: a reload knows files and configuration only.
MergedSources(found) ==
  [id \in Ids |-> IF id \in Names THEN found[id] ELSE Gone]

\* What a reload takes for the state: what it found, and the providers connected now.
Merged(found) ==
  [id \in Ids |-> IF id \in Names THEN found[id]
                  ELSE IF id \in runtime THEN RuntimeAuth ELSE Gone]

\* What a snapshot says of a credential is not what the configuration in force says.
Outdated(id, found) ==
  IF id \in Files THEN found # Gone /\ found[2] # config.excluded
  ELSE found # Snapshot(config, disk)[id]

\* ... and makes them the picture, together with the runtime credentials.  It misses what
\* the event loop has dealt with since, what another reload has replaced the configuration
\* for since, and the end of a credential it had forgotten.
RefreshAuthState(r) ==
  LET found == reload[r].found
      new == Merged(found)
      overtaken == {f \in Files : disk[f] # Empty /\ Handled(f) /\ found[f] # Snapshot(config, disk)[f]}
      outdated == {id \in Names : Outdated(id, found[id]) /\ \A x \in Reloads \ {r} : ~Active(x)}
      forgotten == {id \in reload[r].forgot : /\ new[id] = Gone /\ current[id] = Gone
                                              /\ LastWords(id) # {Gone}}
  IN /\ reload[r].at = "refreshing"
     /\ current' = new
     /\ Finds(r, News(current, new, reload[r].force), overtaken \cup outdated \cup forgotten)
     /\ reload' = [reload EXCEPT ![r] = [@ EXCEPT
                      !.at = IF reload[r].cfg = None THEN "idle" ELSE "rehashing",
                      !.force = FALSE, !.forgot = {}, !.under = None, !.found = <<>>]]
     /\ UNCHANGED <<pipeline, sources, events, hashes, files, runtime, recent, config, configHash,
                    armed, hand, login>>

\* A reload ends with the hash of the file as it is then, whatever was loaded.
Rehash(r) ==
  /\ reload[r].at = "rehashing" /\ outbox[r] = Quietly
  /\ configHash' = configFile
  /\ missed' = missed \cup {m \in {"config"} : configFile # config}
  /\ reload' = [reload EXCEPT ![r] = NoReload]
  /\ UNCHANGED <<pipeline, sources, events, hashes, files, current, runtime, recent, config,
                 armed, hand, login, outbox>>

\* dispatchAuthUpdates, at the end of each of them.
HandIn(t) ==
  /\ outbox[t] # Quietly
  /\ Tell(outbox[t])
  /\ outbox' = [outbox EXCEPT ![t] = Quietly]
  /\ UNCHANGED <<sources, events, picture, hand, reload, login, missed>>

-----------------------------------------------------------------------------

Users ==
  \/ \E f \in Files : \/ \E content \in Contents \cup {Empty} : WriteFile(f, content)
                      \/ RemoveFile(f)
                      \/ \E content \in LoginContents : Login(f, content)
  \/ \E c \in Configs : WriteConfig(c)
  \/ \E w \in Runtimes : Connect(w) \/ Disconnect(w)

Work ==
  \/ TakeEvent \/ SettleEnds \/ ReadFile \/ BuildAuth
  \/ PublishLogin
  \/ \E r \in Reloads :
       \/ Rescan(r) \/ ReloadStarts(r) \/ LoadConfig(r) \/ PublishConfig(r) \/ ForgetAffected(r)
       \/ LookUpConfig(r) \/ TakeSnapshot(r) \/ RefreshAuthState(r) \/ Rehash(r)
  \/ \E t \in Tellers : HandIn(t)

Next ==
  \/ Users
  \/ Work
  \/ Transport /\ UNCHANGED watcher

Spec == Init /\ [][Next]_vars
FairSpec == Spec /\ PipelineFairness

-----------------------------------------------------------------------------
(* Properties.                                                             *)

TypeOK ==
  /\ PipelineTypeOK
  /\ disk \in [Files -> Texts \cup {None, Empty}]
  /\ configFile \in Configs
  /\ events \in Seq([file : Files \cup {None}, op : {"write", "remove", "config"}])
  /\ hashes \in [Files -> Texts \cup {None}]
  /\ files \subseteq Files
  /\ current \in [Ids -> Values]
  /\ runtime \subseteq Runtimes
  /\ recent \subseteq Files
  /\ config \in Configs /\ configHash \in Configs \cup {None}
  /\ armed \in BOOLEAN
  /\ hand \in [at : {"idle", "settling", "reading", "building"}, file : Files \cup {None},
               data : Texts \cup {None}, cfg : Configs \cup {None}]
  /\ \A r \in Reloads :
       /\ DOMAIN reload[r] = DOMAIN NoReload
       /\ {reload[r].cfg, reload[r].under} \subseteq Configs \cup {None}
       /\ reload[r].forgot \subseteq Ids
  /\ login.fresh \subseteq LoginContents
  /\ \A t \in Tellers : /\ DOMAIN outbox[t] \subseteq Ids
                        /\ \A id \in DOMAIN outbox[t] : outbox[t][id] \in Values
  /\ changes \in 0..MaxChanges
  /\ missed \subseteq Ids \cup {"config"}

\* No event is waiting, and no goroutine of the watcher at work.
AtRest ==
  /\ events = <<>> /\ ~armed
  /\ hand.at = "idle" /\ login.at = "idle"
  /\ \A r \in Reloads : reload[r].at = "idle"
  /\ \A t \in Tellers : outbox[t] = Quietly

\* All has been dealt with, and all updates are applied.
Quiet == AtRest /\ \A id \in Ids : Delivered(id)

\* Whatever happens to a credential file, while the watcher starts, reloads or is busy
\* with other files: when all is quiet the service has the credential the file says,
\* under the configuration in force, or none if the file is gone.  A file that has been
\* emptied and not filled says nothing: the service keeps what it has.  Where the content
\* is a login's, the login's own record, which has no exclusions, is as good.  The other
\* exceptions are named where missed grows.
FilesAreFollowed ==
  Quiet => \A f \in Files \ missed :
    \/ disk[f] = Empty
    \/ Held(f) = FileAuth(disk[f], config)
    \/ disk[f] \in LoginContents /\ Held(f) = <<disk[f], LoginRecord>>

\* When all is quiet the configuration in force is the one in the file, unless that one
\* was written while a reload was running, and the service has its API keys and the
\* providers that are connected, and no other: a reload neither drops one nor brings one
\* back that has gone.
SourcesAreFollowed ==
  Quiet => /\ "config" \in missed \/ config = configFile
           /\ \A k \in Keys \ missed : Held(k) = IF k \in config.keys THEN KeyAuth ELSE Gone
           /\ \A w \in Runtimes \ missed : Held(w) = IF w \in runtime THEN RuntimeAuth ELSE Gone
=============================================================================
