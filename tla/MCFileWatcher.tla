--------------------------- MODULE MCFileWatcher ----------------------------
(* Small instances of the watcher for TLC. *)
EXTENDS FileWatcher

CONSTANTS file, key, socket  \* credentials
CONSTANTS v0, v1, tokens     \* contents of files
CONSTANTS e0, e1             \* excluded models

\* The other configuration does without the key, excludes other models and retries more.
Start == [keys |-> {key}, excluded |-> e0, retry |-> 0]
Other == [keys |-> {}, excluded |-> e1, retry |-> 1]

TheIds == {file, key, socket}
TheConfigs == {Start, Other}
TheValues == ({v0, v1, tokens} \X {e0, e1, "login"}) \cup {KeyAuth, RuntimeAuth, Gone}
StartContent == [f \in {file} |-> v0]
=============================================================================
