------------------------------- MODULE WsRelay -------------------------------
(***************************************************************************)
(* One connection of the websocket relay (internal/wsrelay), from the      *)
(* upgrade to its end: session.go, the parts of manager.go that list and   *)
(* announce it, and the readers of http.go that wait for its answers.      *)
(* Every connection is listed under a name of its own (randomProviderName: *)
(* the service passes no ProviderFactory), so connections meet in nothing  *)
(* but Stop.                                                               *)
(*                                                                         *)
(* Goroutines: the reader of the socket (run), the heartbeat, whoever runs *)
(* cleanup, and for each request its caller and a watcher of its context.  *)
(* They share s.pending, the channel of each request and s.closed.  The    *)
(* browser at the other end answers as it likes.                           *)
(*                                                                         *)
(* A send on a closed channel, a type assertion on nil and an access to a  *)
(* sync.Map that is being overwritten end the process: nothing on these    *)
(* paths recovers.                                                         *)
(***************************************************************************)
EXTENDS Naturals, Sequences, SequencesExt, FiniteSets

CONSTANTS
  Requests,     \* calls of Send with their message ids, which are all different
  Capacity,     \* of a request's channel
  Streams,      \* those of Stream, the others are of NonStream
  MaxMessages   \* bound on the messages that come for each request

ASSUME RelayAssumption ==
  Requests # {} /\ Streams \subseteq Requests /\ Capacity \in Nat \ {0} /\ MaxMessages \in [Requests -> Nat]

VARIABLES
  connector, \* handleWebsocket: "register", "announce", "done"
  listed,    \* the session is in m.sessions
  stopper,   \* Stop: "idle", "cleanup", "done"
  reader,    \* session.run: where it is, and the message it has in hand
  cleaner,   \* cleanup: where it is, and the walk over s.pending
  closed,    \* s.closed
  pending,   \* the ids in s.pending
  box,       \* the pendingRequest of each id: its channel, and whether that is closed
  call,      \* the caller of each request, and what it received
  watched,   \* the requests whose context watcher runs
  cancelled, \* the requests whose context is done
  heard,     \* history: the messages dispatched to each request
  lost,      \* history: the requests a message was dropped for
  announced, \* history: the calls of onConnected and onDisconnected
  crashed    \* "no", or how the process ended

vars == <<connector, listed, stopper, reader, cleaner, closed, pending, box, call,
          watched, cancelled, heard, lost, announced, crashed>>

-----------------------------------------------------------------------------
(* Messages, and what the steps are made of.                               *)

\* "part": stream_start and stream_chunk.  "end": stream_end and http_response.
Terminal == {"end", "error"}
Kinds == Terminal \union {"part"}

\* pr.close.
Shut(b) == [b EXCEPT !.shut = TRUE]

\* select { case ch <- msg: default: }.
Room(b) == Len(b.ch) < Capacity
Offered(b, msg) == IF Room(b) THEN [b EXCEPT !.ch = Append(@, msg)] ELSE b

\* LoadAndDelete, and close what was loaded.
Retire(r) ==
  /\ pending' = pending \ {r}
  /\ box' = IF r \in pending THEN [box EXCEPT ![r] = Shut(@)] ELSE box

Goto(r, place) == call' = [call EXCEPT ![r].at = place]
Return(r, result) == call' = [call EXCEPT ![r].at = "done", ![r].result = result]

\* The reader between two messages, and without a connection.
Reading == [at |-> "read", hand |-> {}, msg |-> "none"]
Off == [Reading EXCEPT !.at = "off"]

\* The parts of the state that belong together.
connection == <<connector, listed, stopper, announced>>
requests == <<pending, box>>
histories == <<heard, lost>>

-----------------------------------------------------------------------------
(* handleWebsocket, after the upgrade.                                     *)

\* Mutant of Register: the reader is started before the announcement.
RegisterAndRun ==
  /\ connector = "register"
  /\ connector' = "announce" /\ listed' = TRUE
  /\ reader' = Reading
  /\ UNCHANGED <<stopper, announced, cleaner, closed, requests, call, watched, cancelled,
                 histories, crashed>>

Register ==
  /\ connector = "register"
  /\ connector' = "announce" /\ listed' = TRUE
  /\ UNCHANGED <<stopper, announced, reader, cleaner, closed, requests, call, watched,
                 cancelled, histories, crashed>>

\* onConnected: the service adds a credential; then the reader is started.
AnnounceConnected ==
  /\ connector = "announce"
  /\ connector' = "done"
  /\ announced' = Append(announced, "connected")
  /\ reader' = Reading
  /\ UNCHANGED <<listed, stopper, cleaner, closed, requests, call, watched, cancelled,
                 histories, crashed>>

-----------------------------------------------------------------------------
(* cleanup, which runs once.  It closes s.closed and walks over s.pending: *)
(* Range comes by every request that stays there from beginning to end,    *)
(* by one that is stored meanwhile perhaps, and by none twice.             *)

Idle == [at |-> "idle", due |-> {}, seen |-> {}, hand |-> {}]
Begin ==
  IF cleaner.at # "idle" THEN UNCHANGED <<cleaner, closed>>
  ELSE /\ cleaner' = [cleaner EXCEPT !.at = "range", !.due = pending]
       /\ closed' = TRUE

\* The heartbeat cannot write its ping.  The first one is sent long after the
\* session is registered and announced.
HeartbeatFails ==
  /\ connector = "done" /\ cleaner.at = "idle"
  /\ Begin
  /\ UNCHANGED <<connection, reader, requests, call, watched, cancelled, histories, crashed>>

\* ReadJSON fails: the connection is gone, or the peer is silent for 60 seconds.
ReadFails ==
  /\ reader.at = "read"
  /\ reader' = Off
  /\ Begin
  /\ UNCHANGED <<connection, requests, call, watched, cancelled, histories, crashed>>

\* Stop takes the sessions out of the map, then cleans them up one by one.
Stop ==
  /\ stopper = "idle" /\ listed
  /\ listed' = FALSE /\ stopper' = "cleanup"
  /\ UNCHANGED <<connector, announced, reader, cleaner, closed, requests, call, watched,
                 cancelled, histories, crashed>>

StopCleans ==
  /\ stopper = "cleanup" /\ stopper' = "done"
  /\ Begin
  /\ UNCHANGED <<connector, listed, announced, reader, requests, call, watched, cancelled,
                 histories, crashed>>

\* Range loads an entry and calls the function with it; the entry may be retired
\* in between.
RangeLoads(r) ==
  /\ cleaner.at = "range" /\ r \in pending \ cleaner.seen
  /\ cleaner' = [cleaner EXCEPT !.at = "tell", !.seen = @ \union {r}, !.hand = {r}]
  /\ UNCHANGED <<connection, reader, closed, requests, call, watched, cancelled, histories,
                 crashed>>

\* Mutant of Told: the channel is only closed.
ToldNothing(b) == Shut(b)

\* The error is offered to the channel, which is then closed.
Told(b) == Shut(Offered(b, "error"))
RangeTells(r) ==
  /\ cleaner.at = "tell" /\ r \in cleaner.hand
  /\ IF box[r].shut
     THEN crashed' = "closed" /\ UNCHANGED <<cleaner, box, lost>>
     ELSE /\ box' = [box EXCEPT ![r] = Told(@)]
          /\ lost' = IF Room(box[r]) THEN lost ELSE lost \union {r}
          /\ cleaner' = [cleaner EXCEPT !.at = "range", !.hand = {}]
          /\ UNCHANGED crashed
  /\ UNCHANGED <<connection, reader, closed, pending, call, watched, cancelled, heard>>

RangeEnds ==
  /\ cleaner.at = "range" /\ cleaner.due \intersect pending \subseteq cleaner.seen
  /\ cleaner' = [Idle EXCEPT !.at = "reset"]
  /\ UNCHANGED <<connection, reader, closed, requests, call, watched, cancelled, histories,
                 crashed>>

\* s.pending = sync.Map{}, and the connection is closed.
Reset ==
  /\ cleaner.at = "reset"
  /\ cleaner' = [cleaner EXCEPT !.at = "unlist"]
  /\ pending' = {}
  /\ UNCHANGED <<connection, reader, closed, box, call, watched, cancelled, histories, crashed>>

\* handleSessionClosed.
Unlist ==
  /\ cleaner.at = "unlist"
  /\ cleaner' = [cleaner EXCEPT !.at = "announce"]
  /\ listed' = FALSE
  /\ UNCHANGED <<connector, stopper, announced, reader, closed, requests, call, watched,
                 cancelled, histories, crashed>>

\* onDisconnected: the service deletes the credential.
AnnounceDisconnected ==
  /\ cleaner.at = "announce"
  /\ cleaner' = [cleaner EXCEPT !.at = "done"]
  /\ announced' = Append(announced, "disconnected")
  /\ UNCHANGED <<connector, listed, stopper, reader, closed, requests, call, watched,
                 cancelled, histories, crashed>>

-----------------------------------------------------------------------------
(* dispatch, in the reader.                                                *)

\* The peer knows the id of a request that was written to it.
Written(r) == call[r].at \in {"wait", "done"}

\* A message for a request whose id the peer has; ids that are not pending, and
\* pings, change nothing.
Receive(r, msg) ==
  /\ reader.at = "read"
  /\ r \in pending /\ Written(r)
  /\ Len(heard[r]) < MaxMessages[r]
  /\ reader' = [at |-> "deliver", hand |-> {r}, msg |-> msg]
  /\ heard' = [heard EXCEPT ![r] = Append(@, msg)]
  /\ UNCHANGED <<connection, cleaner, closed, requests, call, watched, cancelled, lost, crashed>>

\* The channel was loaded with the entry, which may have been retired since.
Deliver(r) ==
  /\ reader.at = "deliver" /\ r \in reader.hand
  /\ IF box[r].shut
     THEN crashed' = "closed" /\ UNCHANGED <<reader, box, lost>>
     ELSE /\ box' = [box EXCEPT ![r] = Offered(@, reader.msg)]
          /\ lost' = IF Room(box[r]) THEN lost ELSE lost \union {r}
          /\ reader' = IF reader.msg \in Terminal THEN [reader EXCEPT !.at = "retire"]
                       ELSE Reading
          /\ UNCHANGED crashed
  /\ UNCHANGED <<connection, cleaner, closed, pending, call, watched, cancelled, heard>>

\* Mutant of Finish: the request stays in the map.
FinishUndeleted(r) ==
  /\ reader.at = "retire" /\ r \in reader.hand
  /\ box' = [box EXCEPT ![r] = Shut(@)]
  /\ reader' = Reading
  /\ UNCHANGED <<connection, cleaner, closed, pending, call, watched, cancelled, histories,
                 crashed>>

\* A terminal message is the last one.
Finish(r) ==
  /\ reader.at = "retire" /\ r \in reader.hand
  /\ Retire(r)
  /\ reader' = Reading
  /\ UNCHANGED <<connection, cleaner, closed, call, watched, cancelled, histories, crashed>>

-----------------------------------------------------------------------------
(* Send and request, in the caller.                                        *)

\* Manager.session finds the session, or the request fails.
Start(r) ==
  /\ call[r].at = "idle"
  /\ IF listed THEN Goto(r, "store") ELSE Return(r, "error")
  /\ UNCHANGED <<connection, reader, cleaner, closed, requests, watched, cancelled, histories,
                 crashed>>

Store(r) ==
  /\ call[r].at = "store"
  /\ pending' = pending \union {r}
  /\ Goto(r, "load")
  /\ UNCHANGED <<connection, reader, cleaner, closed, box, watched, cancelled, histories, crashed>>

\* The entry is loaded again; if it is gone, the assertion on its type fails.
Load(r) ==
  /\ call[r].at = "load"
  /\ IF r \in pending THEN Goto(r, "check") /\ UNCHANGED crashed
                      ELSE crashed' = "gone" /\ UNCHANGED call
  /\ UNCHANGED <<connection, reader, cleaner, closed, requests, watched, cancelled, histories>>

\* Mutant of Check: s.closed is not looked at.
CheckNothing(r) ==
  /\ call[r].at = "check"
  /\ Goto(r, "write")
  /\ UNCHANGED <<connection, reader, cleaner, closed, requests, watched, cancelled, histories,
                 crashed>>

\* send: not on a closed session.
Check(r) ==
  /\ call[r].at = "check"
  /\ Goto(r, IF closed THEN "undo" ELSE "write")
  /\ UNCHANGED <<connection, reader, cleaner, closed, requests, watched, cancelled, histories,
                 crashed>>

\* The message is on its way, and a goroutine watches the context.
Write(r) ==
  /\ call[r].at = "write" /\ cleaner.at \notin {"unlist", "announce", "done"}
  /\ Goto(r, "wait")
  /\ watched' = watched \union {r}
  /\ UNCHANGED <<connection, reader, cleaner, closed, requests, cancelled, histories, crashed>>

WriteFails(r) ==
  /\ call[r].at = "write"
  /\ Goto(r, "undo")
  /\ UNCHANGED <<connection, reader, cleaner, closed, requests, watched, cancelled, histories,
                 crashed>>

Undo(r) ==
  /\ call[r].at = "undo"
  /\ Retire(r)
  /\ Return(r, "error")
  /\ UNCHANGED <<connection, reader, cleaner, closed, watched, cancelled, histories, crashed>>

\* The watcher of the context retires the request, or ends with the session.
Watch(r) ==
  /\ r \in watched /\ r \in cancelled
  /\ watched' = watched \ {r}
  /\ Retire(r)
  /\ UNCHANGED <<connection, reader, cleaner, closed, call, cancelled, histories, crashed>>

WatchEnds(r) ==
  /\ r \in watched /\ closed
  /\ watched' = watched \ {r}
  /\ UNCHANGED <<connection, reader, cleaner, closed, requests, call, cancelled, histories, crashed>>

-----------------------------------------------------------------------------
(* NonStream and Stream, which take the messages from the channel.         *)

\* The next message.
Take(r) ==
  /\ call[r].at = "wait" /\ box[r].ch # <<>>
  /\ LET msg == Head(box[r].ch)
         c == [call[r] EXCEPT !.got = Append(@, msg)]
     IN call' = [call EXCEPT ![r] =
          CASE msg = "end" -> [c EXCEPT !.at = "done", !.result = "answer"]
            [] msg = "error" -> [c EXCEPT !.at = "done", !.result = "error"]
            [] OTHER -> c]
  /\ box' = [box EXCEPT ![r].ch = Tail(@)]
  /\ UNCHANGED <<connection, reader, cleaner, closed, pending, watched, cancelled, histories,
                 crashed>>

\* The channel is closed and empty.  NonStream is content with a stream that has
\* begun; Stream reports that it broke off.
Truncated(r) == r \notin Streams /\ call[r].got # <<>>
TakeClosed(r) ==
  /\ call[r].at = "wait" /\ box[r].ch = <<>> /\ box[r].shut
  /\ Return(r, IF Truncated(r) THEN "answer" ELSE "error")
  /\ UNCHANGED <<connection, reader, cleaner, closed, requests, watched, cancelled, histories,
                 crashed>>

TakeCancelled(r) ==
  /\ call[r].at = "wait" /\ r \in cancelled
  /\ Return(r, "cancelled")
  /\ UNCHANGED <<connection, reader, cleaner, closed, requests, watched, cancelled, histories,
                 crashed>>

\* The client leaves, or its handler returns.
Cancel(r) ==
  /\ call[r].at # "idle" /\ r \notin cancelled
  /\ cancelled' = cancelled \union {r}
  /\ UNCHANGED <<connection, reader, cleaner, closed, requests, call, watched, histories, crashed>>

-----------------------------------------------------------------------------
(* s.pending is overwritten without a lock.                                *)

Reaching(r) ==
  \/ call[r].at \in {"store", "load", "undo"}
  \/ r \in watched /\ r \in cancelled
  \/ r \in reader.hand /\ reader.at = "retire"
  \/ reader.at = "read" /\ Written(r)

\* What goes through the map meanwhile may find half of it.
TornAccess ==
  /\ cleaner.at = "reset" /\ \E r \in Requests : Reaching(r)
  /\ crashed' = "torn"
  /\ UNCHANGED <<connection, reader, cleaner, closed, requests, call, watched, cancelled, histories>>

-----------------------------------------------------------------------------
Init ==
  /\ connector = "register" /\ listed = FALSE /\ stopper = "idle" /\ announced = <<>>
  /\ reader = Off
  /\ cleaner = Idle
  /\ closed = FALSE
  /\ pending = {} /\ box = [r \in Requests |-> [ch |-> <<>>, shut |-> FALSE]]
  /\ call = [r \in Requests |-> [at |-> "idle", got |-> <<>>, result |-> "none"]]
  /\ watched = {} /\ cancelled = {}
  /\ heard = [r \in Requests |-> <<>>] /\ lost = {}
  /\ crashed = "no"

Connecting == Register \/ AnnounceConnected
Cleaning == \/ \E r \in Requests : RangeLoads(r) \/ RangeTells(r)
            \/ RangeEnds \/ Reset \/ Unlist \/ AnnounceDisconnected
Dispatching(r) == Deliver(r) \/ Finish(r)
Calling(r) ==
  \/ Store(r) \/ Load(r) \/ Check(r) \/ Write(r) \/ WriteFails(r) \/ Undo(r)
  \/ Take(r) \/ TakeClosed(r) \/ TakeCancelled(r)
Watching(r) == Watch(r) \/ WatchEnds(r)
Ending == HeartbeatFails \/ ReadFails \/ Stop \/ StopCleans

Running == crashed = "no"
Next ==
  /\ Running
  /\ \/ Connecting \/ Cleaning \/ Ending \/ TornAccess
     \/ \E r \in Requests :
          \/ \E msg \in Kinds : Receive(r, msg)
          \/ Start(r) \/ Dispatching(r) \/ Calling(r) \/ Watching(r) \/ Cancel(r)

Spec == Init /\ [][Next]_vars

-----------------------------------------------------------------------------
(* Properties.                                                             *)

\* Types of the variables.
Boxes == {b \in [ch : Seq(Kinds), shut : BOOLEAN] : Len(b.ch) <= Capacity}
Places == {"idle", "store", "load", "check", "write", "undo", "wait", "done"}
Calls == [at : Places, got : Seq(Kinds),
          result : {"none", "answer", "error", "cancelled"}]
TypeOK ==
  /\ connector \in {"register", "announce", "done"}
  /\ stopper \in {"idle", "cleanup", "done"}
  /\ listed \in BOOLEAN /\ closed \in BOOLEAN
  /\ reader \in {Off, Reading} \union
               [at : {"deliver", "retire"}, hand : SUBSET Requests, msg : Kinds]
  /\ cleaner \in [at : {"idle", "range", "tell", "reset", "unlist", "announce", "done"},
                  due : SUBSET Requests, seen : SUBSET Requests, hand : SUBSET Requests]
  /\ pending \subseteq Requests /\ watched \subseteq Requests
  /\ cancelled \subseteq Requests /\ lost \subseteq Requests
  /\ box \in [Requests -> Boxes]
  /\ call \in [Requests -> Calls]
  /\ heard \in [Requests -> Seq(Kinds)]
  /\ announced \in Seq({"connected", "disconnected"})
  /\ crashed \in {"no", "closed", "gone", "torn"}

\* A request that is answered has all that the peer sent for it, up to the end,
\* unless its channel was once full, in which case messages and even the news of a
\* lost connection are dropped without a word, or its client has left.
AnswerIsWhole ==
  \A r \in Requests :
    call[r].result = "answer" /\ r \notin lost \union cancelled =>
      call[r].got = heard[r] /\ Last(heard[r]) = "end"

\* Nobody waits for ever: as long as a caller waits on an open channel, the request
\* is pending, and once its session is closed, the peer has finished it or its
\* client has left, there is a goroutine on its way to close that channel, however
\* full it is and however late the request came.
HeardOut(r) == \E i \in DOMAIN heard[r] : heard[r][i] \in Terminal
WaitersAreTold ==
  \A r \in Requests : call[r].at = "wait" /\ ~box[r].shut =>
    /\ r \in pending
    /\ closed => r \in cleaner.due /\ (r \in cleaner.seen => r \in cleaner.hand)
    /\ HeardOut(r) => r \in reader.hand
    /\ r \in cancelled => r \in watched \/ closed

\* The process never panics over a connection that holds and requests whose
\* clients wait for their answers.  It does where a client's leaving, or the end
\* of the connection, meets a message that is being dispatched or a request that
\* is being made.
PanicsOnlyInRaces ==
  /\ crashed = "closed" => closed \/ reader.hand \subseteq cancelled
  /\ crashed \in {"gone", "torn"} => closed

\* When all is over, the service has been told last that the connection is gone,
\* so that its credential is deleted, unless Stop has run.  That is wider than the one
\* case it is there for: Stop takes the session before it is announced, and the
\* credential stays.
LeftOnlyByStop ==
  connector = "done" /\ cleaner.at = "done" =>
    Last(announced) = "disconnected" \/ stopper = "done"
=============================================================================
