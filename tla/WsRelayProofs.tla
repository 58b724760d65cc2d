---------------------------- MODULE WsRelayProofs ----------------------------
(***************************************************************************)
(* What is proved about a relayed connection, for any set of requests and  *)
(* any capacity: nobody waits for ever, an answer is whole, and the        *)
(* process panics only where the end of a request or of the session meets  *)
(* another step.                                                           *)
(***************************************************************************)
EXTENDS WsRelay, SequenceTheorems, TLAPS

\* The reader and the walk of cleanup each have one request in hand, or none, and
\* what Range remembers is gone with it.
Goroutines ==
  /\ reader.hand = {} <=> reader.at \in {"off", "read"}
  /\ \A r, s \in reader.hand : r = s
  /\ reader.at = "retire" => reader.msg \in Terminal
  /\ connector # "done" => reader.at = "off"
  /\ \A r, s \in cleaner.hand : r = s
  /\ cleaner.hand # {} <=> cleaner.at = "tell"
  /\ cleaner.at \notin {"range", "tell"} => cleaner.due = {} /\ cleaner.seen = {}
  /\ closed <=> cleaner.at # "idle"

\* The walk has yet to close the channel of r.
Awaited(r) == r \in cleaner.due /\ (r \in cleaner.seen => r \in cleaner.hand)

\* A request, in the order of its life.
InTime(r) ==
  /\ call[r].at \in {"idle", "store"} => ~box[r].shut /\ r \notin pending \union cleaner.hand
  /\ call[r].at \in {"load", "check"} => r \in pending \/ closed
  /\ call[r].at \in {"write", "wait"} /\ ~box[r].shut =>
       r \in pending /\ (closed => Awaited(r))
  /\ r \in watched \/ r \in reader.hand => Written(r)
  /\ heard[r] # <<>> => Written(r)
  /\ call[r].at = "wait" /\ ~box[r].shut => r \in watched \/ closed

\* A request, against the reader: what is in hand was heard last, and nothing is
\* heard after a terminal message.
InOrder(r) ==
  /\ r \in reader.hand => heard[r] # <<>> /\ heard[r][Len(heard[r])] = reader.msg
  /\ \A i \in DOMAIN heard[r] : heard[r][i] \in Terminal => i = Len(heard[r])
  /\ HeardOut(r) => r \in reader.hand \/ r \notin pending
  /\ HeardOut(r) /\ call[r].at = "wait" /\ ~box[r].shut => r \in reader.hand
  /\ box[r].shut => closed \/ r \in cancelled \/ (r \notin pending /\ r \notin reader.hand)

RelayInv == /\ TypeOK /\ Goroutines
            /\ \A r \in Requests : InTime(r) /\ InOrder(r)
            /\ PanicsOnlyInRaces

\* What the channel of r has been given, and what of it should have been by now.
Given(r) == call[r].got \o box[r].ch
Due(r) == IF reader.at = "deliver" /\ r \in reader.hand
          THEN SubSeq(heard[r], 1, Len(heard[r]) - 1) ELSE heard[r]

\* Nothing is missing from it, and it is not closed without a terminal message.
Complete(r) ==
  \/ ~box[r].shut /\ Given(r) = Due(r)
  \/ box[r].shut /\ Given(r) = Append(Due(r), "error")
  \/ box[r].shut /\ Given(r) = heard[r] /\ HeardOut(r) /\ r \notin reader.hand

Undisturbed(r) == r \notin lost \union cancelled
Whole(r) ==
  /\ call[r].at # "done" /\ Undisturbed(r) => Complete(r)
  /\ call[r].at \notin {"wait", "done"} => call[r].got = <<>>
  /\ call[r].at = "wait" => \A i \in DOMAIN call[r].got : call[r].got[i] \notin Terminal
  /\ call[r].result = "answer" => call[r].at = "done"
  /\ call[r].result = "answer" /\ Undisturbed(r) =>
       call[r].got = heard[r] /\ heard[r] # <<>> /\ heard[r][Len(heard[r])] = "end"
WholeInv == \A r \in Requests : Whole(r)

\* The announcements follow the connector and the cleaner.
Announcements ==
  /\ connector # "done" /\ closed => stopper = "done"
  /\ cleaner.at # "done" => announced = IF connector = "done" THEN <<"connected">> ELSE <<>>
  /\ cleaner.at = "done" /\ connector = "done" /\ stopper # "done" =>
       announced[Len(announced)] = "disconnected"
  /\ cleaner.at = "done" => announced # <<>>

-----------------------------------------------------------------------------
LEMMA TypeInit == ASSUME Init PROVE TypeOK
<1>1. box \in [Requests -> Boxes]
  BY RelayAssumption DEF Init, Boxes
<1>2. call \in [Requests -> Calls] /\ heard \in [Requests -> Seq(Kinds)]
  BY DEF Init, Calls, Places
<1>3. announced \in Seq({"connected", "disconnected"})
  BY DEF Init
<1>4. cleaner \in [at : {"idle", "range", "tell", "reset", "unlist", "announce", "done"},
                  due : SUBSET Requests, seen : SUBSET Requests, hand : SUBSET Requests]
  BY DEF Init, Idle
<1> QED  BY <1>1, <1>2, <1>3, <1>4 DEF Init, TypeOK

USE DEF connection, requests, histories

LEMMA Boxed ==
  ASSUME NEW b \in Boxes, NEW msg \in Kinds
  PROVE  /\ Shut(b) \in Boxes /\ Offered(b, msg) \in Boxes
         /\ b.ch # <<>> => Head(b.ch) \in Kinds /\ [b EXCEPT !.ch = Tail(@)] \in Boxes
<1>1. Shut(b) \in Boxes
  BY DEF Boxes, Shut
<1>2. ASSUME Room(b) PROVE Offered(b, msg) \in Boxes
  <2> DEFINE c == Append(b.ch, msg)
  <2>1. c \in Seq(Kinds) /\ Len(c) = Len(b.ch) + 1 /\ Len(b.ch) \in Nat /\ b.ch \in Seq(Kinds)
    BY DEF Boxes
  <2>2. Len(c) <= Capacity
    BY <1>2, <2>1, RelayAssumption DEF Room
  <2>3. [b EXCEPT !.ch = c] \in Boxes
    BY <2>1, <2>2 DEF Boxes
  <2> QED  BY <1>2, <2>3 DEF Offered
<1>3. ASSUME ~Room(b) PROVE Offered(b, msg) \in Boxes
  BY <1>3 DEF Offered
<1>4. ASSUME b.ch # <<>>
      PROVE  Head(b.ch) \in Kinds /\ [b EXCEPT !.ch = Tail(@)] \in Boxes
  <2> DEFINE c == Tail(b.ch)
  <2>1. b.ch \in Seq(Kinds) /\ Len(b.ch) \in Nat /\ Len(b.ch) <= Capacity
    BY DEF Boxes
  <2>2. c \in Seq(Kinds) /\ Len(c) = Len(b.ch) - 1 /\ Head(b.ch) \in Kinds
    BY <1>4, <2>1
  <2>3. Len(c) <= Capacity
    BY <2>1, <2>2, RelayAssumption
  <2>4. [b EXCEPT !.ch = c] \in Boxes
    BY <2>2, <2>3 DEF Boxes
  <2> QED  BY <2>2, <2>4
<1> QED  BY <1>1, <1>2, <1>3, <1>4

LEMMA Called ==
  ASSUME NEW c \in Calls, NEW msg \in Kinds,
         NEW place \in Places, NEW result \in {"none", "answer", "error", "cancelled"}
  PROVE  /\ [c EXCEPT !.at = place] \in Calls
         /\ [c EXCEPT !.at = place, !.result = result] \in Calls
         /\ [c EXCEPT !.got = Append(@, msg)] \in Calls
<1>1. Append(c.got, msg) \in Seq(Kinds)
  BY DEF Calls
<1> QED  BY <1>1 DEF Calls

LEMMA Moved ==
  ASSUME TypeOK, NEW r \in Requests, NEW place \in Places,
         NEW result \in {"none", "answer", "error", "cancelled"}
  PROVE  /\ Goto(r, place) => call' \in [Requests -> Calls]
         /\ place = "done" => (Return(r, result) => call' \in [Requests -> Calls])
<1> DEFINE c == [call[r] EXCEPT !.at = place]
           d == [call[r] EXCEPT !.at = "done", !.result = result]
<1>0. call \in [Requests -> Calls] /\ call[r] \in Calls
  BY DEF TypeOK
<1>1. "end" \in Kinds /\ "done" \in Places
  BY DEF Kinds, Terminal, Places
<1>2. c \in Calls /\ d \in Calls
  BY <1>0, <1>1, Called
<1>3. Goto(r, place) => call' = [call EXCEPT ![r] = c]
  BY DEF Goto
<1>4. Return(r, result) => call' = [call EXCEPT ![r] = d]
  BY DEF Return
<1> QED  BY <1>0, <1>2, <1>3, <1>4

LEMMA Retired ==
  ASSUME TypeOK, NEW r \in Requests, Retire(r)
  PROVE  pending' \subseteq Requests /\ box' \in [Requests -> Boxes]
<1> DEFINE b == Shut(box[r])
<1>0. box \in [Requests -> Boxes] /\ box[r] \in Boxes /\ "end" \in Kinds
  BY DEF TypeOK, Kinds, Terminal
<1>1. b \in Boxes
  BY <1>0, Boxed
<1>2. box' = box \/ box' = [box EXCEPT ![r] = b]
  BY DEF Retire
<1>3. pending' \subseteq Requests
  BY DEF Retire, TypeOK
<1> QED  BY <1>0, <1>1, <1>2, <1>3

LEMMA TypeStep == ASSUME TypeOK, [Next]_vars PROVE TypeOK'
<1> USE RelayAssumption DEF TypeOK
<1>0. /\ {"end", "error", "part"} \subseteq Kinds
      /\ {"store", "load", "check", "write", "undo", "wait", "done"} \subseteq Places
      /\ \A r \in Requests : box[r] \in Boxes /\ call[r] \in Calls
  BY DEF Kinds, Terminal, Places
<1>1. CASE Register
  BY <1>1 DEF Register
<1>2. CASE AnnounceConnected
  BY <1>2 DEF AnnounceConnected, Reading, Kinds
<1>3. CASE HeartbeatFails
  BY <1>3 DEF HeartbeatFails, Begin
<1>4. CASE ReadFails
  BY <1>4 DEF ReadFails, Begin, Off, Reading, Kinds
<1>5. CASE Stop
  BY <1>5 DEF Stop
<1>6. CASE StopCleans
  BY <1>6 DEF StopCleans, Begin
<1>7. ASSUME NEW r \in Requests, RangeLoads(r) PROVE TypeOK'
  BY <1>7 DEF RangeLoads
<1>8. ASSUME NEW r \in Requests, RangeTells(r) PROVE TypeOK'
  <2> DEFINE b == Told(box[r])
  <2>1. b \in Boxes
    BY <1>0, Boxed DEF Told
  <2>2. box' = box \/ box' = [box EXCEPT ![r] = b]
    BY <1>8 DEF RangeTells
  <2>3. box' \in [Requests -> Boxes]
    BY <2>1, <2>2
  <2> QED  BY <1>8, <2>3 DEF RangeTells
<1>9. CASE RangeEnds
  BY <1>9 DEF RangeEnds, Idle
<1>10. CASE Reset
  BY <1>10 DEF Reset
<1>11. CASE Unlist
  BY <1>11 DEF Unlist
<1>12. CASE AnnounceDisconnected
  <2>1. announced' \in Seq({"connected", "disconnected"})
    BY <1>12 DEF AnnounceDisconnected
  <2> QED  BY <1>12, <2>1 DEF AnnounceDisconnected
<1>13. ASSUME NEW r \in Requests, NEW msg \in Kinds, Receive(r, msg) PROVE TypeOK'
  BY <1>13 DEF Receive, Kinds
<1>14. ASSUME NEW r \in Requests, Deliver(r) PROVE TypeOK'
  <2> DEFINE b == Offered(box[r], reader.msg)
  <2>1. reader.msg \in Kinds
    BY <1>14 DEF Deliver, Off, Reading
  <2>2. b \in Boxes
    BY <1>0, <2>1, Boxed
  <2>3. box' = box \/ box' = [box EXCEPT ![r] = b]
    BY <1>14 DEF Deliver
  <2>4. box' \in [Requests -> Boxes]
    BY <2>2, <2>3
  <2>5. reader' \in {Off, Reading} \union
                    [at : {"deliver", "retire"}, hand : SUBSET Requests, msg : Kinds]
    <3>1. reader \in [at : {"deliver", "retire"}, hand : SUBSET Requests, msg : Kinds]
      BY <1>14 DEF Deliver, Off, Reading
    <3>2. [reader EXCEPT !.at = "retire"] \in
            [at : {"deliver", "retire"}, hand : SUBSET Requests, msg : Kinds]
      BY <3>1
    <3>3. reader' \in {reader, Reading, [reader EXCEPT !.at = "retire"]}
      BY <1>14 DEF Deliver
    <3> QED  BY <3>2, <3>3
  <2> QED  BY <1>14, <2>4, <2>5 DEF Deliver
<1>15. ASSUME NEW r \in Requests, Finish(r) PROVE TypeOK'
  BY <1>15, Retired DEF Finish, Reading
<1>16. ASSUME NEW r \in Requests, Start(r) PROVE TypeOK'
  <2>1. call' \in [Requests -> Calls]
    BY <1>0, <1>16, Moved DEF Start
  <2> QED  BY <1>16, <2>1 DEF Start
<1>17. ASSUME NEW r \in Requests, Store(r) PROVE TypeOK'
  <2>1. call' \in [Requests -> Calls]
    BY <1>0, <1>17, Moved DEF Store
  <2> QED  BY <1>17, <2>1 DEF Store
<1>18. ASSUME NEW r \in Requests, Load(r) PROVE TypeOK'
  <2>1. call' \in [Requests -> Calls]
    BY <1>0, <1>18, Moved DEF Load
  <2> QED  BY <1>18, <2>1 DEF Load
<1>19. ASSUME NEW r \in Requests, Check(r) PROVE TypeOK'
  <2>1. call' \in [Requests -> Calls]
    BY <1>0, <1>19, Moved DEF Check
  <2> QED  BY <1>19, <2>1 DEF Check
<1>20. ASSUME NEW r \in Requests, Write(r) PROVE TypeOK'
  <2>1. call' \in [Requests -> Calls]
    BY <1>0, <1>20, Moved DEF Write
  <2> QED  BY <1>20, <2>1 DEF Write
<1>21. ASSUME NEW r \in Requests, WriteFails(r) PROVE TypeOK'
  <2>1. call' \in [Requests -> Calls]
    BY <1>0, <1>21, Moved DEF WriteFails
  <2> QED  BY <1>21, <2>1 DEF WriteFails
<1>22. ASSUME NEW r \in Requests, Undo(r) PROVE TypeOK'
  <2>1. call' \in [Requests -> Calls]
    BY <1>0, <1>22, Moved DEF Undo
  <2> QED  BY <1>22, <2>1, Retired DEF Undo
<1>23. ASSUME NEW r \in Requests, Watch(r) PROVE TypeOK'
  BY <1>23, Retired DEF Watch
<1>24. ASSUME NEW r \in Requests, WatchEnds(r) PROVE TypeOK'
  BY <1>24 DEF WatchEnds
<1>25. ASSUME NEW r \in Requests, Take(r) PROVE TypeOK'
  <2> DEFINE msg == Head(box[r].ch)
             b == [box[r] EXCEPT !.ch = Tail(@)]
             c == [call[r] EXCEPT !.got = Append(@, msg)]
             d == [c EXCEPT !.at = "done", !.result = "answer"]
             e == [c EXCEPT !.at = "done", !.result = "error"]
  <2>1. msg \in Kinds /\ b \in Boxes
    BY <1>0, <1>25, Boxed DEF Take
  <2>2. c \in Calls
    BY <1>0, <2>1, Called
  <2>3. d \in Calls /\ e \in Calls
    BY <1>0, <2>2, Called
  <2>4. box' = [box EXCEPT ![r] = b]
    BY <1>25 DEF Take
  <2>5. \E f \in Calls : call' = [call EXCEPT ![r] = f]
    BY <1>25, <2>2, <2>3 DEF Take
  <2>6. box' \in [Requests -> Boxes] /\ call' \in [Requests -> Calls]
    BY <2>1, <2>4, <2>5
  <2> QED  BY <1>25, <2>6 DEF Take
<1>26. ASSUME NEW r \in Requests, TakeClosed(r) PROVE TypeOK'
  <2>1. call' \in [Requests -> Calls]
    BY <1>0, <1>26, Moved DEF TakeClosed
  <2> QED  BY <1>26, <2>1 DEF TakeClosed
<1>27. ASSUME NEW r \in Requests, TakeCancelled(r) PROVE TypeOK'
  <2>1. call' \in [Requests -> Calls]
    BY <1>0, <1>27, Moved DEF TakeCancelled
  <2> QED  BY <1>27, <2>1 DEF TakeCancelled
<1>28. ASSUME NEW r \in Requests, Cancel(r) PROVE TypeOK'
  BY <1>28 DEF Cancel
<1>29. CASE TornAccess
  BY <1>29 DEF TornAccess
<1>30. CASE UNCHANGED vars
  BY <1>30 DEF vars
<1> QED
  BY <1>1, <1>2, <1>3, <1>4, <1>5, <1>6, <1>7, <1>8, <1>9, <1>10, <1>11, <1>12, <1>13, <1>14, <1>15, <1>16, <1>17, <1>18, <1>19, <1>20, <1>21, <1>22, <1>23, <1>24, <1>25, <1>26, <1>27, <1>28, <1>29, <1>30 DEF Next, Connecting, Cleaning, Ending, Dispatching, Calling, Watching
-----------------------------------------------------------------------------
(* Time and order.                                                         *)

LEMMA InvInit == ASSUME Init PROVE RelayInv
<1>1. Goroutines /\ PanicsOnlyInRaces
  BY DEF Init, Goroutines, PanicsOnlyInRaces, Idle, Off, Reading
<1>2. \A r \in Requests : InTime(r) /\ InOrder(r)
  BY DEF Init, InTime, InOrder, HeardOut, Written, Off, Reading, Idle
<1> QED  BY <1>1, <1>2, TypeInit DEF RelayInv

LEMMA InvStep == ASSUME RelayInv, Next PROVE RelayInv'
<1>a. TypeOK'
  BY TypeStep DEF RelayInv
<1> SUFFICES ASSUME NEW x \in Requests
             PROVE  Goroutines' /\ InTime(x)' /\ InOrder(x)' /\ PanicsOnlyInRaces'
  BY <1>a, RelayAssumption DEF RelayInv
<1> DEFINE Kept == Goroutines' /\ InTime(x)' /\ InOrder(x)' /\ PanicsOnlyInRaces'
<1>0. TypeOK /\ Goroutines /\ InTime(x) /\ InOrder(x) /\ PanicsOnlyInRaces /\ crashed = "no"
  BY DEF RelayInv, Next, Running
<1>i. \A r \in Requests : InTime(r) /\ InOrder(r)
  BY DEF RelayInv
<1>t. /\ call \in [Requests -> Calls] /\ box \in [Requests -> Boxes]
      /\ \A r \in Requests : call[r] \in Calls /\ box[r] \in Boxes
      /\ heard \in [Requests -> Seq(Kinds)]
      /\ cleaner = [at |-> cleaner.at, due |-> cleaner.due, seen |-> cleaner.seen, hand |-> cleaner.hand]
      /\ reader = [at |-> reader.at, hand |-> reader.hand, msg |-> reader.msg]
  BY <1>0 DEF TypeOK, Off, Reading
<1>1. ASSUME Register PROVE Kept
  <2>1. Goroutines'
    BY <1>0, <1>t, <1>1 DEF Goroutines, TypeOK, Register
  <2>2. InTime(x)'
    BY <1>0, <1>t, <1>1 DEF InTime, InOrder, Goroutines, Awaited, Written, Boxes, Calls, Register
  <2>3. InOrder(x)'
    BY <1>0, <1>t, <1>1 DEF InTime, InOrder, Goroutines, HeardOut, Written, Boxes, Calls, Register
  <2>4. PanicsOnlyInRaces'
    BY <1>0, <1>i, <1>1 DEF PanicsOnlyInRaces, InTime, InOrder, Goroutines, Register
  <2> QED  BY <2>1, <2>2, <2>3, <2>4
<1>2. ASSUME AnnounceConnected PROVE Kept
  <2>1. Goroutines'
    BY <1>0, <1>t, <1>2 DEF Goroutines, TypeOK, AnnounceConnected, Reading
  <2>2. InTime(x)'
    BY <1>0, <1>t, <1>2 DEF InTime, InOrder, Goroutines, Awaited, Written, Boxes, Calls, AnnounceConnected, Reading
  <2>3. InOrder(x)'
    BY <1>0, <1>t, <1>2 DEF InTime, InOrder, Goroutines, HeardOut, Written, Boxes, Calls, AnnounceConnected, Reading
  <2>4. PanicsOnlyInRaces'
    BY <1>0, <1>i, <1>2 DEF PanicsOnlyInRaces, InTime, InOrder, Goroutines, AnnounceConnected, Reading
  <2> QED  BY <2>1, <2>2, <2>3, <2>4
<1>3. ASSUME HeartbeatFails PROVE Kept
  <2>0. /\ UNCHANGED <<call, box, pending, watched, heard, cancelled, crashed>>
        /\ closed' /\ cleaner'.hand = cleaner.hand
        /\ \/ UNCHANGED <<cleaner, closed>>
           \/ cleaner.at = "idle" /\ cleaner'.due = pending /\ cleaner'.seen = cleaner.seen
    BY <1>0, <1>t, <1>3 DEF Goroutines, HeartbeatFails, Begin
  <2>1. Goroutines'
    BY <1>0, <1>t, <1>3 DEF Goroutines, TypeOK, HeartbeatFails, Begin
  <2>2. InTime(x)'
    <3>1. reader' = reader \/ reader'.hand = {}
      BY <1>3 DEF HeartbeatFails
    <3> QED  BY <1>0, <2>0, <3>1 DEF InTime, Awaited, Written, Goroutines
  <2>3. InOrder(x)'
    BY <1>0, <1>t, <1>3 DEF InTime, InOrder, Goroutines, HeardOut, Written, Boxes, Calls, HeartbeatFails, Begin
  <2>4. PanicsOnlyInRaces'
    BY <1>0, <1>i, <1>3 DEF PanicsOnlyInRaces, InTime, InOrder, Goroutines, HeartbeatFails, Begin
  <2> QED  BY <2>1, <2>2, <2>3, <2>4
<1>4. ASSUME ReadFails PROVE Kept
  <2>0. /\ UNCHANGED <<call, box, pending, watched, heard, cancelled, crashed>>
        /\ closed' /\ cleaner'.hand = cleaner.hand
        /\ \/ UNCHANGED <<cleaner, closed>>
           \/ cleaner.at = "idle" /\ cleaner'.due = pending /\ cleaner'.seen = cleaner.seen
    BY <1>0, <1>t, <1>4 DEF Goroutines, ReadFails, Begin, Off, Reading
  <2>1. Goroutines'
    BY <1>0, <1>t, <1>4 DEF Goroutines, TypeOK, ReadFails, Begin, Off, Reading
  <2>2. InTime(x)'
    <3>1. reader' = reader \/ reader'.hand = {}
      BY <1>4 DEF ReadFails, Off, Reading
    <3> QED  BY <1>0, <2>0, <3>1 DEF InTime, Awaited, Written, Goroutines
  <2>3. InOrder(x)'
    BY <1>0, <1>t, <1>4 DEF InTime, InOrder, Goroutines, HeardOut, Written, Boxes, Calls, ReadFails, Begin, Off, Reading
  <2>4. PanicsOnlyInRaces'
    BY <1>0, <1>i, <1>4 DEF PanicsOnlyInRaces, InTime, InOrder, Goroutines, ReadFails, Begin, Off, Reading
  <2> QED  BY <2>1, <2>2, <2>3, <2>4
<1>5. ASSUME Stop PROVE Kept
  <2>1. Goroutines'
    BY <1>0, <1>t, <1>5 DEF Goroutines, TypeOK, Stop
  <2>2. InTime(x)'
    BY <1>0, <1>t, <1>5 DEF InTime, InOrder, Goroutines, Awaited, Written, Boxes, Calls, Stop
  <2>3. InOrder(x)'
    BY <1>0, <1>t, <1>5 DEF InTime, InOrder, Goroutines, HeardOut, Written, Boxes, Calls, Stop
  <2>4. PanicsOnlyInRaces'
    BY <1>0, <1>i, <1>5 DEF PanicsOnlyInRaces, InTime, InOrder, Goroutines, Stop
  <2> QED  BY <2>1, <2>2, <2>3, <2>4
<1>6. ASSUME StopCleans PROVE Kept
  <2>0. /\ UNCHANGED <<call, box, pending, watched, heard, cancelled, crashed>>
        /\ closed' /\ cleaner'.hand = cleaner.hand
        /\ \/ UNCHANGED <<cleaner, closed>>
           \/ cleaner.at = "idle" /\ cleaner'.due = pending /\ cleaner'.seen = cleaner.seen
    BY <1>0, <1>t, <1>6 DEF Goroutines, StopCleans, Begin
  <2>1. Goroutines'
    <3>1. CASE cleaner.at = "idle"
      BY <1>0, <1>t, <1>6, <3>1 DEF Goroutines, StopCleans, Begin
    <3>2. CASE cleaner.at # "idle"
      BY <1>0, <1>6, <3>2 DEF Goroutines, StopCleans, Begin
    <3> QED  BY <3>1, <3>2
  <2>2. InTime(x)'
    <3>1. reader' = reader \/ reader'.hand = {}
      BY <1>6 DEF StopCleans
    <3> QED  BY <1>0, <2>0, <3>1 DEF InTime, Awaited, Written, Goroutines
  <2>3. InOrder(x)'
    BY <1>0, <1>t, <1>6 DEF InTime, InOrder, Goroutines, HeardOut, Written, Boxes, Calls, StopCleans, Begin
  <2>4. PanicsOnlyInRaces'
    BY <1>0, <1>i, <1>6 DEF PanicsOnlyInRaces, InTime, InOrder, Goroutines, StopCleans, Begin
  <2> QED  BY <2>1, <2>2, <2>3, <2>4
<1>7. ASSUME NEW r \in Requests, RangeLoads(r) PROVE Kept
  <2>0. /\ UNCHANGED <<connector, reader, closed>>
        /\ cleaner.at = "range" /\ cleaner'.at = "tell" /\ cleaner'.hand = {r}
    BY <1>t, <1>7 DEF RangeLoads
  <2>1. Goroutines'
    BY <1>0, <2>0 DEF Goroutines
  <2>2. InTime(x)'
    BY <1>0, <1>t, <1>7 DEF InTime, InOrder, Goroutines, Awaited, Written, Boxes, Calls, RangeLoads
  <2>3. InOrder(x)'
    BY <1>0, <1>t, <1>7 DEF InTime, InOrder, Goroutines, HeardOut, Written, Boxes, Calls, RangeLoads
  <2>4. PanicsOnlyInRaces'
    BY <1>0, <1>i, <1>7 DEF PanicsOnlyInRaces, InTime, InOrder, Goroutines, RangeLoads
  <2> QED  BY <2>1, <2>2, <2>3, <2>4
<1>8. ASSUME NEW r \in Requests, RangeTells(r) PROVE Kept
  <2>0. /\ UNCHANGED <<call, pending, closed, watched, cancelled, heard, reader>>
        /\ cleaner.at = "tell" /\ cleaner.hand = {r} /\ closed
        /\ \/ box[r].shut /\ crashed' = "closed" /\ UNCHANGED <<cleaner, box>>
           \/ /\ crashed' = "no" /\ box'[r].shut /\ (x # r => box'[x] = box[x])
              /\ cleaner'.at = "range" /\ cleaner'.hand = {}
              /\ cleaner'.due = cleaner.due /\ cleaner'.seen = cleaner.seen
    <3>1. Told(box[r]).shut
      BY <1>t DEF Told, Shut, Offered, Boxes
    <3> QED  BY <1>0, <1>t, <1>8, <3>1 DEF RangeTells, Goroutines
  <2>1. Goroutines'
    <3>1. connector' = connector
      BY <1>8 DEF RangeTells
    <3>2. CASE UNCHANGED cleaner
      BY <1>0, <2>0, <3>1, <3>2 DEF Goroutines
    <3>3. CASE cleaner'.at = "range" /\ cleaner'.hand = {}
      <4>1. reader' = reader /\ closed /\ closed'
        BY <2>0
      <4>2. \A r1, r2 \in cleaner'.hand : r1 = r2
        BY <3>3
      <4>3. cleaner'.at \in {"range", "tell"} /\ cleaner'.at # "idle" /\ cleaner'.at # "tell"
        BY <3>3
      <4> QED  BY <1>0, <3>1, <3>3, <4>1, <4>2, <4>3 DEF Goroutines
    <3> QED  BY <2>0, <3>2, <3>3
  <2>2. InTime(x)'
    <3>1. CASE UNCHANGED <<cleaner, box>>
      BY <1>0, <2>0, <3>1 DEF InTime, Awaited, Written
    <3>2. CASE x = r /\ box'[r].shut
      <4>1. call[r].at \notin {"idle", "store"}
        BY <1>0, <2>0, <3>2 DEF InTime, Awaited
      <4> QED  BY <1>0, <2>0, <3>2, <4>1 DEF InTime, Written
    <3>3. CASE x # r /\ box'[x] = box[x] /\ cleaner'.due = cleaner.due /\ cleaner'.seen = cleaner.seen
      <4>1. Awaited(x) => Awaited(x)'
        BY <2>0, <3>3 DEF Awaited
      <4> QED  BY <1>0, <2>0, <3>3, <4>1 DEF InTime, Written
    <3> QED  BY <2>0, <3>1, <3>2, <3>3
  <2>3. InOrder(x)'
    BY <1>0, <2>0 DEF InOrder, HeardOut
  <2>4. PanicsOnlyInRaces'
    BY <2>0 DEF PanicsOnlyInRaces
  <2> QED  BY <2>1, <2>2, <2>3, <2>4
<1>9. ASSUME RangeEnds PROVE Kept
  <2>1. Goroutines'
    BY <1>0, <1>t, <1>9 DEF Goroutines, TypeOK, RangeEnds, Idle
  <2>2. InTime(x)'
    BY <1>0, <1>t, <1>9 DEF InTime, InOrder, Goroutines, Awaited, Written, Boxes, Calls, RangeEnds, Idle
  <2>3. InOrder(x)'
    BY <1>0, <1>t, <1>9 DEF InTime, InOrder, Goroutines, HeardOut, Written, Boxes, Calls, RangeEnds, Idle
  <2>4. PanicsOnlyInRaces'
    BY <1>0, <1>i, <1>9 DEF PanicsOnlyInRaces, InTime, InOrder, Goroutines, RangeEnds, Idle
  <2> QED  BY <2>1, <2>2, <2>3, <2>4
<1>10. ASSUME Reset PROVE Kept
  <2>1. Goroutines'
    BY <1>0, <1>t, <1>10 DEF Goroutines, TypeOK, Reset
  <2>2. InTime(x)'
    BY <1>0, <1>t, <1>10 DEF InTime, InOrder, Goroutines, Awaited, Written, Boxes, Calls, Reset
  <2>3. InOrder(x)'
    BY <1>0, <1>t, <1>10 DEF InTime, InOrder, Goroutines, HeardOut, Written, Boxes, Calls, Reset
  <2>4. PanicsOnlyInRaces'
    BY <1>0, <1>i, <1>10 DEF PanicsOnlyInRaces, InTime, InOrder, Goroutines, Reset
  <2> QED  BY <2>1, <2>2, <2>3, <2>4
<1>11. ASSUME Unlist PROVE Kept
  <2>1. Goroutines'
    BY <1>0, <1>t, <1>11 DEF Goroutines, TypeOK, Unlist
  <2>2. InTime(x)'
    BY <1>0, <1>t, <1>11 DEF InTime, InOrder, Goroutines, Awaited, Written, Boxes, Calls, Unlist
  <2>3. InOrder(x)'
    BY <1>0, <1>t, <1>11 DEF InTime, InOrder, Goroutines, HeardOut, Written, Boxes, Calls, Unlist
  <2>4. PanicsOnlyInRaces'
    BY <1>0, <1>i, <1>11 DEF PanicsOnlyInRaces, InTime, InOrder, Goroutines, Unlist
  <2> QED  BY <2>1, <2>2, <2>3, <2>4
<1>12. ASSUME AnnounceDisconnected PROVE Kept
  <2>1. Goroutines'
    BY <1>0, <1>t, <1>12 DEF Goroutines, TypeOK, AnnounceDisconnected
  <2>2. InTime(x)'
    BY <1>0, <1>t, <1>12 DEF InTime, InOrder, Goroutines, Awaited, Written, Boxes, Calls, AnnounceDisconnected
  <2>3. InOrder(x)'
    BY <1>0, <1>t, <1>12 DEF InTime, InOrder, Goroutines, HeardOut, Written, Boxes, Calls, AnnounceDisconnected
  <2>4. PanicsOnlyInRaces'
    BY <1>0, <1>i, <1>12 DEF PanicsOnlyInRaces, InTime, InOrder, Goroutines, AnnounceDisconnected
  <2> QED  BY <2>1, <2>2, <2>3, <2>4
<1>13. ASSUME NEW r \in Requests, NEW msg \in Kinds, Receive(r, msg) PROVE Kept
  <2>0. /\ UNCHANGED <<call, box, pending, closed, cleaner, watched, cancelled, crashed>>
        /\ reader.hand = {} /\ reader'.hand = {r} /\ reader'.msg = msg
        /\ r \in pending /\ Written(r)
        /\ x # r => heard'[x] = heard[x]
        /\ heard'[r] = Append(heard[r], msg) /\ heard[r] \in Seq(Kinds)
    BY <1>0, <1>t, <1>13 DEF Receive, Goroutines
  <2>a. /\ heard'[r] # <<>> /\ Len(heard'[r]) = Len(heard[r]) + 1
        /\ heard'[r][Len(heard'[r])] = msg
        /\ \A i \in DOMAIN heard'[r] : i # Len(heard'[r]) => i \in DOMAIN heard[r] /\ heard'[r][i] = heard[r][i]
    BY <2>0
  <2>1. Goroutines'
    BY <1>0, <1>t, <1>13 DEF Goroutines, TypeOK, Receive
  <2>2. InTime(x)'
    BY <1>0, <2>0 DEF InTime, Awaited, Written
  <2>3. InOrder(x)'
    <3>1. ~HeardOut(r)
      BY <1>i, <2>0 DEF InOrder
    <3>2. CASE x = r
      BY <1>0, <2>0, <2>a, <3>1, <3>2 DEF InOrder, HeardOut
    <3>3. CASE x # r
      BY <1>0, <2>0, <3>3 DEF InOrder, HeardOut
    <3> QED  BY <3>2, <3>3
  <2>4. PanicsOnlyInRaces'
    BY <1>0, <2>0 DEF PanicsOnlyInRaces
  <2> QED  BY <2>1, <2>2, <2>3, <2>4
<1>14. ASSUME NEW r \in Requests, Deliver(r) PROVE Kept
  <2>0. /\ UNCHANGED <<call, pending, closed, cleaner, watched, cancelled, heard>>
        /\ reader.at = "deliver" /\ r \in reader.hand /\ reader.hand = {r}
        /\ box'[x].shut = box[x].shut
    <3>1. Offered(box[r], reader.msg).shut = box[r].shut
      BY <1>t DEF Offered, Boxes
    <3>2. box' = box \/ box' = [box EXCEPT ![r] = Offered(box[r], reader.msg)]
      BY <1>14 DEF Deliver
    <3>3. box'[x].shut = box[x].shut
      BY <1>t, <3>1, <3>2
    <3> QED  BY <1>0, <1>14, <3>3 DEF Deliver, Goroutines
  <2>a. \/ /\ box[r].shut /\ crashed' = "closed" /\ UNCHANGED reader
        \/ /\ crashed' = "no" /\ reader.msg \in Terminal
           /\ reader'.hand = reader.hand /\ reader'.msg = reader.msg /\ reader'.at = "retire"
        \/ /\ crashed' = "no" /\ reader.msg \notin Terminal
           /\ reader'.hand = {} /\ reader'.at = "read"
    BY <1>0, <1>t, <1>14 DEF Deliver, Reading
  <2>1. Goroutines'
    <3>1. connector' = connector
      BY <1>14 DEF Deliver
    <3> QED  BY <1>0, <2>0, <2>a, <3>1 DEF Goroutines
  <2>2. InTime(x)'
    BY <1>0, <2>0, <2>a DEF InTime, Awaited, Written
  <2>3. InOrder(x)'
    <3>1. reader.msg \notin Terminal => ~HeardOut(r)
      <4>1. SUFFICES ASSUME HeardOut(r) PROVE reader.msg \in Terminal
        OBVIOUS
      <4>2. PICK i \in DOMAIN heard[r] : heard[r][i] \in Terminal
        BY <4>1 DEF HeardOut
      <4>3. i = Len(heard[r]) /\ heard[r][Len(heard[r])] = reader.msg
        BY <1>i, <2>0, <4>2 DEF InOrder
      <4> QED  BY <4>2, <4>3
    <3>2. CASE x = r
      BY <1>0, <2>0, <2>a, <3>1, <3>2 DEF InOrder, HeardOut
    <3>3. CASE x # r
      BY <1>0, <2>0, <2>a, <3>3 DEF InOrder, HeardOut
    <3> QED  BY <3>2, <3>3
  <2>4. PanicsOnlyInRaces'
    <3>1. box[r].shut => closed \/ r \in cancelled
      BY <1>i, <2>0 DEF InOrder
    <3> QED  BY <2>0, <2>a, <3>1 DEF PanicsOnlyInRaces
  <2> QED  BY <2>1, <2>2, <2>3, <2>4
<1>15. ASSUME NEW r \in Requests, Finish(r) PROVE Kept
  <2>1. Goroutines'
    BY <1>0, <1>t, <1>15 DEF Goroutines, TypeOK, Finish, Retire, Shut, Reading
  <2>2. InTime(x)'
    BY <1>0, <1>t, <1>15 DEF InTime, InOrder, Goroutines, Awaited, Written, Boxes, Calls, Finish, Retire, Shut, Reading
  <2>3. InOrder(x)'
    BY <1>0, <1>t, <1>15 DEF InTime, InOrder, Goroutines, HeardOut, Written, Boxes, Calls, Finish, Retire, Shut, Reading
  <2>4. PanicsOnlyInRaces'
    BY <1>0, <1>i, <1>15 DEF PanicsOnlyInRaces, InTime, InOrder, Goroutines, Finish, Retire, Shut, Reading
  <2> QED  BY <2>1, <2>2, <2>3, <2>4
<1>16. ASSUME NEW r \in Requests, Start(r) PROVE Kept
  <2>0. /\ x # r => call'[x].at = call[x].at
        /\ call[r].at = "idle" /\ call'[r].at \in {"store", "done"}
        /\ UNCHANGED <<box, pending, closed, cleaner, watched, reader, heard, cancelled>>
    <3>1. \E c : call' = [call EXCEPT ![r] = c] /\ c.at \in {"store", "done"}
      <4> DEFINE c == [call[r] EXCEPT !.at = "store"]
                 d == [call[r] EXCEPT !.at = "done", !.result = "error"]
      <4>1. c.at = "store" /\ d.at = "done"
        BY <1>t DEF Calls
      <4>2. call' = [call EXCEPT ![r] = c] \/ call' = [call EXCEPT ![r] = d]
        BY <1>16 DEF Start, Goto, Return
      <4> QED  BY <4>1, <4>2
    <3> QED  BY <1>t, <1>16, <3>1 DEF Start
  <2>1. Goroutines'
    BY <1>0, <1>t, <1>16 DEF Goroutines, TypeOK, Start, Goto, Return
  <2>2. InTime(x)'
    BY <1>0, <2>0 DEF InTime, Awaited, Written
  <2>3. InOrder(x)'
    BY <1>0, <2>0 DEF InOrder, InTime, HeardOut
  <2>4. PanicsOnlyInRaces'
    BY <1>0, <1>i, <1>16 DEF PanicsOnlyInRaces, InTime, InOrder, Goroutines, Start, Goto, Return
  <2> QED  BY <2>1, <2>2, <2>3, <2>4
<1>17. ASSUME NEW r \in Requests, Store(r) PROVE Kept
  <2>1. Goroutines'
    BY <1>0, <1>t, <1>17 DEF Goroutines, TypeOK, Store, Goto
  <2>2. InTime(x)'
    BY <1>0, <1>t, <1>17 DEF InTime, InOrder, Goroutines, Awaited, Written, Boxes, Calls, Store, Goto
  <2>3. InOrder(x)'
    BY <1>0, <1>t, <1>17 DEF InTime, InOrder, Goroutines, HeardOut, Written, Boxes, Calls, Store, Goto
  <2>4. PanicsOnlyInRaces'
    BY <1>0, <1>i, <1>17 DEF PanicsOnlyInRaces, InTime, InOrder, Goroutines, Store, Goto
  <2> QED  BY <2>1, <2>2, <2>3, <2>4
<1>18. ASSUME NEW r \in Requests, Load(r) PROVE Kept
  <2>0. /\ x # r => call'[x].at = call[x].at
        /\ call[r].at = "load" /\ call'[r].at \in {"check", "load"} /\ (call'[r].at = "check" => r \in pending)
        /\ UNCHANGED <<box, pending, closed, cleaner, watched, reader, heard, cancelled>>
    <3>1. CASE r \in pending
      BY <1>t, <1>18, <3>1 DEF Load, Goto, Calls
    <3>2. CASE r \notin pending
      BY <1>t, <1>18, <3>2 DEF Load
    <3> QED  BY <3>1, <3>2
  <2>1. Goroutines'
    BY <1>0, <1>t, <1>18 DEF Goroutines, TypeOK, Load, Goto
  <2>2. InTime(x)'
    BY <1>0, <2>0 DEF InTime, Awaited, Written
  <2>3. InOrder(x)'
    BY <1>0, <2>0 DEF InOrder, InTime, HeardOut
  <2>4. PanicsOnlyInRaces'
    <3>1. crashed' \in {"no", "gone"} /\ (crashed' = "gone" => closed)
      BY <1>0, <1>18, <1>i DEF Load, InTime
    <3> QED  BY <3>1, <2>0 DEF PanicsOnlyInRaces
  <2> QED  BY <2>1, <2>2, <2>3, <2>4
<1>19. ASSUME NEW r \in Requests, Check(r) PROVE Kept
  <2>1. Goroutines'
    BY <1>0, <1>t, <1>19 DEF Goroutines, TypeOK, Check, Goto
  <2>2. InTime(x)'
    BY <1>0, <1>t, <1>19 DEF InTime, InOrder, Goroutines, Awaited, Written, Boxes, Calls, Check, Goto
  <2>3. InOrder(x)'
    BY <1>0, <1>t, <1>19 DEF InTime, InOrder, Goroutines, HeardOut, Written, Boxes, Calls, Check, Goto
  <2>4. PanicsOnlyInRaces'
    BY <1>0, <1>i, <1>19 DEF PanicsOnlyInRaces, InTime, InOrder, Goroutines, Check, Goto
  <2> QED  BY <2>1, <2>2, <2>3, <2>4
<1>20. ASSUME NEW r \in Requests, Write(r) PROVE Kept
  <2>1. Goroutines'
    BY <1>0, <1>t, <1>20 DEF Goroutines, TypeOK, Write, Goto
  <2>2. InTime(x)'
    BY <1>0, <1>t, <1>20 DEF InTime, InOrder, Goroutines, Awaited, Written, Boxes, Calls, Write, Goto
  <2>3. InOrder(x)'
    BY <1>0, <1>t, <1>20 DEF InTime, InOrder, Goroutines, HeardOut, Written, Boxes, Calls, Write, Goto
  <2>4. PanicsOnlyInRaces'
    BY <1>0, <1>i, <1>20 DEF PanicsOnlyInRaces, InTime, InOrder, Goroutines, Write, Goto
  <2> QED  BY <2>1, <2>2, <2>3, <2>4
<1>21. ASSUME NEW r \in Requests, WriteFails(r) PROVE Kept
  <2>1. Goroutines'
    BY <1>0, <1>t, <1>21 DEF Goroutines, TypeOK, WriteFails, Goto
  <2>2. InTime(x)'
    BY <1>0, <1>t, <1>21 DEF InTime, InOrder, Goroutines, Awaited, Written, Boxes, Calls, WriteFails, Goto
  <2>3. InOrder(x)'
    BY <1>0, <1>t, <1>21 DEF InTime, InOrder, Goroutines, HeardOut, Written, Boxes, Calls, WriteFails, Goto
  <2>4. PanicsOnlyInRaces'
    BY <1>0, <1>i, <1>21 DEF PanicsOnlyInRaces, InTime, InOrder, Goroutines, WriteFails, Goto
  <2> QED  BY <2>1, <2>2, <2>3, <2>4
<1>22. ASSUME NEW r \in Requests, Undo(r) PROVE Kept
  <2>1. Goroutines'
    BY <1>0, <1>t, <1>22 DEF Goroutines, TypeOK, Undo, Retire, Shut, Return
  <2>2. InTime(x)'
    BY <1>0, <1>t, <1>22 DEF InTime, InOrder, Goroutines, Awaited, Written, Boxes, Calls, Undo, Retire, Shut, Return
  <2>3. InOrder(x)'
    BY <1>0, <1>t, <1>22 DEF InTime, InOrder, Goroutines, HeardOut, Written, Boxes, Calls, Undo, Retire, Shut, Return
  <2>4. PanicsOnlyInRaces'
    BY <1>0, <1>i, <1>22 DEF PanicsOnlyInRaces, InTime, InOrder, Goroutines, Undo, Retire, Shut, Return
  <2> QED  BY <2>1, <2>2, <2>3, <2>4
<1>23. ASSUME NEW r \in Requests, Watch(r) PROVE Kept
  <2>1. Goroutines'
    BY <1>0, <1>t, <1>23 DEF Goroutines, TypeOK, Watch, Retire, Shut
  <2>2. InTime(x)'
    BY <1>0, <1>t, <1>23 DEF InTime, InOrder, Goroutines, Awaited, Written, Boxes, Calls, Watch, Retire, Shut
  <2>3. InOrder(x)'
    BY <1>0, <1>t, <1>23 DEF InTime, InOrder, Goroutines, HeardOut, Written, Boxes, Calls, Watch, Retire, Shut
  <2>4. PanicsOnlyInRaces'
    BY <1>0, <1>i, <1>23 DEF PanicsOnlyInRaces, InTime, InOrder, Goroutines, Watch, Retire, Shut
  <2> QED  BY <2>1, <2>2, <2>3, <2>4
<1>24. ASSUME NEW r \in Requests, WatchEnds(r) PROVE Kept
  <2>1. Goroutines'
    BY <1>0, <1>t, <1>24 DEF Goroutines, TypeOK, WatchEnds
  <2>2. InTime(x)'
    BY <1>0, <1>t, <1>24 DEF InTime, InOrder, Goroutines, Awaited, Written, Boxes, Calls, WatchEnds
  <2>3. InOrder(x)'
    BY <1>0, <1>t, <1>24 DEF InTime, InOrder, Goroutines, HeardOut, Written, Boxes, Calls, WatchEnds
  <2>4. PanicsOnlyInRaces'
    BY <1>0, <1>i, <1>24 DEF PanicsOnlyInRaces, InTime, InOrder, Goroutines, WatchEnds
  <2> QED  BY <2>1, <2>2, <2>3, <2>4
<1>25. ASSUME NEW r \in Requests, Take(r) PROVE Kept
  <2>1. Goroutines'
    BY <1>0, <1>t, <1>25 DEF Goroutines, TypeOK, Take
  <2>2. InTime(x)'
    BY <1>0, <1>t, <1>25 DEF InTime, InOrder, Goroutines, Awaited, Written, Boxes, Calls, Take
  <2>3. InOrder(x)'
    BY <1>0, <1>t, <1>25 DEF InTime, InOrder, Goroutines, HeardOut, Written, Boxes, Calls, Take
  <2>4. PanicsOnlyInRaces'
    BY <1>0, <1>i, <1>25 DEF PanicsOnlyInRaces, InTime, InOrder, Goroutines, Take
  <2> QED  BY <2>1, <2>2, <2>3, <2>4
<1>26. ASSUME NEW r \in Requests, TakeClosed(r) PROVE Kept
  <2>1. Goroutines'
    BY <1>0, <1>t, <1>26 DEF Goroutines, TypeOK, TakeClosed, Return
  <2>2. InTime(x)'
    BY <1>0, <1>t, <1>26 DEF InTime, InOrder, Goroutines, Awaited, Written, Boxes, Calls, TakeClosed, Return
  <2>3. InOrder(x)'
    BY <1>0, <1>t, <1>26 DEF InTime, InOrder, Goroutines, HeardOut, Written, Boxes, Calls, TakeClosed, Return
  <2>4. PanicsOnlyInRaces'
    BY <1>0, <1>i, <1>26 DEF PanicsOnlyInRaces, InTime, InOrder, Goroutines, TakeClosed, Return
  <2> QED  BY <2>1, <2>2, <2>3, <2>4
<1>27. ASSUME NEW r \in Requests, TakeCancelled(r) PROVE Kept
  <2>1. Goroutines'
    BY <1>0, <1>t, <1>27 DEF Goroutines, TypeOK, TakeCancelled, Return
  <2>2. InTime(x)'
    BY <1>0, <1>t, <1>27 DEF InTime, InOrder, Goroutines, Awaited, Written, Boxes, Calls, TakeCancelled, Return
  <2>3. InOrder(x)'
    BY <1>0, <1>t, <1>27 DEF InTime, InOrder, Goroutines, HeardOut, Written, Boxes, Calls, TakeCancelled, Return
  <2>4. PanicsOnlyInRaces'
    BY <1>0, <1>i, <1>27 DEF PanicsOnlyInRaces, InTime, InOrder, Goroutines, TakeCancelled, Return
  <2> QED  BY <2>1, <2>2, <2>3, <2>4
<1>28. ASSUME NEW r \in Requests, Cancel(r) PROVE Kept
  <2>1. Goroutines'
    BY <1>0, <1>t, <1>28 DEF Goroutines, TypeOK, Cancel
  <2>2. InTime(x)'
    BY <1>0, <1>t, <1>28 DEF InTime, InOrder, Goroutines, Awaited, Written, Boxes, Calls, Cancel
  <2>3. InOrder(x)'
    BY <1>0, <1>t, <1>28 DEF InTime, InOrder, Goroutines, HeardOut, Written, Boxes, Calls, Cancel
  <2>4. PanicsOnlyInRaces'
    BY <1>0, <1>i, <1>28 DEF PanicsOnlyInRaces, InTime, InOrder, Goroutines, Cancel
  <2> QED  BY <2>1, <2>2, <2>3, <2>4
<1>29. ASSUME TornAccess PROVE Kept
  <2>1. Goroutines'
    BY <1>0, <1>t, <1>29 DEF Goroutines, TypeOK, TornAccess
  <2>2. InTime(x)'
    BY <1>0, <1>t, <1>29 DEF InTime, InOrder, Goroutines, Awaited, Written, Boxes, Calls, TornAccess
  <2>3. InOrder(x)'
    BY <1>0, <1>t, <1>29 DEF InTime, InOrder, Goroutines, HeardOut, Written, Boxes, Calls, TornAccess
  <2>4. PanicsOnlyInRaces'
    BY <1>0, <1>i, <1>29 DEF PanicsOnlyInRaces, InTime, InOrder, Goroutines, TornAccess
  <2> QED  BY <2>1, <2>2, <2>3, <2>4
<1> QED
  BY <1>1, <1>2, <1>3, <1>4, <1>5, <1>6, <1>7, <1>8, <1>9, <1>10, <1>11, <1>12, <1>13, <1>14, <1>15, <1>16, <1>17, <1>18, <1>19, <1>20, <1>21, <1>22, <1>23, <1>24, <1>25, <1>26, <1>27, <1>28, <1>29 DEF Next, Connecting, Cleaning, Ending, Dispatching, Calling, Watching

LEMMA InvHolds == Spec => []RelayInv
<1>1. ASSUME RelayInv, UNCHANGED vars PROVE RelayInv'
  BY <1>1 DEF RelayInv, TypeOK, Goroutines, InTime, InOrder, PanicsOnlyInRaces, Awaited, HeardOut, Written, vars
<1>2. RelayInv /\ [Next]_vars => RelayInv'
  BY <1>1, InvStep
<1> QED  BY <1>2, InvInit, PTL DEF Spec

\* The variables keep their types.
THEOREM RelayTypeCorrect == Spec => []TypeOK
<1>1. RelayInv => TypeOK
  BY DEF RelayInv
<1> QED  BY <1>1, InvHolds, PTL

\* A caller that waits on an open channel is in s.pending, and when its session is
\* closed, its request is finished or its client has left, then somebody is on the
\* way to close the channel: dispatch, the watcher of the context or cleanup.
THEOREM NobodyWaitsForEver == Spec => []WaitersAreTold
<1>1. RelayInv => WaitersAreTold
  BY DEF RelayInv, InTime, InOrder, Awaited, WaitersAreTold
<1> QED  BY <1>1, InvHolds, PTL

\* dispatch, request and cleanup panic only when a request's client has left or
\* the session is closed.
THEOREM PanicsOnlyWhereRaced == Spec => []PanicsOnlyInRaces
<1>1. RelayInv => PanicsOnlyInRaces
  BY DEF RelayInv
<1> QED  BY <1>1, InvHolds, PTL

-----------------------------------------------------------------------------
(* The announcements to the service.                                       *)

LEMMA AnnouncedInit == ASSUME Init PROVE Announcements
BY DEF Init, Announcements, Idle

LEMMA AnnouncedStep ==
  ASSUME RelayInv, RelayInv', Announcements, [Next]_vars
  PROVE  Announcements'
<1>0. TypeOK /\ Goroutines /\ announced \in Seq({"connected", "disconnected"})
  BY DEF RelayInv, TypeOK
<1>1. CASE AnnounceConnected
  <2>1. connector = "announce" /\ connector' = "done" /\ UNCHANGED <<stopper, cleaner, closed>>
        /\ announced' = Append(announced, "connected")
    BY <1>1 DEF AnnounceConnected
  <2>2. cleaner.at # "done" => announced' = <<"connected">>
    <3>1. cleaner.at # "done" => announced = <<>>
      BY <2>1 DEF Announcements
    <3>2. Append(<<>>, "connected") = <<"connected">>
      OBVIOUS
    <3> QED  BY <2>1, <3>1, <3>2
  <2>3. announced' # <<>>
    BY <1>0, <2>1
  <2>4. cleaner.at = "done" => stopper = "done"
    BY <1>0, <2>1 DEF Announcements, Goroutines
  <2> QED  BY <2>1, <2>2, <2>3, <2>4 DEF Announcements
<1>2. CASE AnnounceDisconnected
  <2>1. cleaner.at = "announce" /\ cleaner'.at = "done" /\ UNCHANGED <<connector, stopper, closed>>
        /\ announced' = Append(announced, "disconnected")
    BY <1>0, <1>2 DEF AnnounceDisconnected, TypeOK
  <2>2. announced' # <<>> /\ announced'[Len(announced')] = "disconnected"
    BY <1>0, <2>1
  <2> QED  BY <2>1, <2>2 DEF Announcements
<1>3. CASE Register \/ Stop
  BY <1>3 DEF Register, Stop, Announcements
<1>4. CASE HeartbeatFails \/ ReadFails \/ StopCleans
  <2>1. UNCHANGED <<connector, announced>> /\ (stopper = "done" => stopper' = "done")
    BY <1>4 DEF HeartbeatFails, ReadFails, StopCleans
  <2>2. \/ UNCHANGED <<cleaner, closed>>
        \/ cleaner.at = "idle" /\ cleaner'.at = "range" /\ closed'
    BY <1>0, <1>4 DEF HeartbeatFails, ReadFails, StopCleans, Begin, TypeOK
  <2>3. connector = "done" \/ stopper' = "done"
    BY <1>0, <1>4 DEF HeartbeatFails, ReadFails, StopCleans, Goroutines
  <2> QED  BY <2>1, <2>2, <2>3 DEF Announcements
<1>5. CASE UNCHANGED <<connector, stopper, announced, closed>>
           /\ (cleaner'.at = "done" <=> cleaner.at = "done")
  BY <1>5 DEF Announcements
<1>6. CASE UNCHANGED <<connector, stopper, announced, closed, cleaner>>
  BY <1>6 DEF Announcements
<1>7. CASE \E r \in Requests : RangeLoads(r) \/ RangeTells(r)
  BY <1>0, <1>5, <1>7 DEF RangeLoads, RangeTells, TypeOK
<1>8. CASE RangeEnds \/ Reset \/ Unlist
  BY <1>0, <1>5, <1>8 DEF RangeEnds, Reset, Unlist, Idle, TypeOK
<1>9. ASSUME NEW r \in Requests, NEW msg \in Kinds,
             Receive(r, msg) \/ Start(r) \/ Dispatching(r) \/ Calling(r) \/ Watching(r) \/ Cancel(r)
      PROVE  UNCHANGED <<connector, stopper, announced, closed, cleaner>>
  BY <1>9 DEF Receive, Start, Dispatching, Deliver, Finish, Calling, Store, Load, Check, Write,
     WriteFails, Undo, Take, TakeClosed, TakeCancelled, Watching, Watch, WatchEnds, Cancel
<1>10. CASE TornAccess \/ UNCHANGED vars
  BY <1>6, <1>10 DEF TornAccess, vars
<1> QED
  BY <1>1, <1>2, <1>3, <1>4, <1>6, <1>7, <1>8, <1>9, <1>10
     DEF Next, Connecting, Cleaning, Ending, Kinds, Terminal

\* A session that was announced and is cleaned up is announced as gone last, unless
\* Stop took it.
THEOREM LastWordIsDisconnected == Spec => []LeftOnlyByStop
<1>1. RelayInv /\ Announcements => LeftOnlyByStop
  BY DEF Announcements, LeftOnlyByStop, Last
<1> QED  BY <1>1, InvHolds, AnnouncedInit, AnnouncedStep, PTL DEF Spec

-----------------------------------------------------------------------------
(* Answers are whole.                                                      *)

LEMMA Joined ==
  ASSUME NEW s \in Seq(Kinds), NEW t \in Seq(Kinds), NEW m \in Kinds
  PROVE  /\ s \o Append(t, m) = Append(s \o t, m)
         /\ t # <<>> => Append(s, Head(t)) \o Tail(t) = s \o t
<1>1. s \o Append(t, m) = Append(s \o t, m)
  OBVIOUS
<1>2. ASSUME t # <<>> PROVE Append(s, Head(t)) \o Tail(t) = s \o t
  BY <1>2
<1> QED  BY <1>1, <1>2

\* What is not touched stays whole.
LEMMA Untouched ==
  ASSUME NEW x, Whole(x), call'[x] = call[x], box'[x] = box[x], heard'[x] = heard[x],
         x \in lost => x \in lost', x \in cancelled => x \in cancelled',
         reader'.at = "deliver" /\ x \in reader'.hand <=> reader.at = "deliver" /\ x \in reader.hand,
         x \notin reader.hand => x \notin reader'.hand
  PROVE  Whole(x)'
BY DEF Whole, Undisturbed, Complete, Given, Due, HeardOut

LEMMA WholeStep ==
  ASSUME RelayInv, WholeInv, Next, NEW x \in Requests
  PROVE  Whole(x)'
<1>0. TypeOK /\ Goroutines /\ Whole(x) /\ InTime(x) /\ InOrder(x)
  BY DEF RelayInv, WholeInv
<1>t. /\ call \in [Requests -> Calls] /\ box \in [Requests -> Boxes]
      /\ call[x].got \in Seq(Kinds) /\ box[x].ch \in Seq(Kinds) /\ heard[x] \in Seq(Kinds)
      /\ heard \in [Requests -> Seq(Kinds)] /\ box[x] \in Boxes /\ call[x] \in Calls
  BY <1>0 DEF TypeOK, Calls, Boxes
<1>1. CASE \/ Register \/ Stop \/ StopCleans \/ HeartbeatFails
           \/ RangeEnds \/ Reset \/ Unlist \/ AnnounceDisconnected \/ TornAccess
  BY <1>0, <1>1, Untouched DEF Register, Stop, StopCleans, HeartbeatFails,
     RangeEnds, Reset, Unlist, AnnounceDisconnected, TornAccess
<1>2. CASE AnnounceConnected \/ ReadFails
  <2>1. reader.hand = {} /\ reader'.hand = {} /\ UNCHANGED <<call, box, heard, lost, cancelled>>
    BY <1>0, <1>2 DEF AnnounceConnected, ReadFails, Off, Reading, Goroutines
  <2> QED  BY <1>0, <2>1, Untouched
<1>3. CASE \E r \in Requests : RangeLoads(r) \/ WatchEnds(r) \/ Cancel(r)
  BY <1>0, <1>3, Untouched DEF RangeLoads, WatchEnds, Cancel
<1>4. ASSUME NEW r \in Requests, RangeTells(r) PROVE Whole(x)'
  <2>1. UNCHANGED <<call, heard, cancelled, reader>>
    BY <1>4 DEF RangeTells
  <2>2. CASE x # r \/ UNCHANGED <<box, lost>>
    <3>1. box'[x] = box[x] /\ (x \in lost => x \in lost')
      BY <1>t, <1>4, <2>2 DEF RangeTells
    <3> QED  BY <1>0, <2>1, <3>1, Untouched
  <2>3. CASE x = r /\ ~Room(box[r]) /\ x \in lost'
    BY <1>0, <2>1, <2>3 DEF Whole, Undisturbed
  <2>4. CASE x = r /\ Room(box[r]) /\ ~box[r].shut
    <3>1. box'[x].shut /\ box'[x].ch = Append(box[x].ch, "error") /\ UNCHANGED lost
      <4>1. box'[x] = Shut([box[x] EXCEPT !.ch = Append(@, "error")]) /\ UNCHANGED lost
        BY <1>t, <1>4, <2>4 DEF RangeTells, Told, Offered
      <4> QED  BY <1>t, <4>1 DEF Shut, Boxes
    <3>2. "error" \in Kinds
      BY DEF Kinds, Terminal
    <3>3. Given(x)' = Append(Given(x), "error") /\ Due(x)' = Due(x)
      <4>1. Given(x)' = call[x].got \o Append(box[x].ch, "error")
        BY <2>1, <3>1 DEF Given
      <4> QED  BY <1>t, <2>1, <3>2, <4>1, Joined DEF Given, Due
    <3>4. Complete(x) => Complete(x)'
      BY <2>4, <3>1, <3>3 DEF Complete
    <3> QED  BY <1>0, <2>1, <3>1, <3>4 DEF Whole, Undisturbed
  <2> QED  BY <1>4, <2>2, <2>3, <2>4 DEF RangeTells
<1>5. ASSUME NEW r \in Requests, NEW msg \in Kinds, Receive(r, msg) PROVE Whole(x)'
  <2>1. /\ UNCHANGED <<call, box, lost, cancelled>>
        /\ reader.hand = {} /\ reader'.hand = {r} /\ reader'.at = "deliver"
        /\ reader.at = "read" /\ r \in pending
    BY <1>0, <1>5 DEF Receive, Goroutines
  <2>2. CASE x # r
    <3>1. heard'[x] = heard[x]
      BY <1>t, <1>5, <2>2 DEF Receive
    <3> QED  BY <1>0, <2>1, <2>2, <3>1, Untouched
  <2>3. CASE x = r
    <3>1. heard'[x] = Append(heard[x], msg)
      BY <1>t, <1>5, <2>3 DEF Receive
    <3>2. SubSeq(heard'[x], 1, Len(heard'[x]) - 1) = heard[x]
      BY <1>t, <3>1
    <3>3. Given(x)' = Given(x) /\ Due(x)' = Due(x)
      BY <2>1, <2>3, <3>2 DEF Given, Due
    <3>4. ~HeardOut(x)
      BY <1>0, <2>1, <2>3 DEF InOrder
    <3>5. Complete(x) => Complete(x)'
      BY <2>1, <3>3, <3>4 DEF Complete
    <3>6. ~(heard[x] # <<>> /\ heard[x][Len(heard[x])] = "end")
      BY <1>t, <3>4 DEF HeardOut, Terminal
    <3>7. call[x].result = "answer" => x \in lost \union cancelled
      BY <1>0, <3>6 DEF Whole, Undisturbed
    <3> QED  BY <1>0, <2>1, <3>5, <3>7 DEF Whole, Undisturbed
  <2> QED  BY <2>2, <2>3
<1>6. ASSUME NEW r \in Requests, Deliver(r) PROVE Whole(x)'
  <2>1. UNCHANGED <<call, heard, cancelled>> /\ reader.at = "deliver" /\ reader.hand = {r}
    BY <1>0, <1>6 DEF Deliver, Goroutines
  <2>2. CASE UNCHANGED <<box, lost, reader>>
    BY <1>0, <2>1, <2>2, Untouched
  <2>3. CASE /\ ~box[r].shut
             /\ box' = [box EXCEPT ![r] = Offered(@, reader.msg)]
             /\ lost' = IF Room(box[r]) THEN lost ELSE lost \union {r}
             /\ reader'.at # "deliver" /\ reader'.hand \subseteq reader.hand
    <3>1. CASE x # r
      BY <1>0, <1>t, <2>1, <2>3, <3>1, Untouched
    <3>2. CASE x = r /\ ~Room(box[r])
      BY <1>0, <2>1, <2>3, <3>2 DEF Whole, Undisturbed
    <3>3. CASE x = r /\ Room(box[r])
      <4>1. box'[x] = [box[x] EXCEPT !.ch = Append(@, reader.msg)] /\ lost' = lost
        BY <1>t, <2>3, <3>3 DEF Offered
      <4>2. box'[x].ch = Append(box[x].ch, reader.msg) /\ box'[x].shut = box[x].shut
        BY <1>0, <1>t, <4>1 DEF TypeOK, Boxes
      <4>3. heard[x] # <<>> /\ heard[x][Len(heard[x])] = reader.msg
        BY <1>0, <2>1, <3>3 DEF InOrder
      <4>4. reader.msg \in Kinds
        BY <1>t, <4>3
      <4>5. Append(SubSeq(heard[x], 1, Len(heard[x]) - 1), reader.msg) = heard[x]
        BY <1>t, <4>3
      <4>6. Given(x)' = Append(Given(x), reader.msg)
        <5>1. Given(x)' = call[x].got \o Append(box[x].ch, reader.msg)
          BY <2>1, <4>2 DEF Given
        <5> QED  BY <1>t, <4>4, <5>1, Joined DEF Given
      <4>7. Due(x) = SubSeq(heard[x], 1, Len(heard[x]) - 1) /\ Due(x)' = heard[x]
        BY <2>1, <2>3, <3>3 DEF Due
      <4>8. Complete(x) => Complete(x)'
        BY <2>3, <3>3, <4>2, <4>5, <4>6, <4>7 DEF Complete
      <4> QED  BY <1>0, <2>1, <4>1, <4>8 DEF Whole, Undisturbed
    <3> QED  BY <3>1, <3>2, <3>3
  <2>4. reader = [at |-> reader.at, hand |-> reader.hand, msg |-> reader.msg]
    BY <1>0 DEF TypeOK, Off, Reading
  <2> QED  BY <1>6, <2>1, <2>2, <2>3, <2>4 DEF Deliver, Reading
<1>7. ASSUME NEW r \in Requests, Finish(r) PROVE Whole(x)'
  <2>1. /\ UNCHANGED <<call, heard, lost, cancelled>>
        /\ reader.at = "retire" /\ reader.hand = {r}
        /\ reader'.hand = {} /\ reader'.at = "read"
    BY <1>0, <1>7 DEF Finish, Goroutines, Reading
  <2>2. CASE box'[x] = box[x]
    BY <1>0, <2>1, <2>2, Untouched
  <2>3. CASE x = r /\ box'[x].shut /\ box'[x].ch = box[x].ch
    <3>1. heard[x] # <<>> /\ heard[x][Len(heard[x])] \in Terminal
      BY <1>0, <2>1, <2>3 DEF InOrder, Goroutines
    <3>2. HeardOut(x)
      BY <1>t, <3>1 DEF HeardOut
    <3>3. Given(x)' = Given(x) /\ Due(x) = heard[x] /\ Due(x)' = heard[x]
      BY <2>1, <2>3 DEF Given, Due
    <3>4. Complete(x) => Complete(x)'
      BY <2>1, <2>3, <3>2, <3>3 DEF Complete, HeardOut
    <3> QED  BY <1>0, <2>1, <3>4 DEF Whole, Undisturbed
  <2>4. Shut(box[x]).shut /\ Shut(box[x]).ch = box[x].ch
    BY <1>0 DEF Shut, TypeOK, Boxes
  <2>5. box'[x] = box[x] \/ (x = r /\ box'[x] = Shut(box[x]))
    BY <1>t, <1>7 DEF Finish, Retire
  <2> QED  BY <2>2, <2>3, <2>4, <2>5
<1>8. ASSUME NEW r \in Requests, Watch(r) PROVE Whole(x)'
  <2>1. UNCHANGED <<call, heard, lost, cancelled, reader>> /\ r \in cancelled
    BY <1>8 DEF Watch
  <2>2. CASE x = r
    BY <1>0, <2>1, <2>2 DEF Whole, Undisturbed
  <2>3. CASE x # r
    <3>1. box'[x] = box[x]
      BY <1>t, <1>8, <2>3 DEF Watch, Retire
    <3> QED  BY <1>0, <2>1, <3>1, Untouched
  <2> QED  BY <2>2, <2>3
\* A step of the caller that takes nothing: what it has received stays what it was.
<1>9. ASSUME NEW r \in Requests,
             Start(r) \/ Store(r) \/ Load(r) \/ Check(r) \/ Write(r) \/ WriteFails(r)
               \/ TakeCancelled(r)
      PROVE  Whole(x)'
  <2>1. UNCHANGED <<box, heard, lost, cancelled, reader>>
    BY <1>9 DEF Start, Store, Load, Check, Write, WriteFails, TakeCancelled
  <2>2. CASE call'[x] = call[x]
    BY <1>0, <2>1, <2>2, Untouched
  <2>3. CASE /\ call'[x].got = call[x].got
             /\ \/ /\ call'[x].result = call[x].result /\ call[x].at \notin {"wait", "done"}
                   /\ call'[x].at # "done"
                \/ call'[x].result \notin {"none", "answer"} /\ call'[x].at = "done"
    <3>1. Given(x)' = Given(x) /\ Due(x)' = Due(x)
      BY <2>1, <2>3 DEF Given, Due
    <3>2. Complete(x)' <=> Complete(x)
      BY <2>1, <3>1 DEF Complete, HeardOut
    <3> QED  BY <1>0, <2>1, <2>3, <3>2 DEF Whole, Undisturbed
  <2>4. ASSUME x = r, NEW place, Goto(r, place)
        PROVE  call'[x].got = call[x].got /\ call'[x].result = call[x].result /\ call'[x].at = place
    BY <1>0, <2>4 DEF Goto, TypeOK, Calls
  <2>5. ASSUME x = r, NEW result, Return(r, result)
        PROVE  call'[x].got = call[x].got /\ call'[x].result = result /\ call'[x].at = "done"
    BY <1>0, <2>5 DEF Return, TypeOK, Calls
  <2>6. CASE x # r
    BY <1>t, <1>9, <2>2, <2>6 DEF Start, Store, Load, Check, Write, WriteFails, TakeCancelled, Goto, Return
  <2>7. CASE x = r
    <3>1. CASE Start(r)
      BY <2>3, <2>4, <2>5, <2>7, <3>1 DEF Start
    <3>2. CASE Store(r) \/ Check(r) \/ Write(r) \/ WriteFails(r)
      BY <2>3, <2>4, <2>7, <3>2 DEF Store, Check, Write, WriteFails
    <3>3. CASE Load(r)
      BY <2>2, <2>3, <2>4, <2>7, <3>3 DEF Load
    <3>4. CASE TakeCancelled(r)
      BY <2>3, <2>5, <2>7, <3>4 DEF TakeCancelled
    <3> QED  BY <1>9, <3>1, <3>2, <3>3, <3>4
  <2> QED  BY <2>6, <2>7
<1>10. ASSUME NEW r \in Requests, Undo(r) PROVE Whole(x)'
  <2>1. UNCHANGED <<heard, lost, cancelled, reader>>
    BY <1>10 DEF Undo
  <2>2. CASE x # r
    <3>1. call'[x] = call[x] /\ box'[x] = box[x]
      BY <1>t, <1>10, <2>2 DEF Undo, Retire, Return
    <3> QED  BY <1>0, <2>1, <3>1, Untouched
  <2>3. CASE x = r
    <3>1. call'[x].at = "done" /\ call'[x].result = "error"
      BY <1>0, <1>10, <2>3 DEF Undo, Return, TypeOK, Calls
    <3> QED  BY <3>1 DEF Whole
  <2> QED  BY <2>2, <2>3
<1>11. ASSUME NEW r \in Requests, Take(r) PROVE Whole(x)'
  <2>1. UNCHANGED <<heard, lost, cancelled, reader>>
    BY <1>11 DEF Take
  <2>2. CASE x # r
    <3>1. call'[x] = call[x] /\ box'[x] = box[x]
      BY <1>t, <1>11, <2>2 DEF Take
    <3> QED  BY <1>0, <2>1, <3>1, Untouched
  <2>3. CASE x = r
    <3> DEFINE msg == Head(box[x].ch)
               got == Append(call[x].got, msg)
    <3>1. call[x].at = "wait" /\ box[x].ch # <<>> /\ msg \in Kinds /\ got \in Seq(Kinds)
      BY <1>t, <1>11, <2>3 DEF Take
    <3>2. /\ call'[x].got = got
          /\ \/ msg = "end" /\ call'[x].at = "done" /\ call'[x].result = "answer"
             \/ msg = "error" /\ call'[x].at = "done" /\ call'[x].result = "error"
             \/ msg = "part" /\ call'[x].at = "wait" /\ call'[x].result = call[x].result
      BY <1>0, <1>11, <2>3, <3>1 DEF Take, TypeOK, Calls, Kinds, Terminal
    <3>3. box'[x].ch = Tail(box[x].ch) /\ box'[x].shut = box[x].shut
      BY <1>0, <1>11, <2>3 DEF Take, TypeOK, Boxes
    <3>4. Given(x)' = Given(x) /\ Due(x)' = Due(x)
      <4>1. Given(x)' = got \o Tail(box[x].ch) /\ Due(x)' = Due(x)
        BY <2>1, <3>2, <3>3 DEF Given, Due
      <4> QED  BY <1>t, <3>1, <4>1, Joined DEF Given
    <3>5. CASE msg = "error"
      BY <3>2, <3>5 DEF Whole
    <3>6. CASE msg = "part"
      <4>1. Complete(x)' <=> Complete(x)
        BY <2>1, <3>3, <3>4 DEF Complete, HeardOut
      <4>2. \A i \in DOMAIN got : got[i] \notin Terminal
        BY <1>0, <1>t, <3>1, <3>6 DEF Whole, Terminal
      <4> QED  BY <1>0, <2>1, <3>1, <3>2, <3>6, <4>1, <4>2 DEF Whole, Undisturbed
    <3>7. CASE msg = "end"
      <4>1. SUFFICES ASSUME Undisturbed(x)
                     PROVE  got = heard[x] /\ heard[x] # <<>> /\ heard[x][Len(heard[x])] = "end"
        BY <2>1, <3>2, <3>7 DEF Whole, Undisturbed
      <4>2. Complete(x)
        BY <1>0, <3>1, <4>1 DEF Whole
      <4>3. /\ Given(x) = got \o Tail(box[x].ch)
            /\ Len(got) \in DOMAIN Given(x) /\ got[Len(got)] = "end" /\ Len(got) > 0
            /\ \A i \in 1..Len(got) : got[i] = Given(x)[i]
        <5> DEFINE rest == Tail(box[x].ch)
        <5>1. Given(x) = got \o rest
          BY <1>t, <3>1, Joined DEF Given
        <5>2. rest \in Seq(Kinds) /\ Len(got) > 0 /\ Len(got) \in Nat /\ got[Len(got)] = "end"
          BY <1>t, <3>1, <3>7
        <5> HIDE DEF rest, got
        <5>3. Len(got \o rest) = Len(got) + Len(rest) /\ \A i \in 1..Len(got) : got[i] = (got \o rest)[i]
          BY <3>1, <5>2
        <5> QED  BY <3>1, <5>1, <5>2, <5>3 DEF rest
      <4>a. Len(got) \in Nat /\ Len(heard[x]) \in Nat /\ DOMAIN heard[x] = 1..Len(heard[x])
        BY <1>t, <3>1
      <4> HIDE DEF got
      <4>4. Len(got) <= Len(heard[x]) /\ \A i \in 1..Len(got) : got[i] = heard[x][i]
        <5>1. CASE Given(x) = heard[x]
          BY <4>3, <4>a, <5>1
        <5>2. CASE Given(x) = SubSeq(heard[x], 1, Len(heard[x]) - 1)
          <6>1. DOMAIN Given(x) = 1..(Len(heard[x]) - 1)
                /\ \A i \in 1..(Len(heard[x]) - 1) : Given(x)[i] = heard[x][i]
            BY <1>t, <5>2
          <6>2. Len(got) \in 1..(Len(heard[x]) - 1)
            BY <4>3, <6>1
          <6>3. \A i \in 1..Len(got) : i \in 1..(Len(heard[x]) - 1)
            BY <4>a, <6>2
          <6> QED  BY <4>3, <4>a, <6>1, <6>2, <6>3
        <5>3. CASE \E s \in Seq(Kinds) : Given(x) = Append(s, "error")
                     /\ Len(s) <= Len(heard[x]) /\ \A i \in 1..Len(s) : s[i] = heard[x][i]
          <6>1. PICK s \in Seq(Kinds) : Given(x) = Append(s, "error")
                     /\ Len(s) <= Len(heard[x]) /\ \A i \in 1..Len(s) : s[i] = heard[x][i]
            BY <5>3
          <6>2. /\ Len(s) \in Nat /\ DOMAIN Given(x) = 1..(Len(s) + 1)
                /\ Given(x)[Len(s) + 1] = "error" /\ \A i \in 1..Len(s) : Given(x)[i] = s[i]
            BY <6>1
          <6>3. Len(got) # Len(s) + 1
            BY <4>3, <4>a, <6>2
          <6> QED  BY <4>3, <4>a, <6>1, <6>2, <6>3
        <5>4. Due(x) \in Seq(Kinds) /\ Len(Due(x)) <= Len(heard[x])
              /\ \A i \in 1..Len(Due(x)) : Due(x)[i] = heard[x][i]
          <6>1. CASE heard[x] = <<>> \/ Due(x) = heard[x]
            BY <1>t, <6>1 DEF Due
          <6>2. CASE heard[x] # <<>> /\ Due(x) = SubSeq(heard[x], 1, Len(heard[x]) - 1)
            BY <1>t, <6>2
          <6> QED  BY <6>1, <6>2 DEF Due
        <5>5. Given(x) \in {heard[x], Due(x), Append(Due(x), "error")}
          BY <4>2 DEF Complete
        <5> QED  BY <5>1, <5>2, <5>3, <5>4, <5>5 DEF Due
      <4>5. Len(got) = Len(heard[x]) /\ heard[x][Len(heard[x])] = "end"
        <5>1. Len(got) \in DOMAIN heard[x] /\ heard[x][Len(got)] = "end"
          BY <4>3, <4>4, <4>a
        <5> QED  BY <1>0, <5>1 DEF InOrder, Terminal
      <4> QED  BY <1>t, <3>1, <4>3, <4>4, <4>5, <4>a, SeqEqual
    <3> QED  BY <3>1, <3>5, <3>6, <3>7 DEF Kinds, Terminal
  <2> QED  BY <2>2, <2>3
<1>12. ASSUME NEW r \in Requests, TakeClosed(r) PROVE Whole(x)'
  <2>1. UNCHANGED <<box, heard, lost, cancelled, reader>>
    BY <1>12 DEF TakeClosed
  <2>2. CASE x # r
    <3>1. call'[x] = call[x]
      BY <1>t, <1>12, <2>2 DEF TakeClosed, Return
    <3> QED  BY <1>0, <2>1, <3>1, Untouched
  <2>3. CASE x = r
    <3>1. call'[x].at = "done" /\ call[x].at = "wait" /\ box[x].ch = <<>> /\ box[x].shut
      BY <1>0, <1>12, <2>3 DEF TakeClosed, Return, TypeOK, Calls
    <3>2. SUFFICES ASSUME Undisturbed(x) PROVE FALSE
      BY <2>1, <3>1, <3>2 DEF Whole, Undisturbed
    <3>3. Given(x) = call[x].got
      BY <1>t, <3>1 DEF Given
    <3>4. \A i \in DOMAIN call[x].got : call[x].got[i] \notin Terminal
      BY <1>0, <3>1 DEF Whole
    <3>5. Complete(x)
      BY <1>0, <3>1, <3>2 DEF Whole
    <3>6. CASE call[x].got = Append(Due(x), "error")
      <4>1. Due(x) \in Seq(Kinds)
        BY <1>t DEF Due
      <4> QED  BY <3>4, <3>6, <4>1 DEF Terminal
    <3>7. CASE call[x].got = heard[x] /\ HeardOut(x)
      BY <3>4, <3>7 DEF HeardOut
    <3> QED  BY <3>1, <3>3, <3>5, <3>6, <3>7 DEF Complete
  <2> QED  BY <2>2, <2>3
<1> QED
  BY <1>1, <1>2, <1>3, <1>4, <1>5, <1>6, <1>7, <1>8, <1>9, <1>10, <1>11, <1>12
     DEF Next, Connecting, Cleaning, Ending, Dispatching, Calling, Watching

LEMMA WholeInit == ASSUME Init PROVE WholeInv
BY DEF Init, WholeInv, Whole, Complete, Given, Due, Off, Reading

\* What is answered is all that was heard, to the end, unless messages were dropped
\* or the client has left.
THEOREM AnswersAreWhole == Spec => []AnswerIsWhole
<1>1. ASSUME RelayInv, WholeInv, [Next]_vars PROVE WholeInv'
  <2>1. CASE Next
    BY <1>1, <2>1, WholeStep DEF WholeInv
  <2>2. CASE UNCHANGED vars
    BY <1>1, <2>2 DEF WholeInv, Whole, Undisturbed, Complete, Given, Due, HeardOut, vars
  <2> QED  BY <1>1, <2>1, <2>2
<1>2. WholeInv => AnswerIsWhole
  BY DEF WholeInv, Whole, Undisturbed, AnswerIsWhole, Last
<1> QED  BY <1>1, <1>2, InvHolds, WholeInit, PTL DEF Spec
=============================================================================
