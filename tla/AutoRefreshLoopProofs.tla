----------------------- MODULE AutoRefreshLoopProofs ------------------------
(***************************************************************************)
(* What is proved about the refresh loop, for every set of credentials, of *)
(* workers and of token lives, any capacity of the channel, any intervals  *)
(* and passes of the loop of any length: nothing that has to be checked is *)
(* forgotten, the sleeping loop will be woken, and a credential is not     *)
(* marked for a worker twice at one instant, but in the named cases.       *)
(*                                                                         *)
(* The invariant says of every stage of the loop where a credential is     *)
(* that has left the heap, of the calls under way what they are going to   *)
(* make good, and of a credential that was handed out why it is not due.   *)
(***************************************************************************)
EXTENDS AutoRefreshLoop, FiniteSetsExt, WellFoundedInduction, TLAPS

-----------------------------------------------------------------------------
(* Numbers.                                                                *)

\* A non-empty set of naturals has a least element, and Min returns it.
LEMMA MinOfNaturals ==
  ASSUME NEW S \in SUBSET Nat, S # {}
  PROVE  /\ Min(S) \in S
         /\ \A x \in S : Min(S) <= x
<1>1. PICK x \in S : \A y \in S : ~(<<y, x>> \in OpToRel(<, Nat))
  <2> DEFINE R == OpToRel(<, Nat)
  <2>1. IsWellFoundedOn(R, Nat)
    BY NatLessThanWellFounded
  <2> HIDE DEF R
  <2>2. \E x \in S : \A y \in S : ~(<<y, x>> \in R)
    BY <2>1, WFMin
  <2> QED
    BY <2>2 DEF R
<1>2. \A y \in S : x <= y
  <2>1. ASSUME NEW y \in S
        PROVE  ~(y < x)
    BY <1>1, Zenon DEF OpToRel
  <2> QED
    BY <2>1
<1> QED
  BY <1>2 DEF Min


\* Instants that tokens, the heap and the loop hold: only the timer is set further
\* ahead than MaxAhead, by the age of the loop's time.
Near == Past .. MaxAhead

Tokens == [due : Near \union {Never}, after : Near, unauth : BOOLEAN]

Stages == {"select", "due", "mark", "send", "reread", "drain", "dirty", "apply", "timer"}

LoopRecords ==
  [at : Stages, pass : {"none", "due", "dirty"}, lag : 0 .. MaxLag, ids : SUBSET Auths,
   id : Auths \union {NoAuth}, next : Near \union {Never}]

WorkerRecords ==
  [at : {"idle", "provider", "tell", "wake"}, id : Auths \union {NoAuth}, calls : 0 .. 2]

ClockType ==
  /\ auths \in [Auths -> Tokens \union {NoAuth}]
  /\ heap \in [Auths -> Near \union {Never}]
  /\ timer \in Times \union {Never}

\* The loop has a credential in hand, or has yet to choose one of the pass.
LoopType ==
  /\ loop \in LoopRecords
  /\ loop.at \in {"mark", "send", "reread", "apply"} => loop.id \in Auths /\ loop.id \in loop.ids
  /\ loop.at \in {"due", "mark", "send", "reread"} => loop.pass = "due"
  /\ loop.at = "dirty" => loop.pass = "dirty"
  /\ loop.at = "apply" => loop.pass \in {"due", "dirty"}
  /\ loop.at \in {"select", "drain", "timer"} => loop.ids = {}
  /\ loop.at = "select" => loop.lag = 0

WorkerType ==
  /\ worker \in [Workers -> WorkerRecords]
  /\ \A w \in Workers : worker[w].at # "idle" => worker[w].id \in Auths
  /\ jobs \in Seq(Auths) /\ Len(jobs) <= JobCap

CallType ==
  /\ tell \in [Auths -> Nat]
  /\ waking \in [Auths -> Nat]
  /\ untell \in [Auths -> Nat]
  /\ dirty \in SUBSET Auths
  /\ wake \in BOOLEAN
  /\ handed \in SUBSET Auths
  /\ unsettled \in SUBSET Auths
  /\ spent \in 0 .. MaxOperations

LoopTyped == ClockType /\ LoopType /\ WorkerType /\ CallType

-----------------------------------------------------------------------------
(* Instants.                                                               *)

LEMMA Numbers ==
  /\ MaxLag \in Nat /\ MaxAhead \in Nat /\ MaxOperations \in Nat
  /\ JobCap \in Nat /\ JobCap > 0
  /\ Pending \in 1 .. MaxAhead
  /\ Failure \in 1 .. MaxAhead
  /\ Ineffective \in 1 .. MaxAhead
  /\ Interval \in 1 .. MaxAhead
  /\ Lives \subseteq 0 .. MaxAhead
BY LoopAssumption DEF LoopAssumption

LEMMA NearTimes ==
  /\ Past \in Near /\ Never \notin Near /\ Never \in Int
  /\ \A t \in Near : t \in Int /\ t \in Times /\ Past <= t /\ t <= MaxAhead /\ t < Never
  /\ \A t \in 0 .. MaxAhead : t \in Near
  /\ \A t \in 1 .. MaxAhead : t \in Near /\ \A lag \in 0 .. MaxLag : t - lag \in Near
BY Numbers DEF Near, Times, Past, Never

LEMMA NearerTimes ==
  /\ \A t \in Near : Nearer(t) \in Near
  /\ \A t \in Times \union {Never} : Nearer(t) \in Times \union {Never}
  /\ \A t \in Near \union {Never} : Nearer(t) = Never <=> t = Never
  /\ \A t \in Times \union {Never} : Nearer(t) = Never <=> t = Never
BY Numbers DEF Near, Times, Past, Never, Nearer

\* The time of the next check, and when there is one.
LEMMA NextCheckTime ==
  ASSUME NEW a \in Tokens \union {NoAuth}, NEW lag \in 0 .. MaxLag
  PROVE  /\ NextCheck(a, lag) \in Near \union {Never}
         /\ NextCheck(a, lag) # Never
              <=> a # NoAuth /\ ~a.unauth /\ (a.after > -lag \/ a.due # Never)
<1>1. CASE a = NoAuth
  BY <1>1, NearTimes DEF NextCheck
<1>2. CASE a # NoAuth
  <2>1. a \in Tokens /\ a.after \in Near /\ a.due \in Near \union {Never} /\ a.unauth \in BOOLEAN
    BY <1>2 DEF Tokens
  <2>2. -lag \in Near
    BY Numbers DEF Near, Past
  <2> QED
    BY <1>2, <2>1, <2>2, NearTimes, Zenon DEF NextCheck, Later
<1> QED
  BY <1>1, <1>2

-----------------------------------------------------------------------------
(* Types.                                                                  *)

LEMMA ProceedType ==
  ASSUME LoopType, loop.pass \in {"due", "dirty"}, NEW ids \in SUBSET Auths
  PROVE  LET l == Proceed(ids) IN
         /\ l \in LoopRecords
         /\ l.at \in {"due", "dirty", "drain", "timer"}
         /\ l.at \in {"due", "dirty"} => l.at = l.pass
         /\ l.at \in {"drain", "timer"} => ids = {}
         /\ l.ids = ids /\ l.pass = loop.pass /\ l.lag = loop.lag
BY NearTimes DEF LoopType, Proceed, LoopRecords, Stages

LEMMA DecideType ==
  ASSUME LoopType, NEW id \in Auths, NEW next \in Near \union {Never}
  PROVE  LET l == Decide(id, next) IN
         /\ l \in LoopRecords
         /\ l.at = "apply" /\ l.id = id /\ l.next = next
         /\ l.ids = loop.ids /\ l.pass = loop.pass /\ l.lag = loop.lag
BY DEF LoopType, Decide, LoopRecords, Stages

LEMMA SelectType ==
  /\ AtSelect \in LoopRecords
  /\ AtSelect.at = "select" /\ AtSelect.ids = {} /\ AtSelect.lag = 0
BY NearTimes, Numbers DEF AtSelect, LoopRecords, Stages

-----------------------------------------------------------------------------
(* The timer.                                                              *)

\* The first check of the heap, if there is one.
LEMMA EarliestOfHeap ==
  ASSUME NEW S \in SUBSET (Near \union {Never}), S # {}
  PROVE  /\ Earliest(S) \in S
         /\ \A t \in S : Earliest(S) <= t
<1> DEFINE Shifted == {t + MaxLag : t \in S}
<1>1. \A t \in S : t \in Int /\ t + MaxLag \in Nat
  BY Numbers DEF Near, Past, Never
<1>2. Shifted \in SUBSET Nat /\ Shifted # {}
  BY <1>1
<1>3. Min(Shifted) \in Shifted /\ \A u \in Shifted : Min(Shifted) <= u
  BY <1>2, MinOfNaturals
<1>4. PICK s \in S : Min(Shifted) = s + MaxLag
  BY <1>3
<1>5. \A t \in S : s <= t
  <2>1. ASSUME NEW t \in S PROVE s + MaxLag <= t + MaxLag
    BY <1>3, <1>4
  <2> QED BY <1>1, <2>1, Numbers
<1> HIDE DEF Shifted
<1>6. \E x \in S : \A t \in S : x <= t
  BY <1>5
<1> QED BY <1>6 DEF Earliest

\* The timer is set, and not later than a credential's time, counted from now.
LEMMA TimerOfHeap ==
  ASSUME LoopTyped, ResetTimer
  PROVE  /\ timer' \in Times \union {Never}
         /\ \A id \in Auths : heap[id] # Never =>
              timer' # Never /\ timer' <= Later(heap[id] + MaxLag, 0)
<1> DEFINE S == {heap[id] : id \in Auths} \union {Never}
           next == Earliest(S)
<1>1. timer' = IF next = Never THEN Never ELSE Later(next + loop.lag, 0)
  BY DEF ResetTimer
<1>2. S \in SUBSET (Near \union {Never}) /\ S # {}
  BY DEF LoopTyped, ClockType
<1>3. next \in S /\ \A t \in S : next <= t
  BY <1>2, EarliestOfHeap
<1>4. loop.lag \in 0 .. MaxLag
  BY DEF LoopTyped, LoopType, LoopRecords
<1>5. \A id \in Auths : heap[id] \in S
  OBVIOUS
<1> HIDE DEF S, next
<1>6. next \in Near \union {Never}
  BY <1>2, <1>3
<1>7. next # Never => Later(next + loop.lag, 0) \in Times
  BY <1>4, <1>6, Numbers, NearTimes DEF Later, Times, Past, Near
<1>8. ASSUME NEW id \in Auths, heap[id] # Never
      PROVE  timer' # Never /\ timer' <= Later(heap[id] + MaxLag, 0)
  <2>1. heap[id] \in Near /\ next <= heap[id]
    BY <1>3, <1>5, <1>8 DEF LoopTyped, ClockType
  <2>2. next \in Near
    BY <1>6, <2>1, NearTimes
  <2>3. timer' = Later(next + loop.lag, 0) /\ timer' \in Times
    BY <1>1, <1>7, <2>2, NearTimes
  <2>4. Never \notin Times
    BY Numbers DEF Times, Never, Past
  <2> QED BY <1>4, <2>1, <2>2, <2>3, <2>4, NearTimes, Numbers DEF Later
<1> QED
  BY <1>1, <1>7, <1>8

-----------------------------------------------------------------------------
(* The steps keep the types.                                               *)

LEMMA LoopStepTyped ==
  ASSUME LoopTyped, Loop
  PROVE  LoopTyped'
<1> USE DEF LoopTyped
<1>1. CASE Wakeup
  <2>1. loop' = [AtSelect EXCEPT !.at = "drain"] /\ LoopType'
    BY <1>1, SelectType DEF Wakeup, LoopType, LoopRecords, Stages
  <2> QED BY <1>1, <2>1 DEF Wakeup, Outside, ClockType, WorkerType, CallType
<1>2. CASE PopDue
  <2> DEFINE due == {id \in Auths : heap[id] <= 0}
  <2>1. /\ heap' = [id \in Auths |-> IF id \in due THEN Never ELSE heap[id]]
        /\ loop' = [AtSelect EXCEPT !.ids = due, !.pass = "due",
                                    !.at = IF due = {} THEN "drain" ELSE "due"]
        /\ timer' = Never
        /\ UNCHANGED <<auths, dirty, wake, jobs, worker, Outside, handed>>
    BY <1>2 DEF PopDue
  <2>2. due \in SUBSET Auths
    OBVIOUS
  <2> HIDE DEF due
  <2>3. LoopType'
    BY <2>1, <2>2, SelectType DEF LoopType, LoopRecords, Stages
  <2>4. ClockType'
    BY <2>1 DEF ClockType
  <2> QED BY <2>1, <2>3, <2>4 DEF Outside, WorkerType, CallType
<1>3. CASE MarkPending
  <2>1. LoopType'
    <3>1. loop.at = "mark" /\ \E at \in {"send", "reread"} : loop' = [loop EXCEPT !.at = at]
      BY <1>3 DEF MarkPending
    <3> QED BY <3>1 DEF LoopType, LoopRecords, Stages
  <2>2. loop.at = "mark" /\ loop.id \in Auths /\ loop.lag \in 0 .. MaxLag
    BY <1>3 DEF MarkPending, LoopType, LoopRecords
  <2>3. ClockType'
    <3>1. Pending - loop.lag \in Near
      BY <2>2, Numbers, NearTimes
    <3>2. CASE auths' = [auths EXCEPT ![loop.id].after = Pending - loop.lag] /\ auths[loop.id] # NoAuth
      <4>1. auths[loop.id] \in Tokens
        BY <2>2, <3>2 DEF ClockType
      <4>2. [auths[loop.id] EXCEPT !.after = Pending - loop.lag] \in Tokens
        BY <3>1, <4>1 DEF Tokens
      <4> QED BY <1>3, <2>2, <3>2, <4>2 DEF MarkPending, ClockType
    <3> QED BY <1>3, <3>2 DEF MarkPending, ClockType
  <2>4. CallType' /\ WorkerType'
    BY <1>3, <2>2 DEF MarkPending, CallType, WorkerType, Outside
  <2> QED BY <2>1, <2>3, <2>4
<1>4. CASE Reread
  <2>1. loop.id \in Auths /\ loop.id \in loop.ids /\ loop.pass = "due" /\ loop.lag \in 0 .. MaxLag
    BY <1>4 DEF Reread, LoopType, LoopRecords
  <2>2. NextCheck(auths[loop.id], loop.lag) \in Near \union {Never}
    BY <2>1, NextCheckTime DEF ClockType
  <2>3. LoopType'
    BY <1>4, <2>1, <2>2, DecideType DEF Reread, LoopType
  <2> QED BY <1>4, <2>3 DEF Reread, Outside, ClockType, WorkerType, CallType
<1>5. CASE SendJob
  <2>1. loop.id \in Auths /\ loop.pass = "due" /\ loop.ids \ {loop.id} \in SUBSET Auths
    BY <1>5 DEF SendJob, LoopType, LoopRecords
  <2>2. LoopType'
    BY <1>5, <2>1, ProceedType DEF SendJob, LoopType
  <2>3. WorkerType'
    BY <1>5, <2>1, Numbers DEF SendJob, WorkerType
  <2> QED BY <1>5, <2>2, <2>3 DEF SendJob, Outside, ClockType, CallType
<1>6. CASE DrainDirty
  <2>1. LoopType'
    BY <1>6 DEF DrainDirty, LoopType, LoopRecords, Stages, CallType
  <2> QED BY <1>6, <2>1 DEF DrainDirty, Outside, ClockType, WorkerType, CallType
<1>7. CASE Apply
  <2>1. /\ loop.id \in Auths /\ loop.pass \in {"due", "dirty"} /\ loop.next \in Near \union {Never}
        /\ loop.ids \ {loop.id} \in SUBSET Auths
    BY <1>7 DEF Apply, LoopType, LoopRecords
  <2>2. LoopType'
    BY <1>7, <2>1, ProceedType DEF Apply, LoopType
  <2>3. ClockType'
    BY <1>7, <2>1 DEF Apply, ClockType
  <2> QED BY <1>7, <2>2, <2>3 DEF Apply, Outside, WorkerType, CallType
<1>8. CASE ResetTimer
  <2>1. LoopType'
    BY <1>8, SelectType DEF ResetTimer, LoopType
  <2>2. timer' \in Times \union {Never}
    BY <1>8, TimerOfHeap
  <2> QED BY <1>8, <2>1, <2>2 DEF ResetTimer, Outside, ClockType, WorkerType, CallType
<1>9. ASSUME NEW id \in Auths, ConsiderDue(id)
      PROVE  LoopTyped'
  <2>1. /\ loop.at = "due" /\ loop.pass = "due" /\ loop.lag \in 0 .. MaxLag /\ id \in loop.ids
        /\ loop.ids \ {id} \in SUBSET Auths
    BY <1>9 DEF ConsiderDue, LoopType, LoopRecords
  <2>2. /\ NextCheck(auths[id], loop.lag) \in Near \union {Never}
        /\ Interval - loop.lag \in Near \union {Never}
    BY <2>1, NextCheckTime, NearTimes, Numbers DEF ClockType
  <2>3. \/ loop' = Proceed(loop.ids \ {id})
        \/ loop' = Decide(id, NextCheck(auths[id], loop.lag))
        \/ loop' = Decide(id, Interval - loop.lag)
        \/ loop' = [loop EXCEPT !.at = "mark", !.id = id]
    BY <1>9 DEF ConsiderDue
  <2>4. LoopType'
    <3>1. CASE loop' = Proceed(loop.ids \ {id})
      BY <2>1, <3>1, ProceedType DEF LoopType
    <3>2. CASE \E next \in Near \union {Never} : loop' = Decide(id, next)
      BY <2>1, <3>2, DecideType DEF LoopType
    <3>3. CASE loop' = [loop EXCEPT !.at = "mark", !.id = id]
      BY <2>1, <3>3 DEF LoopType, LoopRecords, Stages
    <3> QED BY <2>2, <2>3, <3>1, <3>2, <3>3
  <2> QED BY <1>9, <2>4 DEF ConsiderDue, Outside, ClockType, WorkerType, CallType
<1>10. ASSUME NEW id \in Auths, ConsiderDirty(id)
       PROVE  LoopTyped'
  <2>1. /\ loop.at = "dirty" /\ loop.pass = "dirty" /\ loop.lag \in 0 .. MaxLag /\ id \in loop.ids
    BY <1>10 DEF ConsiderDirty, LoopType, LoopRecords
  <2>2. NextCheck(auths[id], loop.lag) \in Near \union {Never}
    BY <2>1, NextCheckTime DEF ClockType
  <2>3. LoopType'
    BY <1>10, <2>1, <2>2, DecideType DEF ConsiderDirty, LoopType
  <2> QED BY <1>10, <2>3 DEF ConsiderDirty, Outside, ClockType, WorkerType, CallType
<1> QED
  BY <1>1, <1>2, <1>3, <1>4, <1>5, <1>6, <1>7, <1>8, <1>9, <1>10 DEF Loop

\* A worker that is to tell the loop of its answer.
LEMMA RecalledType ==
  ASSUME NEW x \in WorkerRecords, NEW calls \in {1, 2}
  PROVE  /\ [x EXCEPT !.at = "tell", !.calls = calls] \in WorkerRecords
         /\ [x EXCEPT !.at = "tell", !.calls = calls].id = x.id
         /\ [x EXCEPT !.at = "tell", !.calls = calls].at = "tell"
<1> DEFINE y == [x EXCEPT !.at = "tell"]
<1>1. y \in WorkerRecords /\ y.id = x.id /\ y.at = "tell"
  BY DEF WorkerRecords
<1> HIDE DEF y
<1>2. /\ [y EXCEPT !.calls = calls] \in WorkerRecords
      /\ [y EXCEPT !.calls = calls].id = x.id /\ [y EXCEPT !.calls = calls].at = "tell"
  BY <1>1 DEF WorkerRecords
<1> QED BY <1>2 DEF y

\* What an answer leaves of a token.
LEMMA AnswerType ==
  /\ \A due \in Lives : [due |-> due, after |-> AfterAnswer(due), unauth |-> FALSE] \in Tokens
  /\ \A a \in Tokens : /\ [a EXCEPT !.after = Failure, !.unauth = FALSE] \in Tokens
                       /\ [a EXCEPT !.after = Past, !.unauth = TRUE] \in Tokens
<1>1. Failure \in Near /\ Past \in Near /\ Ineffective \in Near /\ \A due \in Lives : due \in Near
  BY Numbers, NearTimes
<1> QED BY <1>1 DEF AfterAnswer, Tokens

LEMMA AnsweredTyped ==
  ASSUME LoopTyped, NEW w \in Workers, worker[w].at = "provider", NEW token,
         auths[worker[w].id] # NoAuth => token \in Tokens, Answered(w, token)
  PROVE  LoopTyped'
<1>1. worker[w].id \in Auths /\ worker[w] \in WorkerRecords
  BY DEF LoopTyped, WorkerType
<1>2. ClockType'
  BY <1>1 DEF LoopTyped, Answered, ClockType
<1>3. WorkerType'
  <2>1. PICK calls \in {1, 2} : worker' = [worker EXCEPT ![w].at = "tell", ![w].calls = calls]
    BY DEF Answered
  <2>2. \A x \in Workers : worker'[x] = IF x = w THEN [worker[w] EXCEPT !.at = "tell", !.calls = calls]
                                         ELSE worker[x]
    BY <2>1 DEF LoopTyped, WorkerType
  <2>3. /\ [worker[w] EXCEPT !.at = "tell", !.calls = calls] \in WorkerRecords
        /\ [worker[w] EXCEPT !.at = "tell", !.calls = calls].id = worker[w].id
    BY <1>1, RecalledType
  <2> QED BY <1>1, <2>1, <2>2, <2>3 DEF LoopTyped, WorkerType, Answered
<1> QED
  BY <1>2, <1>3 DEF LoopTyped, Answered, Outside, LoopType, CallType

\* The steps of the workers.
LEMMA WorkStepTyped ==
  ASSUME LoopTyped, NEW w \in Workers, Work(w)
  PROVE  LoopTyped'
<1>1. worker[w] \in WorkerRecords /\ (worker[w].at # "idle" => worker[w].id \in Auths)
  BY DEF LoopTyped, WorkerType
<1>2. CASE TakeJob(w)
  <2>1. jobs # <<>> /\ Head(jobs) \in Auths /\ jobs' \in Seq(Auths) /\ Len(jobs') <= JobCap
    BY <1>2, Numbers DEF TakeJob, LoopTyped, WorkerType
  <2>2. PICK at \in {"provider", "tell"} :
          worker' = [worker EXCEPT ![w] = [at |-> at, id |-> Head(jobs), calls |-> 1]]
    BY <1>2 DEF TakeJob
  <2>3. [at |-> at, id |-> Head(jobs), calls |-> 1] \in WorkerRecords
    BY <2>1 DEF WorkerRecords
  <2>4. WorkerType'
    BY <2>1, <2>2, <2>3 DEF LoopTyped, WorkerType
  <2> QED BY <1>2, <2>4 DEF TakeJob, LoopTyped, Outside, ClockType, LoopType, CallType
<1>3. CASE RefreshFails(w)
  <2>1. auths[worker[w].id] # NoAuth => auths[worker[w].id] \in Tokens
    BY <1>1, <1>3 DEF RefreshFails, LoopTyped, ClockType
  <2> QED BY <1>3, <2>1, AnsweredTyped, AnswerType DEF RefreshFails
<1>4. CASE RefreshUnauthorized(w)
  <2>1. auths[worker[w].id] # NoAuth => auths[worker[w].id] \in Tokens
    BY <1>1, <1>4 DEF RefreshUnauthorized, LoopTyped, ClockType
  <2> QED BY <1>4, <2>1, AnsweredTyped, AnswerType DEF RefreshUnauthorized
<1>5. CASE \E due \in Lives : RefreshSucceeds(w, due)
  BY <1>5, AnsweredTyped, AnswerType DEF RefreshSucceeds
<1>6. CASE TellDirty(w)
  <2>1. WorkerType'
    <3>1. [worker[w] EXCEPT !.at = "wake"] \in WorkerRecords
      BY <1>1 DEF WorkerRecords
    <3>2. worker' = [worker EXCEPT ![w].at = "wake"] /\ worker[w].id \in Auths /\ UNCHANGED jobs
      BY <1>1, <1>6 DEF TellDirty
    <3> QED BY <1>1, <3>1, <3>2 DEF LoopTyped, WorkerType, WorkerRecords
  <2> QED BY <1>1, <1>6, <2>1 DEF TellDirty, LoopTyped, Outside, ClockType, LoopType, CallType
<1>7. CASE TellWake(w)
  <2>1. WorkerType'
    <3> DEFINE next == IF worker[w].calls = 1 THEN Resting ELSE [worker[w] EXCEPT !.at = "tell", !.calls = 1]
    <3>1. next \in WorkerRecords /\ (next.at # "idle" => next.id = worker[w].id)
      <4>1. Resting \in WorkerRecords /\ Resting.at = "idle"
        BY DEF WorkerRecords, Resting
      <4>2. /\ [worker[w] EXCEPT !.at = "tell", !.calls = 1] \in WorkerRecords
            /\ [worker[w] EXCEPT !.at = "tell", !.calls = 1].id = worker[w].id
        BY <1>1, RecalledType
      <4> QED BY <4>1, <4>2
    <3>2. worker' = [worker EXCEPT ![w] = next] /\ worker[w].id \in Auths /\ UNCHANGED jobs
      BY <1>1, <1>7 DEF TellWake, LoopTyped, WorkerType
    <3> HIDE DEF next
    <3> QED BY <3>1, <3>2 DEF LoopTyped, WorkerType
  <2> QED BY <1>7, <2>1 DEF TellWake, LoopTyped, Outside, ClockType, LoopType, CallType
<1>8. CASE RefreshCancelled(w)
  <2>1. /\ worker' = [worker EXCEPT ![w] = [worker[w] EXCEPT !.at = "tell", !.calls = 1]]
        /\ worker[w].id \in Auths /\ UNCHANGED jobs
    BY <1>1, <1>8 DEF RefreshCancelled, LoopTyped, WorkerType
  <2>2. /\ [worker[w] EXCEPT !.at = "tell", !.calls = 1] \in WorkerRecords
        /\ [worker[w] EXCEPT !.at = "tell", !.calls = 1].id = worker[w].id
    BY <1>1, RecalledType
  <2>3. WorkerType'
    BY <2>1, <2>2 DEF LoopTyped, WorkerType
  <2> QED BY <1>8, <2>3 DEF RefreshCancelled, LoopTyped, Outside, ClockType, LoopType, CallType
<1> QED
  BY <1>2, <1>3, <1>4, <1>5, <1>6, <1>7, <1>8 DEF Work

\* The steps of the rest of the program.
LEMMA OutsideStepTyped ==
  ASSUME LoopTyped, NEW id \in Auths,
         \/ Calls(id)
         \/ \E due \in Lives \union {Never} : Edit(id, due)
         \/ Remove(id)
         \/ \E unauthorized \in BOOLEAN : Result(id, unauthorized)
  PROVE  LoopTyped'
<1>1. /\ tell[id] \in Nat /\ waking[id] \in Nat /\ untell[id] \in Nat
      /\ auths[id] \in Tokens \union {NoAuth}
  BY DEF LoopTyped, ClockType, CallType
<1>2. ASSUME NEW n \in Nat, n > 0 PROVE n - 1 \in Nat
  BY <1>2
<1>3. ASSUME NEW operation, May(operation), Spend(operation)
      PROVE  spent' \in 0 .. MaxOperations
  BY <1>3, Numbers DEF LoopTyped, CallType, May, Spend, Cost
<1>4. CASE QueueDirty(id)
  BY <1>1, <1>2, <1>4 DEF QueueDirty, Rest, LoopTyped, ClockType, LoopType, WorkerType, CallType
<1>5. CASE QueueWake(id)
  BY <1>1, <1>2, <1>5 DEF QueueWake, Rest, LoopTyped, ClockType, LoopType, WorkerType, CallType
<1>6. CASE QueueUnschedule(id)
  BY <1>1, <1>2, <1>6 DEF QueueUnschedule, Rest, LoopTyped, ClockType, LoopType, WorkerType, CallType
<1>7. ASSUME NEW due \in Lives \union {Never}, Edit(id, due)
      PROVE  LoopTyped'
  <2>1. PICK after \in {Past} \union (IF auths[id] = NoAuth THEN {} ELSE {auths[id].after}) :
          auths' = [auths EXCEPT ![id] = [due |-> due, after |-> after, unauth |-> FALSE]]
    BY <1>7 DEF Edit
  <2>2. due \in Near \union {Never} /\ after \in Near
    BY <1>1, Numbers, NearTimes DEF Tokens
  <2>3. [due |-> due, after |-> after, unauth |-> FALSE] \in Tokens
    BY <2>2 DEF Tokens
  <2>4. ClockType'
    BY <1>7, <2>1, <2>3 DEF Edit, Rest, LoopTyped, ClockType
  <2>5. CallType'
    BY <1>1, <1>3, <1>7 DEF Edit, LoopTyped, CallType
  <2> QED BY <1>7, <2>4, <2>5 DEF Edit, Rest, LoopTyped, LoopType, WorkerType
<1>8. CASE Remove(id)
  <2>1. CallType'
    BY <1>1, <1>3, <1>8 DEF Remove, LoopTyped, CallType
  <2> QED BY <1>8, <2>1 DEF Remove, Rest, LoopTyped, ClockType, LoopType, WorkerType
<1>9. ASSUME NEW unauthorized \in BOOLEAN, Result(id, unauthorized)
      PROVE  LoopTyped'
  <2>1. CallType'
    BY <1>1, <1>3, <1>9 DEF Result, LoopTyped, CallType
  <2>2. auths[id] \in Tokens
    BY <1>1, <1>9 DEF Result
  <2>3. [auths[id] EXCEPT !.unauth = unauthorized] \in Tokens
    BY <2>2 DEF Tokens
  <2>4. ClockType'
    BY <1>9, <2>3 DEF Result, Rest, LoopTyped, ClockType
  <2> QED BY <1>9, <2>1, <2>4 DEF Result, Rest, LoopTyped, LoopType, WorkerType
<1> QED
  BY <1>4, <1>5, <1>6, <1>7, <1>8, <1>9 DEF Calls

LEMMA TickTyped ==
  ASSUME LoopTyped, Tick
  PROVE  LoopTyped'
<1>1. ClockType'
  <2>1. ASSUME NEW id \in Auths
        PROVE  auths'[id] \in Tokens \union {NoAuth} /\ heap'[id] \in Near \union {Never}
    <3>1. heap'[id] = Nearer(heap[id]) /\ heap[id] \in Near \union {Never}
      BY DEF Tick, LoopTyped, ClockType
    <3>2. CASE auths[id] = NoAuth
      BY <3>1, <3>2, NearerTimes DEF Tick
    <3>3. CASE auths[id] # NoAuth
      <4>1. auths[id] \in Tokens
        BY <3>3 DEF LoopTyped, ClockType
      <4>2. [auths[id] EXCEPT !.due = Nearer(@), !.after = Nearer(@)] \in Tokens
        BY <4>1, NearerTimes DEF Tokens
      <4> QED BY <3>1, <3>3, <4>2, NearerTimes DEF Tick
    <3> QED BY <3>2, <3>3
  <2>2. timer' \in Times \union {Never}
    BY NearerTimes DEF Tick, LoopTyped, ClockType
  <2> QED BY <2>1, <2>2 DEF Tick, ClockType
<1>2. LoopType'
  <2>1. PICK lag \in 0 .. MaxLag :
          /\ loop' = [loop EXCEPT !.next = Nearer(@), !.lag = lag]
          /\ loop.at = "select" => lag = 0
    <3>1. loop.lag \in 0 .. MaxLag
      BY DEF LoopTyped, LoopType, LoopRecords
    <3> DEFINE lag == IF loop.at = "select" THEN 0 ELSE loop.lag + 1
    <3>2. loop' = [loop EXCEPT !.next = Nearer(loop.next), !.lag = lag]
      BY DEF Tick
    <3>3. lag \in 0 .. MaxLag /\ (loop.at = "select" => lag = 0)
      <4>1. loop.at = "select" \/ loop.lag < MaxLag
        BY DEF Tick
      <4> QED BY <3>1, <4>1, Numbers
    <3> HIDE DEF lag
    <3> QED BY <3>2, <3>3
  <2>2. Nearer(loop.next) \in Near \union {Never}
    BY NearerTimes DEF LoopTyped, LoopType, LoopRecords
  <2> QED BY <2>1, <2>2 DEF LoopTyped, LoopType, LoopRecords
<1> QED
  BY <1>1, <1>2 DEF Tick, Outside, LoopTyped, WorkerType, CallType

LEMMA InitTyped ==
  Init => LoopTyped
<1> SUFFICES ASSUME Init PROVE LoopTyped
  OBVIOUS
<1>1. ClockType
  <2>1. \A a \in [due : Lives, after : {Past}, unauth : {FALSE}] : a \in Tokens
    BY Numbers, NearTimes DEF Tokens
  <2>2. auths \in [Auths -> Tokens \union {NoAuth}]
    BY <2>1 DEF Init
  <2>3. \A id \in Auths : NextCheck(auths[id], 0) \in Near \union {Never}
    BY <2>2, NextCheckTime, Numbers
  <2> QED BY <2>2, <2>3 DEF Init, ClockType
<1>2. LoopType
  BY SelectType DEF Init, LoopType, LoopRecords, Stages
<1>3. WorkerType
  <2>1. Resting \in WorkerRecords /\ Resting.at = "idle"
    BY DEF WorkerRecords, Resting
  <2>2. worker \in [Workers -> WorkerRecords] /\ \A w \in Workers : worker[w].at = "idle"
    BY <2>1 DEF Init
  <2>3. jobs \in Seq(Auths) /\ Len(jobs) = 0
    BY DEF Init
  <2> QED BY <2>2, <2>3, Numbers DEF WorkerType
<1>4. CallType
  <2>1. tell \in [Auths -> Nat] /\ waking \in [Auths -> Nat] /\ untell \in [Auths -> Nat]
    BY DEF Init
  <2>2. dirty \in SUBSET Auths /\ handed \in SUBSET Auths /\ unsettled \in SUBSET Auths
    BY DEF Init
  <2>3. wake \in BOOLEAN
    BY DEF Init
  <2>4. spent \in 0 .. MaxOperations
    BY Numbers DEF Init
  <2> QED BY <2>1, <2>2, <2>3, <2>4 DEF CallType
<1> QED
  BY <1>1, <1>2, <1>3, <1>4 DEF LoopTyped

LEMMA NextTyped ==
  LoopTyped /\ [Next]_vars => LoopTyped'
<1> SUFFICES ASSUME LoopTyped, [Next]_vars PROVE LoopTyped'
  OBVIOUS
<1>1. CASE UNCHANGED vars
  BY <1>1 DEF vars, LoopTyped, ClockType, LoopType, WorkerType, CallType
<1> QED
  BY <1>1, LoopStepTyped, WorkStepTyped, OutsideStepTyped, TickTyped DEF Next

LEMMA TypesImplyTypeOK ==
  LoopTyped => TypeOK
BY NearTimes
   DEF LoopTyped, ClockType, LoopType, LoopRecords, WorkerType, CallType, TypeOK, Tokens, Token

\* The loop, the calls and the channel stay within their types, and the channel
\* within its capacity.
THEOREM RefreshTypeCorrect == Spec => []TypeOK
<1>1. Spec => []LoopTyped
  BY InitTyped, NextTyped, PTL DEF Spec
<1> QED
  BY <1>1, TypesImplyTypeOK, PTL

-----------------------------------------------------------------------------
(* Nothing that has to be checked is forgotten.                            *)

Watched(id) == NextCheck(auths[id], loop.lag) # Never

Telling(id) == \E w \in Workers : worker[w].at = "tell" /\ worker[w].id = id

\* A call will put the credential into the dirty set, if it is not there yet.
OnItsWay(id) == id \in dirty \/ tell[id] > 0 \/ Telling(id)

\* Before the loop lets go of a credential it has handed out it has told itself of
\* it, and when it is about to take one from the heap that has to be checked after
\* all, a call that tells it so is under way.  A call that takes a credential from
\* the heap belongs to a removal nobody has made good.
Kept ==
  /\ \A id \in Auths : untell[id] > 0 => id \in unsettled
  /\ loop.at = "send" => loop.id \in dirty
  /\ loop.at = "apply" /\ loop.next = Never /\ loop.id \notin unsettled /\ Watched(loop.id)
       => OnItsWay(loop.id)

Unforgotten == Kept /\ NeverForgotten

LEMMA WatchedTokens ==
  ASSUME LoopTyped, NEW id \in Auths
  PROVE  /\ Watched(id) <=> /\ auths[id] # NoAuth /\ ~auths[id].unauth
                            /\ auths[id].after > -loop.lag \/ auths[id].due # Never
         /\ auths[id] # NoAuth => auths[id] \in Tokens
         /\ loop.lag \in 0 .. MaxLag
<1>1. loop.lag \in 0 .. MaxLag /\ auths[id] \in Tokens \union {NoAuth}
  BY DEF LoopTyped, ClockType, LoopType, LoopRecords
<1> QED BY <1>1, NextCheckTime DEF Watched

\* A credential that is remembered, or need not be.
Safe(id) == id \notin unsettled /\ Watched(id) => Remembered(id)

LEMMA SafeMeans ==
  /\ NeverForgotten <=> \A id \in Auths : Safe(id)
  /\ \A id \in Auths : Remembered(id) <=> heap[id] # Never \/ id \in loop.ids \/ OnItsWay(id)
BY DEF NeverForgotten, Safe, Watched, Remembered, OnItsWay, Telling

LEMMA LoopStepKeeps ==
  ASSUME LoopTyped, Unforgotten, Loop, LoopTyped'
  PROVE  Unforgotten'
<1>1. /\ UNCHANGED <<tell, waking, untell, unsettled, spent, worker>>
      /\ \A id \in Auths : untell'[id] > 0 => id \in unsettled'
      /\ \A id \in Auths : Telling(id)' <=> Telling(id)
  <2>1. UNCHANGED <<tell, waking, untell, unsettled, spent, worker>>
    BY DEF Loop, Wakeup, PopDue, MarkPending, Reread, SendJob, DrainDirty, Apply, ResetTimer,
           ConsiderDue, ConsiderDirty, Outside
  <2> QED BY <2>1 DEF Unforgotten, Kept, Telling
<1>2. /\ \A id \in Auths : Safe(id)
      /\ loop.at = "send" => loop.id \in dirty
      /\ loop.at = "apply" /\ loop.next = Never /\ loop.id \notin unsettled /\ Watched(loop.id)
           => OnItsWay(loop.id)
  BY SafeMeans DEF Unforgotten, Kept
<1>3. ASSUME UNCHANGED <<auths, loop.lag>>
      PROVE  \A id \in Auths : Watched(id)' <=> Watched(id)
  BY <1>3 DEF Watched
<1>4. ASSUME loop'.at \notin {"send", "apply"}, \A id \in Auths : Safe(id)'
      PROVE  Unforgotten'
  BY <1>1, <1>4, SafeMeans DEF Unforgotten, Kept, NeverForgotten, Safe, Watched
<1>5. CASE Wakeup
  <2>1. /\ loop'.at = "drain" /\ loop.lag = 0 /\ loop'.lag = 0
        /\ loop.ids = {} /\ UNCHANGED <<auths, heap, dirty>>
    BY <1>5, SelectType DEF Wakeup, AtSelect, LoopTyped, LoopType
  <2>2. \A id \in Auths : Safe(id)'
    BY <1>1, <1>2, <1>3, <2>1, SafeMeans DEF Safe, OnItsWay, Remembered, Telling
  <2> QED BY <1>4, <2>1, <2>2
<1>6. CASE PopDue
  <2>1. /\ loop'.at \in {"drain", "due"} /\ loop.lag = 0 /\ loop'.lag = 0 /\ loop.ids = {}
        /\ UNCHANGED <<auths, dirty>>
        /\ \A id \in Auths : heap'[id] # Never \/ id \in loop'.ids \/ heap[id] = Never
    BY <1>6, SelectType DEF PopDue, AtSelect, LoopTyped, LoopType
  <2>2. \A id \in Auths : Safe(id)'
    BY <1>1, <1>2, <1>3, <2>1, SafeMeans DEF Safe, OnItsWay, Remembered, Telling
  <2> QED BY <1>4, <2>1, <2>2
<1>7. CASE MarkPending
  <2>1. /\ loop.id \in Auths /\ loop.id \in loop.ids /\ UNCHANGED heap
        /\ loop'.ids = loop.ids /\ loop'.id = loop.id /\ loop'.lag = loop.lag
        /\ loop'.at \in {"send", "reread"} /\ (loop'.at = "send" => loop'.id \in dirty')
        /\ dirty \subseteq dirty' /\ \A id \in Auths : id # loop.id => auths'[id] = auths[id]
    BY <1>7 DEF MarkPending, LoopTyped, ClockType, LoopType, LoopRecords, Stages
  <2>2. \A id \in Auths : Safe(id)'
    <3>1. ASSUME NEW id \in Auths, id # loop.id PROVE Safe(id)'
      BY <1>1, <1>2, <2>1, <3>1, SafeMeans DEF Safe, Watched, OnItsWay, Remembered, Telling
    <3>2. ASSUME NEW id \in Auths, id = loop.id PROVE Safe(id)'
      BY <2>1, <3>2 DEF Safe, Remembered
    <3> QED BY <3>1, <3>2
  <2> QED BY <1>1, <2>1, <2>2, SafeMeans DEF Unforgotten, Kept, NeverForgotten, Safe, Watched
<1>8. CASE Reread
  <2>1. /\ loop.id \in Auths /\ loop.lag \in 0 .. MaxLag
        /\ NextCheck(auths[loop.id], loop.lag) \in Near \union {Never}
    BY <1>8, NextCheckTime DEF Reread, LoopTyped, ClockType, LoopType, LoopRecords
  <2>2. /\ loop'.at = "apply" /\ loop'.id = loop.id /\ loop'.next = NextCheck(auths[loop.id], loop.lag)
        /\ loop'.ids = loop.ids /\ loop'.lag = loop.lag /\ UNCHANGED <<auths, heap, dirty>>
    BY <1>8, <2>1, DecideType DEF Reread, LoopTyped
  <2>3. \A id \in Auths : Safe(id)'
    BY <1>1, <1>2, <1>3, <2>2, SafeMeans DEF Safe, OnItsWay, Remembered, Telling
  <2> QED BY <1>1, <2>2, <2>3, SafeMeans DEF Unforgotten, Kept, NeverForgotten, Safe, Watched
<1>9. CASE SendJob
  <2>1. loop.at = "send" /\ loop.id \in Auths /\ loop.pass = "due" /\ loop.ids \ {loop.id} \in SUBSET Auths
    BY <1>9 DEF SendJob, LoopTyped, LoopType, LoopRecords
  <2>2. /\ loop'.at \in {"due", "dirty", "drain", "timer"} /\ loop'.ids = loop.ids \ {loop.id}
        /\ loop'.lag = loop.lag /\ UNCHANGED <<auths, heap, dirty>>
    BY <1>9, <2>1, ProceedType DEF SendJob, LoopTyped
  <2>3. \A id \in Auths : Safe(id)'
    BY <1>1, <1>2, <1>3, <2>1, <2>2, SafeMeans DEF Safe, OnItsWay, Remembered, Telling
  <2> QED BY <1>4, <2>2, <2>3
<1>10. CASE DrainDirty
  <2>1. /\ loop'.at \in {"timer", "dirty"} /\ loop'.ids = dirty /\ loop.ids = {}
        /\ loop'.lag = loop.lag /\ UNCHANGED <<auths, heap>>
    BY <1>10 DEF DrainDirty, LoopTyped, LoopType, LoopRecords
  <2>2. \A id \in Auths : Safe(id)'
    BY <1>1, <1>2, <1>3, <2>1, SafeMeans DEF Safe, OnItsWay, Remembered, Telling
  <2> QED BY <1>4, <2>1, <2>2
<1>11. CASE Apply
  <2>1. /\ loop.at = "apply" /\ loop.id \in Auths /\ loop.pass \in {"due", "dirty"}
        /\ loop.ids \ {loop.id} \in SUBSET Auths
    BY <1>11 DEF Apply, LoopTyped, LoopType, LoopRecords
  <2>2. /\ loop'.at \in {"due", "dirty", "drain", "timer"} /\ loop'.ids = loop.ids \ {loop.id}
        /\ loop'.lag = loop.lag /\ UNCHANGED <<auths, dirty>>
        /\ \A id \in Auths : heap'[id] = IF id = loop.id THEN loop.next ELSE heap[id]
    BY <1>11, <2>1, ProceedType DEF Apply, LoopTyped, ClockType
  <2>3. ASSUME NEW id \in Auths PROVE Safe(id)'
    <3>1. CASE id = loop.id
      BY <1>1, <1>2, <1>3, <2>1, <2>2, <3>1 DEF Safe, OnItsWay, Remembered, Telling
    <3>2. CASE id # loop.id
      BY <1>1, <1>2, <1>3, <2>2, <3>2, SafeMeans DEF Safe, OnItsWay, Remembered, Telling
    <3> QED BY <3>1, <3>2
  <2> QED BY <1>4, <2>2, <2>3
<1>12. CASE ResetTimer
  <2>1. /\ loop'.at = "select" /\ loop'.ids = {} /\ loop.ids = {} /\ loop'.lag = 0
        /\ UNCHANGED <<auths, heap, dirty>>
    BY <1>12, SelectType DEF ResetTimer, LoopTyped, LoopType
  <2>2. ASSUME NEW id \in Auths, Watched(id)' PROVE Watched(id)
    <3>1. /\ auths[id] # NoAuth /\ ~auths[id].unauth
          /\ auths[id].after > -loop'.lag \/ auths[id].due # Never
      BY <2>1, <2>2, NextCheckTime DEF Watched, LoopTyped, ClockType, LoopType, LoopRecords
    <3>2. loop.lag \in 0 .. MaxLag /\ (auths[id] \in Tokens => auths[id].after \in Near) /\ auths[id] \in Tokens
      BY <3>1, WatchedTokens DEF Tokens
    <3>3. auths[id].after > -loop'.lag => auths[id].after > -loop.lag
      BY <2>1, <3>2, NearTimes, Numbers
    <3> QED BY <3>1, <3>3, WatchedTokens
  <2>3. \A id \in Auths : Safe(id)'
    BY <1>1, <1>2, <2>1, <2>2, SafeMeans DEF Safe, OnItsWay, Remembered, Telling
  <2> QED BY <1>4, <2>1, <2>3
<1>13. ASSUME NEW id \in Auths, ConsiderDue(id)
       PROVE  Unforgotten'
  <2>1. /\ loop.at = "due" /\ loop.pass = "due" /\ loop.lag \in 0 .. MaxLag /\ id \in loop.ids
        /\ loop.ids \ {id} \in SUBSET Auths /\ UNCHANGED <<auths, heap, dirty>>
    BY <1>13 DEF ConsiderDue, LoopTyped, LoopType, LoopRecords
  <2>2. /\ NextCheck(auths[id], loop.lag) \in Near \union {Never}
        /\ Interval - loop.lag \in Near
    BY <2>1, NextCheckTime, NearTimes, Numbers DEF LoopTyped, ClockType
  <2>3. \/ auths[id] = NoAuth /\ loop' = Proceed(loop.ids \ {id})
        \/ loop' = Decide(id, NextCheck(auths[id], loop.lag))
        \/ loop' = Decide(id, Interval - loop.lag)
        \/ loop' = [loop EXCEPT !.at = "mark", !.id = id]
    BY <1>13 DEF ConsiderDue
  <2>4. CASE auths[id] = NoAuth /\ loop' = Proceed(loop.ids \ {id})
    <3>1. /\ loop'.at \in {"due", "dirty", "drain", "timer"} /\ loop'.ids = loop.ids \ {id}
          /\ loop'.lag = loop.lag
      BY <2>1, <2>4, ProceedType DEF LoopTyped
    <3>2. ~Watched(id)
      BY <2>4, WatchedTokens
    <3>3. \A x \in Auths : Safe(x)'
      BY <1>1, <1>2, <1>3, <2>1, <3>1, <3>2, SafeMeans DEF Safe, OnItsWay, Remembered, Telling
    <3> QED BY <1>4, <3>1, <3>3
  <2>5. CASE \E next \in Near \union {Never} :
               loop' = Decide(id, next) /\ (next = Never => next = NextCheck(auths[id], loop.lag))
    <3>1. PICK next \in Near \union {Never} :
            loop' = Decide(id, next) /\ (next = Never => next = NextCheck(auths[id], loop.lag))
      BY <2>5
    <3>2. /\ loop'.at = "apply" /\ loop'.id = id /\ loop'.next = next
          /\ loop'.ids = loop.ids /\ loop'.lag = loop.lag
      BY <2>1, <3>1, DecideType DEF LoopTyped
    <3>3. \A x \in Auths : Safe(x)'
      BY <1>1, <1>2, <1>3, <2>1, <3>2, SafeMeans DEF Safe, OnItsWay, Remembered, Telling
    <3> QED BY <1>1, <2>1, <3>1, <3>2, <3>3, SafeMeans DEF Unforgotten, Kept, NeverForgotten, Safe, Watched
  <2>6. CASE loop' = [loop EXCEPT !.at = "mark", !.id = id]
    <3>1. loop'.at = "mark" /\ loop'.ids = loop.ids /\ loop'.lag = loop.lag
      BY <2>6 DEF LoopTyped, LoopType, LoopRecords
    <3>2. \A x \in Auths : Safe(x)'
      BY <1>1, <1>2, <1>3, <2>1, <3>1, SafeMeans DEF Safe, OnItsWay, Remembered, Telling
    <3> QED BY <1>4, <3>1, <3>2
  <2> QED BY <2>2, <2>3, <2>4, <2>5, <2>6, NearTimes
<1>14. ASSUME NEW id \in Auths, ConsiderDirty(id)
       PROVE  Unforgotten'
  <2>1. loop.lag \in 0 .. MaxLag /\ UNCHANGED <<auths, heap, dirty>>
    BY <1>14 DEF ConsiderDirty, LoopTyped, LoopType, LoopRecords
  <2>2. NextCheck(auths[id], loop.lag) \in Near \union {Never}
    BY <2>1, NextCheckTime DEF LoopTyped, ClockType
  <2>3. /\ loop'.at = "apply" /\ loop'.id = id /\ loop'.next = NextCheck(auths[id], loop.lag)
        /\ loop'.ids = loop.ids /\ loop'.lag = loop.lag
    BY <1>14, <2>2, DecideType DEF ConsiderDirty, LoopTyped
  <2>4. \A x \in Auths : Safe(x)'
    BY <1>1, <1>2, <1>3, <2>1, <2>3, SafeMeans DEF Safe, OnItsWay, Remembered, Telling
  <2> QED BY <1>1, <2>1, <2>3, <2>4, SafeMeans DEF Unforgotten, Kept, NeverForgotten, Safe, Watched
<1> QED
  BY <1>5, <1>6, <1>7, <1>8, <1>9, <1>10, <1>11, <1>12, <1>13, <1>14 DEF Loop

\* A step that is not the loop's keeps it if whatever it takes or makes watched is
\* unsettled or on its way.
LEMMA OthersKeep ==
  ASSUME LoopTyped, Unforgotten, UNCHANGED loop, dirty \subseteq dirty',
         \A id \in Auths :
           /\ untell'[id] > 0 => id \in unsettled'
           /\ heap[id] # Never => heap'[id] # Never \/ id \in unsettled'
           /\ OnItsWay(id) => OnItsWay(id)'
           /\ \/ id \in unsettled'
              \/ OnItsWay(id)'
              \/ id \notin unsettled /\ (Watched(id)' => Watched(id))
  PROVE  Unforgotten'
<1>1. \A id \in Auths : Safe(id)
  BY SafeMeans DEF Unforgotten
<1>2. ASSUME NEW id \in Auths PROVE Safe(id)'
  <2>1. Remembered(id)' <=> heap'[id] # Never \/ id \in loop'.ids \/ OnItsWay(id)'
    BY DEF Remembered, OnItsWay, Telling
  <2> QED BY <1>1, <2>1, SafeMeans DEF Safe
<1>3. NeverForgotten'
  BY <1>2 DEF NeverForgotten, Safe, Watched
<1>4. Kept'
  <2>1. loop.at \in {"send", "apply"} => loop.id \in Auths
    BY DEF LoopTyped, LoopType
  <2>2. loop'.at = "send" => loop'.id \in dirty'
    BY DEF Unforgotten, Kept
  <2>3. ASSUME NEW id \in Auths, loop.at = "apply", loop.id = id, loop.next = Never,
               id \notin unsettled', Watched(id)'
        PROVE  OnItsWay(id)'
    BY <2>3 DEF Unforgotten, Kept
  <2> QED BY <2>1, <2>2, <2>3 DEF Kept
<1> QED BY <1>3, <1>4 DEF Unforgotten

LEMMA WorkStepKeeps ==
  ASSUME LoopTyped, Unforgotten, NEW w \in Workers, Work(w)
  PROVE  Unforgotten'
<1>1. /\ UNCHANGED <<loop, heap, tell, untell, unsettled>> /\ dirty \subseteq dirty'
      /\ \A id \in Auths : untell[id] > 0 => id \in unsettled
  BY DEF Work, TakeJob, RefreshSucceeds, RefreshFails, RefreshUnauthorized,
         RefreshCancelled, Answered, TellDirty,
         TellWake, Outside, Unforgotten, Kept
<1>2. ASSUME NEW id \in Auths, OnItsWay(id) PROVE OnItsWay(id)'
  <2>1. CASE ~Telling(id)
    BY <1>1, <1>2, <2>1 DEF OnItsWay
  <2>2. CASE Telling(id)
    <3>1. PICK x \in Workers : worker[x].at = "tell" /\ worker[x].id = id
      BY <2>2 DEF Telling
    <3>2. worker'[x] = worker[x] \/ id \in dirty'
      <4>1. CASE x # w
        BY <4>1 DEF LoopTyped, WorkerType, Work, TakeJob, RefreshSucceeds, RefreshFails,
                    RefreshUnauthorized, RefreshCancelled, Answered, TellDirty, TellWake
      <4>2. CASE x = w
        BY <3>1, <4>2 DEF Work, TakeJob, RefreshSucceeds, RefreshFails,
                    RefreshUnauthorized, RefreshCancelled, TellDirty, TellWake
      <4> QED BY <4>1, <4>2
    <3> QED BY <3>1, <3>2 DEF OnItsWay, Telling
  <2> QED BY <2>1, <2>2
<1>3. ASSUME NEW id \in Auths PROVE OnItsWay(id)' \/ auths'[id] = auths[id]
  <2>1. CASE UNCHANGED auths
    BY <2>1
  <2>2. CASE \E token : Answered(w, token)
    <3>1. worker[w].id \in Auths \/ worker[w].at = "idle"
      BY DEF LoopTyped, WorkerType
    <3>2. worker'[w].at = "tell" /\ worker'[w].id = worker[w].id
      BY <2>2 DEF Answered, LoopTyped, WorkerType, WorkerRecords
    <3>3. id # worker[w].id => auths'[id] = auths[id]
      BY <2>2 DEF Answered, LoopTyped, ClockType
    <3> QED BY <3>2, <3>3 DEF OnItsWay, Telling
  <2> QED
    BY <2>1, <2>2 DEF Work, TakeJob, RefreshSucceeds, RefreshFails, RefreshUnauthorized,
                      RefreshCancelled, TellDirty,
                      TellWake
<1>4. ASSUME NEW id \in Auths, auths'[id] = auths[id] PROVE Watched(id)' => Watched(id)
  BY <1>1, <1>4 DEF Watched
<1> QED
  BY <1>1, <1>2, <1>3, <1>4, OthersKeep

LEMMA OutsideStepKeeps ==
  ASSUME LoopTyped, Unforgotten, NEW id \in Auths,
         \/ Calls(id)
         \/ \E due \in Lives \union {Never} : Edit(id, due)
         \/ Remove(id)
         \/ \E unauthorized \in BOOLEAN : Result(id, unauthorized)
  PROVE  Unforgotten'
<1>1. /\ tell \in [Auths -> Nat] /\ untell \in [Auths -> Nat]
      /\ auths \in [Auths -> Tokens \union {NoAuth}] /\ heap \in [Auths -> Near \union {Never}]
      /\ \A x \in Auths : untell[x] > 0 => x \in unsettled
  BY DEF LoopTyped, ClockType, CallType, Unforgotten, Kept
<1>2. ASSUME UNCHANGED worker, NEW x \in Auths PROVE Telling(x)' <=> Telling(x)
  BY <1>2 DEF Telling
<1>3. ASSUME UNCHANGED loop, NEW x \in Auths, auths'[x] = auths[x] PROVE Watched(x)' <=> Watched(x)
  BY <1>3 DEF Watched
<1>4. CASE QueueDirty(id)
  BY <1>1, <1>2, <1>3, <1>4, OthersKeep DEF QueueDirty, Rest, OnItsWay
<1>5. CASE QueueWake(id)
  BY <1>1, <1>2, <1>3, <1>5, OthersKeep DEF QueueWake, Rest, OnItsWay
<1>6. CASE QueueUnschedule(id)
  BY <1>1, <1>2, <1>3, <1>6, OthersKeep DEF QueueUnschedule, Rest, OnItsWay
<1>7. ASSUME NEW due \in Lives \union {Never}, Edit(id, due)
      PROVE  Unforgotten'
  <2>1. /\ UNCHANGED <<loop, heap, dirty, untell, worker>>
        /\ tell' = [tell EXCEPT ![id] = @ + 1]
        /\ unsettled' = IF untell[id] > 0 THEN unsettled ELSE unsettled \ {id}
        /\ \A x \in Auths : x # id => auths'[x] = auths[x]
    BY <1>1, <1>7 DEF Edit, Rest
  <2>2. \A x \in Auths : tell'[x] >= tell[x] /\ tell'[id] > 0 /\ tell[x] \in Nat /\ tell'[x] \in Nat
    BY <1>1, <2>1
  <2>3. OnItsWay(id)'
    BY <2>2 DEF OnItsWay
  <2>4. \A x \in Auths : OnItsWay(x) => OnItsWay(x)'
    BY <1>2, <2>1, <2>2 DEF OnItsWay
  <2>5. \A x \in Auths : x # id => (x \in unsettled <=> x \in unsettled')
    BY <2>1
  <2>6. \A x \in Auths : untell'[x] > 0 => x \in unsettled'
    BY <1>1, <2>1
  <2> QED BY <1>3, <2>1, <2>3, <2>4, <2>5, <2>6, OthersKeep
<1>8. CASE Remove(id)
  <2>1. /\ UNCHANGED <<loop, heap, dirty, tell, worker>>
        /\ unsettled' = unsettled \union {id}
        /\ \A x \in Auths : x # id => auths'[x] = auths[x] /\ untell'[x] = untell[x]
    BY <1>1, <1>8 DEF Remove, Rest
  <2>2. \A x \in Auths : OnItsWay(x) => OnItsWay(x)'
    BY <1>2, <2>1 DEF OnItsWay
  <2> QED BY <1>1, <1>3, <2>1, <2>2, OthersKeep
<1>9. ASSUME NEW unauthorized \in BOOLEAN, Result(id, unauthorized)
      PROVE  Unforgotten'
  <2>1. /\ UNCHANGED <<loop, heap, dirty, tell, untell, worker>>
        /\ auths[id] # NoAuth /\ auths' = [auths EXCEPT ![id].unauth = unauthorized]
        /\ unsettled' = IF auths[id].unauth /\ ~unauthorized THEN unsettled \union {id} ELSE unsettled
    BY <1>9 DEF Result, Rest
  <2>2. \A x \in Auths : OnItsWay(x) => OnItsWay(x)'
    BY <1>2, <2>1 DEF OnItsWay
  <2>3. id \in unsettled' \/ (Watched(id)' => Watched(id))
    <3>1. auths[id] \in Tokens /\ loop.lag \in 0 .. MaxLag
      BY <1>1, <2>1 DEF LoopTyped, LoopType, LoopRecords
    <3>2. auths'[id] = [auths[id] EXCEPT !.unauth = unauthorized]
      BY <1>1, <2>1
    <3>3. /\ auths'[id] \in Tokens /\ auths'[id].unauth = unauthorized
          /\ auths'[id].due = auths[id].due /\ auths'[id].after = auths[id].after
      BY <3>1, <3>2 DEF Tokens
    <3>4. Watched(id)' => /\ ~auths'[id].unauth
                          /\ auths'[id].after > -loop.lag \/ auths'[id].due # Never
      BY <2>1, <3>1, <3>3, NextCheckTime DEF Watched
    <3> QED BY <2>1, <3>3, <3>4, WatchedTokens
  <2>4. \A x \in Auths : x # id => (x \in unsettled <=> x \in unsettled') /\ auths'[x] = auths[x]
    BY <1>1, <2>1
  <2>5. unsettled \subseteq unsettled'
    BY <2>1
  <2> QED BY <1>1, <1>3, <2>1, <2>2, <2>3, <2>4, <2>5, OthersKeep
<1> QED
  BY <1>4, <1>5, <1>6, <1>7, <1>8, <1>9 DEF Calls

\* While time passes in a pass of the loop, its own time stays as it was.
LEMMA TickWatches ==
  ASSUME LoopTyped, Tick, NEW id \in Auths
  PROVE  /\ Watched(id)' => Watched(id)
         /\ heap'[id] # Never <=> heap[id] # Never
<1>1. heap'[id] # Never <=> heap[id] # Never
  BY NearerTimes DEF LoopTyped, ClockType, Tick
<1>2. ASSUME Watched(id)' PROVE Watched(id)
  <2>1. LoopTyped'
    BY TickTyped
  <2>2. /\ auths'[id] # NoAuth /\ ~auths'[id].unauth
        /\ auths'[id].after > -loop'.lag \/ auths'[id].due # Never
        /\ loop'.lag \in 0 .. MaxLag
    <3>1. loop'.lag \in 0 .. MaxLag /\ auths'[id] \in Tokens \union {NoAuth}
      BY <2>1 DEF LoopTyped, ClockType, LoopType, LoopRecords
    <3> QED BY <1>2, <3>1, NextCheckTime DEF Watched
  <2>3. auths[id] # NoAuth
    BY <2>2 DEF Tick
  <2>4. auths[id] \in Tokens
    BY <2>3 DEF LoopTyped, ClockType
  <2>5. /\ auths'[id].due = Nearer(auths[id].due) /\ auths'[id].after = Nearer(auths[id].after)
        /\ auths'[id].unauth = auths[id].unauth
    BY <2>3, <2>4 DEF Tick, Tokens
  <2>6. auths'[id].due # Never <=> auths[id].due # Never
    BY <2>4, <2>5, NearerTimes DEF Tokens
  <2>7. auths'[id].after > -loop'.lag => auths[id].after > -loop.lag
    <3>1. auths[id].after \in Near /\ loop.lag \in 0 .. MaxLag /\ (loop.at = "select" => loop.lag = 0)
      BY <2>4 DEF Tokens, LoopTyped, LoopType, LoopRecords
    <3>2. loop'.lag = IF loop.at = "select" THEN 0 ELSE loop.lag + 1
      BY DEF Tick, LoopTyped, LoopType, LoopRecords
    <3>3. loop'.lag <= loop.lag + 1
      BY <3>1, <3>2
    <3>4. CASE auths[id].after = Past
      <4>1. auths'[id].after = Past
        BY <2>5, <3>4 DEF Nearer
      <4> QED BY <2>2, <4>1, Numbers DEF Past
    <3>5. CASE auths[id].after # Past
      <4>1. auths'[id].after = auths[id].after - 1
        BY <2>5, <3>1, <3>5, NearTimes DEF Nearer
      <4> QED BY <2>2, <3>1, <3>3, <4>1, NearTimes
    <3> QED BY <3>4, <3>5
  <2> QED BY <2>2, <2>3, <2>5, <2>6, <2>7, WatchedTokens
<1> QED BY <1>1, <1>2

LEMMA TickKeeps ==
  ASSUME LoopTyped, Unforgotten, Tick
  PROVE  Unforgotten'
<1>1. /\ UNCHANGED <<dirty, wake, jobs, worker, tell, waking, untell, unsettled, spent>>
      /\ \A id \in Auths : Telling(id)' <=> Telling(id)
  <2>1. UNCHANGED <<dirty, wake, jobs, worker, tell, waking, untell, unsettled, spent>>
    BY DEF Tick, Outside
  <2> QED BY <2>1 DEF Telling
<1>2. /\ loop'.at = loop.at /\ loop'.ids = loop.ids /\ loop'.id = loop.id
      /\ loop'.next = Never => loop.next = Never
      /\ loop.at = "apply" => loop.id \in Auths
  <2>1. loop'.next = Nearer(loop.next) /\ loop.next \in Near \union {Never}
    BY DEF Tick, LoopTyped, LoopType, LoopRecords
  <2> QED BY <2>1, NearerTimes DEF Tick, LoopTyped, LoopType, LoopRecords
<1>3. \A id \in Auths : Safe(id)'
  <2>1. \A id \in Auths : Safe(id)
    BY SafeMeans DEF Unforgotten
  <2> QED BY <1>1, <1>2, <2>1, TickWatches DEF Safe, OnItsWay, Remembered, Telling
<1>4. NeverForgotten'
  BY <1>3 DEF NeverForgotten, Safe, Watched
<1>5. ASSUME NEW id \in Auths, loop.at = "apply", loop.id = id, loop.next = Never,
             id \notin unsettled, Watched(id)'
      PROVE  OnItsWay(id)'
  <2>1. OnItsWay(id)
    BY <1>5, TickWatches DEF Unforgotten, Kept
  <2> QED BY <1>1, <2>1 DEF OnItsWay
<1>6. Kept'
  BY <1>1, <1>2, <1>5 DEF Unforgotten, Kept
<1> QED BY <1>4, <1>6 DEF Unforgotten

LEMMA InitUnforgotten ==
  Init => Unforgotten
<1> SUFFICES ASSUME Init PROVE Unforgotten
  OBVIOUS
<1>1. /\ loop.at = "timer" /\ loop.lag = 0
      /\ \A id \in Auths : heap[id] = NextCheck(auths[id], 0) /\ untell[id] = 0
  BY DEF Init, AtSelect
<1>2. NeverForgotten
  BY <1>1 DEF NeverForgotten, Remembered
<1> QED BY <1>1, <1>2 DEF Unforgotten, Kept

LEMMA NextUnforgotten ==
  LoopTyped /\ Unforgotten /\ [Next]_vars => Unforgotten'
<1> SUFFICES ASSUME LoopTyped, Unforgotten, [Next]_vars PROVE Unforgotten'
  OBVIOUS
<1>1. CASE UNCHANGED vars
  BY <1>1 DEF vars, Unforgotten, Kept, NeverForgotten, Remembered, OnItsWay, Telling, Watched
<1>2. CASE Loop
  BY <1>2, LoopStepTyped, LoopStepKeeps
<1> QED
  BY <1>1, <1>2, WorkStepKeeps, OutsideStepKeeps, TickKeeps DEF Next

\* Whatever the order of the writers, the workers and the loop, a credential that
\* has to be checked some time stays in the heap, in the dirty set, in the loop's
\* hands or in those of a caller, but for the two events nobody tells the loop of.
THEOREM NothingForgotten == Spec => []NeverForgotten
<1>1. Init => LoopTyped /\ Unforgotten
  BY InitTyped, InitUnforgotten
<1>2. LoopTyped /\ Unforgotten /\ [Next]_vars => (LoopTyped /\ Unforgotten)'
  BY NextTyped, NextUnforgotten
<1>3. Unforgotten => NeverForgotten
  BY DEF Unforgotten
<1> QED
  BY <1>1, <1>2, <1>3, PTL DEF Spec

-----------------------------------------------------------------------------
(* The sleeping loop will be woken.                                        *)

\* A token is in the channel, or whoever has made a credential dirty brings one.
WakeComes ==
  \/ wake
  \/ \E id \in Auths : waking[id] > 0
  \/ \E w \in Workers : worker[w].at = "wake"

\* Only between taking the token and draining the set is the loop without one.
Awake == loop.at # "drain" /\ dirty # {} => WakeComes

TimerIsSet ==
  loop.at = "select" =>
    \A id \in Auths : heap[id] # Never => timer # Never /\ timer <= Later(heap[id] + MaxLag, 0)

\* The loop's own steps: it takes the token only to drain the set next, and sets
\* the timer before it sleeps.
LEMMA LoopStepSleeps ==
  ASSUME LoopTyped, Awake, TimerIsSet, Loop
  PROVE  Awake' /\ TimerIsSet'
<1>1. ASSUME loop'.at # "select" PROVE TimerIsSet'
  BY <1>1 DEF TimerIsSet
<1>2. ASSUME UNCHANGED <<dirty, wake, waking, worker>>, loop.at # "drain" PROVE Awake'
  BY <1>2 DEF Awake, WakeComes
<1>3. CASE Wakeup
  <2>1. loop'.at = "drain"
    BY <1>3, SelectType DEF Wakeup, AtSelect
  <2> QED BY <1>1, <2>1 DEF Awake
<1>4. CASE PopDue
  <2>1. loop.at = "select" /\ loop'.at \in {"drain", "due"} /\ UNCHANGED <<dirty, wake, waking, worker>>
    BY <1>4, SelectType DEF PopDue, AtSelect, Outside
  <2> QED BY <1>1, <1>2, <2>1
<1>5. CASE MarkPending
  <2>1. /\ loop.at = "mark" /\ loop'.at \in {"send", "reread"} /\ UNCHANGED <<waking, worker>>
        /\ wake' \/ UNCHANGED <<dirty, wake>>
    BY <1>5 DEF MarkPending, LoopTyped, LoopType, LoopRecords, Outside
  <2>2. Awake'
    BY <1>2, <2>1 DEF Awake, WakeComes
  <2> QED BY <1>1, <2>1, <2>2
<1>6. CASE Reread \/ \E id \in Auths : ConsiderDirty(id)
  <2>1. /\ loop.at # "drain" /\ loop'.at = "apply" /\ UNCHANGED <<dirty, wake, waking, worker>>
    BY <1>6 DEF Reread, ConsiderDirty, Decide, LoopTyped, LoopType, LoopRecords, Outside
  <2> QED BY <1>1, <1>2, <2>1
<1>7. CASE SendJob \/ Apply
  <2>1. /\ loop.at # "drain" /\ UNCHANGED <<dirty, wake, waking, worker>>
        /\ loop.pass \in {"due", "dirty"} /\ loop.ids \ {loop.id} \in SUBSET Auths
        /\ loop' = Proceed(loop.ids \ {loop.id})
    BY <1>7 DEF SendJob, Apply, LoopTyped, LoopType, LoopRecords, Outside
  <2>2. loop'.at # "select"
    BY <2>1, ProceedType DEF LoopTyped
  <2> QED BY <1>1, <1>2, <2>1, <2>2
<1>8. CASE DrainDirty
  <2>1. loop'.at \in {"timer", "dirty"} /\ dirty' = {}
    BY <1>8 DEF DrainDirty, LoopTyped, LoopType, LoopRecords
  <2> QED BY <1>1, <2>1 DEF Awake
<1>9. CASE ResetTimer
  <2>1. loop.at = "timer" /\ UNCHANGED <<heap, dirty, wake, waking, worker>>
    BY <1>9 DEF ResetTimer, Outside
  <2>2. TimerIsSet'
    BY <1>9, <2>1, TimerOfHeap DEF TimerIsSet
  <2> QED BY <1>2, <2>1, <2>2
<1>10. ASSUME NEW id \in Auths, ConsiderDue(id)
       PROVE  Awake' /\ TimerIsSet'
  <2>1. /\ loop.at = "due" /\ loop.pass = "due" /\ loop.ids \ {id} \in SUBSET Auths
        /\ UNCHANGED <<dirty, wake, waking, worker>>
    BY <1>10 DEF ConsiderDue, LoopTyped, LoopType, LoopRecords, Outside
  <2>2. loop'.at # "select"
    <3>1. CASE loop' = Proceed(loop.ids \ {id})
      BY <2>1, <3>1, ProceedType DEF LoopTyped
    <3>2. CASE \E next : loop' = Decide(id, next)
      BY <3>2 DEF Decide, LoopTyped, LoopType, LoopRecords
    <3>3. CASE loop' = [loop EXCEPT !.at = "mark", !.id = id]
      BY <3>3 DEF LoopTyped, LoopType, LoopRecords
    <3> QED BY <1>10, <3>1, <3>2, <3>3 DEF ConsiderDue
  <2> QED BY <1>1, <1>2, <2>1, <2>2
<1> QED
  BY <1>3, <1>4, <1>5, <1>6, <1>7, <1>8, <1>9, <1>10 DEF Loop

\* Who makes a credential dirty brings a token afterwards, and who brings one leaves
\* it in the channel.
LEMMA WorkStepSleeps ==
  ASSUME LoopTyped, Awake, TimerIsSet, NEW w \in Workers, Work(w)
  PROVE  Awake' /\ TimerIsSet'
<1>1. UNCHANGED <<loop, heap, timer, waking>>
  BY DEF Work, TakeJob, RefreshSucceeds, RefreshFails, RefreshUnauthorized,
         RefreshCancelled, Answered, TellDirty,
         TellWake, Outside
<1>2. \A x \in Workers : x # w => worker'[x] = worker[x]
  BY DEF Work, TakeJob, RefreshSucceeds, RefreshFails, RefreshUnauthorized,
         RefreshCancelled, Answered, TellDirty,
         TellWake, LoopTyped, WorkerType
<1>3. TimerIsSet'
  BY <1>1 DEF TimerIsSet
<1>4. CASE TellWake(w)
  BY <1>3, <1>4 DEF TellWake, Awake, WakeComes
<1>5. CASE TellDirty(w)
  <2>1. worker'[w].at = "wake"
    BY <1>5 DEF TellDirty, LoopTyped, WorkerType, WorkerRecords
  <2> QED BY <1>3, <2>1 DEF Awake, WakeComes
<1>6. CASE ~TellWake(w) /\ ~TellDirty(w)
  <2>1. UNCHANGED <<dirty, wake>> /\ worker[w].at \in {"idle", "provider"}
    BY <1>6 DEF Work, TakeJob, RefreshSucceeds, RefreshFails, RefreshUnauthorized,
                RefreshCancelled, Answered, Outside
  <2> QED BY <1>1, <1>2, <1>3, <2>1 DEF Awake, WakeComes
<1> QED BY <1>3, <1>4, <1>5, <1>6

LEMMA OutsideStepSleeps ==
  ASSUME LoopTyped, Awake, TimerIsSet, NEW id \in Auths,
         \/ Calls(id)
         \/ \E due \in Lives \union {Never} : Edit(id, due)
         \/ Remove(id)
         \/ \E unauthorized \in BOOLEAN : Result(id, unauthorized)
  PROVE  Awake' /\ TimerIsSet'
<1>1. waking \in [Auths -> Nat] /\ heap \in [Auths -> Near \union {Never}]
  BY DEF LoopTyped, ClockType, CallType
<1>2. CASE QueueDirty(id)
  <2>1. waking'[id] = waking[id] + 1 /\ waking[id] \in Nat /\ UNCHANGED <<loop, heap, timer>>
    BY <1>1, <1>2 DEF QueueDirty, Rest
  <2>2. waking'[id] > 0
    BY <2>1
  <2> QED BY <2>1, <2>2 DEF Awake, WakeComes, TimerIsSet
<1>3. CASE QueueWake(id)
  BY <1>3 DEF QueueWake, Rest, Awake, WakeComes, TimerIsSet
<1>4. CASE QueueUnschedule(id)
  <2>1. /\ UNCHANGED <<loop, timer, dirty, wake, waking, worker>>
        /\ \A x \in Auths : heap'[x] # Never => heap'[x] = heap[x]
    BY <1>1, <1>4 DEF QueueUnschedule
  <2> QED BY <2>1 DEF Awake, WakeComes, TimerIsSet
<1>5. CASE UNCHANGED <<loop, heap, timer, dirty, wake, waking, worker>>
  BY <1>5 DEF Awake, WakeComes, TimerIsSet
<1>6. (\E due \in Lives \union {Never} : Edit(id, due)) \/ Remove(id)
        \/ (\E unauthorized \in BOOLEAN : Result(id, unauthorized))
      => UNCHANGED <<loop, heap, timer, dirty, wake, waking, worker>>
  BY DEF Edit, Remove, Result, Rest
<1> QED BY <1>2, <1>3, <1>4, <1>5, <1>6 DEF Calls

LEMMA TickSleeps ==
  ASSUME LoopTyped, Awake, TimerIsSet, Tick
  PROVE  Awake' /\ TimerIsSet'
<1>1. UNCHANGED <<dirty, wake, waking, worker>> /\ loop'.at = loop.at
  BY DEF Tick, Outside, LoopTyped, LoopType, LoopRecords
<1>2. ASSUME loop.at = "select", NEW id \in Auths, heap'[id] # Never
      PROVE  timer' # Never /\ timer' <= Later(heap'[id] + MaxLag, 0)
  <2>1. heap[id] \in Near /\ heap'[id] = Nearer(heap[id])
    BY <1>2, NearerTimes DEF Tick, LoopTyped, ClockType
  <2>2. timer \in Times /\ timer <= Later(heap[id] + MaxLag, 0) /\ timer' = Nearer(timer)
    BY <1>2, <2>1, NearTimes DEF Tick, LoopTyped, ClockType, TimerIsSet
  <2>3. timer' # Never /\ timer' \in Times
    BY <2>2, NearerTimes, Numbers DEF Times, Never, Past
  <2>4. timer' <= 0 \/ timer' = timer - 1
    BY <2>2, Numbers DEF Nearer, Times, Never, Past
  <2>5. heap'[id] = heap[id] - 1 \/ (heap[id] = Past /\ heap'[id] = Past)
    BY <2>1, NearTimes DEF Nearer
  <2>6. CASE heap'[id] = heap[id] - 1
    BY <2>1, <2>2, <2>3, <2>4, <2>6, Numbers, NearTimes DEF Later, Times
  <2>7. CASE heap[id] = Past /\ heap'[id] = Past
    BY <2>1, <2>2, <2>3, <2>4, <2>7, Numbers, NearTimes DEF Later, Times, Past
  <2> QED BY <2>3, <2>5, <2>6, <2>7
<1>3. TimerIsSet'
  BY <1>1, <1>2 DEF TimerIsSet
<1> QED BY <1>1, <1>3 DEF Awake, WakeComes

LEMMA NextSleeps ==
  LoopTyped /\ Awake /\ TimerIsSet /\ [Next]_vars => Awake' /\ TimerIsSet'
<1> SUFFICES ASSUME LoopTyped, Awake, TimerIsSet, [Next]_vars PROVE Awake' /\ TimerIsSet'
  OBVIOUS
<1>1. CASE UNCHANGED vars
  BY <1>1 DEF vars, Awake, WakeComes, TimerIsSet
<1> QED
  BY <1>1, LoopStepSleeps, WorkStepSleeps, OutsideStepSleeps, TickSleeps DEF Next

\* While the loop sleeps, a changed credential will wake it through the channel and
\* a due one through the timer, which is late by one pass of the loop at most.
THEOREM LoopSleepsLightly == Spec => []SleepsLightly
<1>1. Init => Awake /\ TimerIsSet
  BY DEF Init, AtSelect, Awake, TimerIsSet
<1>2. Awake /\ TimerIsSet => SleepsLightly
  BY DEF Awake, TimerIsSet, SleepsLightly, WakeComes
<1> QED
  BY <1>1, <1>2, InitTyped, NextTyped, NextSleeps, PTL DEF Spec

-----------------------------------------------------------------------------
(* A credential is not marked twice at one instant.                        *)

\* A refresh cannot be due now, nor at any earlier instant the loop may take for now.
Throttled(id) ==
  auths[id] = NoAuth \/ auths[id].unauth \/ auths[id].after > 0 \/ auths[id].due > 0

HandedOnce ==
  \A id \in handed : Throttled(id) /\ ~(loop.at = "mark" /\ loop.id = id)

\* A mark that counts puts the credential's next refresh off to after this instant.
LEMMA MarkThrottles ==
  ASSUME LoopTyped, HandedOnce, MarkPending
  PROVE  HandedOnce'
<1>1. /\ loop.at = "mark" /\ loop.id \in Auths /\ loop.lag \in 0 .. MaxLag
      /\ loop'.at \in {"send", "reread"}
  BY DEF MarkPending, LoopTyped, LoopType, LoopRecords
<1>2. ASSUME NEW id \in handed' PROVE Throttled(id)'
  <2>1. CASE id # loop.id
    <3>1. id \in handed /\ id \in Auths /\ auths'[id] = auths[id]
      BY <1>2, <2>1 DEF MarkPending, LoopTyped, ClockType, CallType
    <3> QED BY <3>1 DEF HandedOnce, Throttled
  <2>2. CASE id = loop.id
    <3>1. id \notin handed
      BY <1>1, <2>2 DEF HandedOnce
    <3>2. /\ auths[id] # NoAuth /\ loop.lag < Pending
          /\ auths' = [auths EXCEPT ![id].after = Pending - loop.lag]
      BY <1>2, <2>2, <3>1 DEF MarkPending
    <3>3. auths[id] \in Tokens
      BY <1>1, <2>2, <3>2 DEF LoopTyped, ClockType
    <3>4. auths'[id].after = Pending - loop.lag
      BY <1>1, <2>2, <3>2, <3>3 DEF LoopTyped, ClockType, Tokens
    <3> QED BY <1>1, <3>2, <3>4, Numbers DEF Throttled
  <2> QED BY <2>1, <2>2
<1> QED BY <1>1, <1>2 DEF HandedOnce

\* A throttled credential is not taken for due.
LEMMA ThrottledIsNotDue ==
  ASSUME LoopTyped, NEW id \in Auths, Throttled(id), NEW time \in {-loop.lag, 0},
         auths[id] # NoAuth
  PROVE  ~ShouldRefresh(auths[id], loop.lag, time)
<1>1. auths[id] \in Tokens /\ loop.lag \in 0 .. MaxLag
  BY DEF LoopTyped, ClockType, LoopType, LoopRecords
<1>2. /\ auths[id].after \in Near /\ auths[id].due \in Near \union {Never}
  BY <1>1 DEF Tokens
<1>3. time \in Int /\ time <= 0 /\ -loop.lag <= 0 /\ -loop.lag \in Int
  BY <1>1, Numbers
<1>4. auths[id].after \in Int /\ auths[id].due \in Int
  BY <1>2, NearTimes
<1>5. auths[id].after > 0 => ~(auths[id].after <= -loop.lag)
  BY <1>3, <1>4
<1>6. auths[id].due > 0 => ~(auths[id].due <= time)
  BY <1>3, <1>4
<1> QED BY <1>5, <1>6, Zenon DEF Throttled, ShouldRefresh

LEMMA LoopStepThrottles ==
  ASSUME LoopTyped, HandedOnce, Loop
  PROVE  HandedOnce'
<1>1. handed \subseteq Auths
  BY DEF LoopTyped, CallType
<1>2. CASE MarkPending
  BY <1>2, MarkThrottles
<1>3. ASSUME NEW id \in Auths, ConsiderDue(id)
      PROVE  HandedOnce'
  <2>1. UNCHANGED <<auths, handed>>
    BY <1>3 DEF ConsiderDue
  <2>2. loop'.at = "mark" => id \notin handed /\ loop'.id = id
    <3>1. PICK time \in {-loop.lag, 0} :
            loop'.at = "mark" => /\ loop'.id = id /\ auths[id] # NoAuth
                                 /\ ShouldRefresh(auths[id], loop.lag, time)
      <4>1. /\ loop.at = "due" /\ loop.pass = "due" /\ loop.ids \ {id} \in SUBSET Auths
        BY <1>3 DEF ConsiderDue, LoopTyped, LoopType, LoopRecords
      <4>2. \A next : Decide(id, next).at = "apply"
        BY DEF Decide, LoopTyped, LoopType, LoopRecords
      <4>3. Proceed(loop.ids \ {id}).at # "mark"
        BY <4>1, ProceedType DEF LoopTyped
      <4>4. [loop EXCEPT !.at = "mark", !.id = id].id = id
        BY DEF LoopTyped, LoopType, LoopRecords
      <4> QED BY <1>3, <4>2, <4>3, <4>4, Zenon DEF ConsiderDue
    <3> QED BY <3>1, ThrottledIsNotDue DEF HandedOnce
  <2>3. \A x \in handed' : Throttled(x)'
    BY <2>1 DEF HandedOnce, Throttled
  <2> QED BY <2>1, <2>2, <2>3 DEF HandedOnce
<1>4. ASSUME UNCHANGED <<auths, handed>>, loop'.at # "mark"
      PROVE  HandedOnce'
  BY <1>4 DEF HandedOnce, Throttled
<1>5. CASE Wakeup \/ PopDue \/ DrainDirty \/ ResetTimer
  <2>1. UNCHANGED <<auths, handed>> /\ loop'.at # "mark"
    BY <1>5, SelectType
    DEF Wakeup, PopDue, DrainDirty, ResetTimer, AtSelect, LoopTyped, LoopType, LoopRecords
  <2> QED BY <1>4, <2>1
<1>6. CASE Reread \/ \E id \in Auths : ConsiderDirty(id)
  <2>1. UNCHANGED <<auths, handed>> /\ loop'.at # "mark"
    BY <1>6 DEF Reread, ConsiderDirty, Decide, LoopTyped, LoopType, LoopRecords
  <2> QED BY <1>4, <2>1
<1>7. CASE SendJob \/ Apply
  <2>1. /\ UNCHANGED <<auths, handed>>
        /\ loop.pass \in {"due", "dirty"} /\ loop.ids \ {loop.id} \in SUBSET Auths
        /\ loop' = Proceed(loop.ids \ {loop.id})
    BY <1>7 DEF SendJob, Apply, LoopTyped, LoopType, LoopRecords
  <2>2. loop'.at # "mark"
    BY <2>1, ProceedType DEF LoopTyped
  <2> QED BY <1>4, <2>1, <2>2
<1> QED BY <1>2, <1>3, <1>5, <1>6, <1>7 DEF Loop

\* Whatever the provider answers, the credential is not due at once.
LEMMA AnswersThrottle ==
  ASSUME LoopTyped, HandedOnce, NEW w \in Workers, Work(w)
  PROVE  HandedOnce'
<1>1. UNCHANGED <<loop, handed>>
  BY DEF Work, TakeJob, RefreshSucceeds, RefreshFails, RefreshUnauthorized,
         RefreshCancelled, Answered, TellDirty,
         TellWake
<1>2. ASSUME UNCHANGED auths PROVE HandedOnce'
  BY <1>1, <1>2 DEF HandedOnce, Throttled
<1>3. ASSUME NEW token, Answered(w, token), worker[w].at = "provider",
             auths[worker[w].id] # NoAuth => token.unauth \/ token.after > 0 \/ token.due > 0
      PROVE  HandedOnce'
  <2>1. worker[w].id \in Auths
    BY <1>3 DEF LoopTyped, WorkerType
  <2>2. ASSUME NEW id \in handed PROVE Throttled(id)'
    <3>1. id \in Auths /\ Throttled(id)
      BY <2>2 DEF LoopTyped, CallType, HandedOnce
    <3>2. CASE auths'[id] = auths[id]
      BY <3>1, <3>2 DEF Throttled
    <3>3. CASE auths'[id] # auths[id]
      <4>1. id = worker[w].id /\ auths[id] # NoAuth /\ auths'[id] = token
        BY <1>3, <2>1, <3>1, <3>3 DEF Answered, LoopTyped, ClockType
      <4> QED BY <1>3, <4>1 DEF Throttled
    <3> QED BY <3>2, <3>3
  <2> QED BY <1>1, <2>2 DEF HandedOnce
<1>4. ASSUME NEW due \in Lives, RefreshSucceeds(w, due) PROVE HandedOnce'
  <2>1. due \in Int /\ (AfterAnswer(due) > 0 \/ due > 0)
    BY Numbers DEF AfterAnswer
  <2> QED BY <1>3, <1>4, <2>1 DEF RefreshSucceeds
<1>5. CASE RefreshFails(w)
  <2> DEFINE a == auths[worker[w].id]
             token == IF a = NoAuth THEN NoAuth ELSE [a EXCEPT !.after = Failure, !.unauth = FALSE]
  <2>1. worker[w].at = "provider" /\ Answered(w, token)
    BY <1>5 DEF RefreshFails
  <2>2. a # NoAuth => a \in Tokens
    BY <2>1 DEF LoopTyped, ClockType, WorkerType
  <2>3. a # NoAuth => token.after = Failure
    BY <2>2 DEF Tokens
  <2> HIDE DEF token
  <2> QED BY <1>3, <2>1, <2>3, Numbers
<1>6. CASE RefreshUnauthorized(w)
  <2> DEFINE a == auths[worker[w].id]
             token == IF a = NoAuth THEN NoAuth ELSE [a EXCEPT !.after = Past, !.unauth = TRUE]
  <2>1. worker[w].at = "provider" /\ Answered(w, token)
    BY <1>6 DEF RefreshUnauthorized
  <2>2. a # NoAuth => a \in Tokens
    BY <2>1 DEF LoopTyped, ClockType, WorkerType
  <2>3. a # NoAuth => token.unauth = TRUE
    BY <2>2 DEF Tokens
  <2> HIDE DEF token
  <2> QED BY <1>3, <2>1, <2>3
<1> QED
  BY <1>2, <1>4, <1>5, <1>6 DEF Work, TakeJob, RefreshCancelled, TellDirty, TellWake

LEMMA OutsideStepThrottles ==
  ASSUME LoopTyped, HandedOnce, NEW id \in Auths,
         \/ Calls(id)
         \/ \E due \in Lives \union {Never} : Edit(id, due)
         \/ Remove(id)
         \/ \E unauthorized \in BOOLEAN : Result(id, unauthorized)
  PROVE  HandedOnce'
<1>1. /\ UNCHANGED loop
      /\ handed' \subseteq handed
      /\ \A x \in handed' : auths'[x] = auths[x]
  BY DEF Calls, QueueDirty, QueueWake, QueueUnschedule, Edit, Remove, Result, Rest, LoopTyped,
         ClockType, CallType
<1> QED BY <1>1 DEF HandedOnce, Throttled

LEMMA NextThrottles ==
  LoopTyped /\ HandedOnce /\ [Next]_vars => HandedOnce'
<1> SUFFICES ASSUME LoopTyped, HandedOnce, [Next]_vars PROVE HandedOnce'
  OBVIOUS
<1>1. CASE UNCHANGED vars
  BY <1>1 DEF vars, HandedOnce, Throttled
<1>2. CASE Tick
  BY <1>2 DEF Tick, HandedOnce
<1> QED
  BY <1>1, <1>2, LoopStepThrottles, AnswersThrottle, OutsideStepThrottles DEF Next

\* Whatever the provider answers and however long a pass takes, at one instant a
\* credential is marked for a worker at most once, unless an edit, a removal or a
\* result touched it in between or the mark's reading of the time was too old for it.
THEOREM LoopIsNotTight == Spec => NoTightLoop
<1>1. Init => LoopTyped /\ HandedOnce
  BY InitTyped DEF Init, HandedOnce
<1>2. LoopTyped /\ HandedOnce /\ [Next]_vars => (LoopTyped /\ HandedOnce)'
  BY NextTyped, NextThrottles
<1>3. HandedOnce /\ [Next]_vars
        => [\A id \in handed : ~(loop.at = "mark" /\ loop.id = id /\ loop'.at = "send")]_vars
  BY DEF HandedOnce
<1> QED
  BY <1>1, <1>2, <1>3, PTL DEF Spec, NoTightLoop
=============================================================================
