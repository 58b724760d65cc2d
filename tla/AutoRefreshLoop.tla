--------------------------- MODULE AutoRefreshLoop --------------------------
(***************************************************************************)
(* The background loop that refreshes tokens before they expire            *)
(* (sdk/cliproxy/auth/auto_refresh_loop.go, with the parts of conductor.go *)
(* it calls).                                                              *)
(*                                                                         *)
(* One goroutine owns a min-heap of (credential, time of its next check).  *)
(* Others tell it of a changed credential by adding the id to a dirty set  *)
(* and dropping a token into a channel of capacity one.  Due credentials   *)
(* go to workers through a bounded channel; a worker asks the provider for *)
(* a new token and writes the answer into the manager.                     *)
(*                                                                         *)
(* Time is relative: every instant is its distance from now, so that time  *)
(* can pass for ever.  Distances below -MaxLag are all equally past.  The  *)
(* loop takes the time once per pass and goes on using it: loop.lag is how *)
(* old that reading is.                                                    *)
(***************************************************************************)
EXTENDS Integers, Sequences

CONSTANTS
  Auths,        \* credential ids
  Workers,
  Executors,    \* the credentials whose provider has an executor
  Operations,   \* what goes on outside the loop, subset of AllOperations
  Lives,        \* when a token the provider answers with needs a refresh
  JobCap,       \* capacity of the channel to the workers
  Pending,      \* refreshPendingBackoff
  Failure,      \* refreshFailureBackoff
  Ineffective,  \* refreshIneffectiveBackoff
  Interval,     \* l.interval
  MaxAhead,     \* bound: furthest instant
  MaxLag,       \* bound: how long a pass of the loop may take
  MaxCalls,     \* bound: concurrent writers of one credential
  MaxOperations, \* bound: operations from outside, which come to an end (see Cost)
  NoAuth        \* nil

AllOperations == {"edit", "remove", "results"}

ASSUME LoopAssumption ==
  /\ Executors \subseteq Auths
  /\ Operations \subseteq AllOperations
  /\ MaxLag \in Nat /\ JobCap \in Nat \ {0} /\ MaxCalls \in Nat \ {0}
  /\ MaxOperations \in Nat
  /\ MaxAhead \in Nat
  /\ {Pending, Failure, Ineffective, Interval} \subseteq 1 .. MaxAhead
  /\ Lives \subseteq 0 .. MaxAhead

Past == -MaxLag                \* also the zero time
Never == MaxAhead + MaxLag + 1 \* no such instant
Times == Past .. (MaxAhead + MaxLag)

VARIABLES
  auths,   \* m.auths: when a refresh is needed, not before when, and whether
           \* the last error is a 401
  heap,    \* l.queue and l.index: when to check a credential, Never if absent
  dirty,   \* l.dirty
  wake,    \* l.wakeCh holds a token
  timer,   \* when the timer fires, Never if it is off
  loop,    \* the loop's goroutine
  jobs,    \* l.jobs
  worker,  \* the workers' goroutines
  tell,    \* calls of queueRefreshReschedule by others that are still to come
  waking,  \* those of them that are in l.dirty and have not touched l.wakeCh
  untell,  \* calls of queueRefreshUnschedule still to come
  handed,  \* history: credentials marked for a worker at this instant by a pass
           \* younger than refreshPendingBackoff, not touched from outside since
  unsettled, \* history: credentials that nobody has told the loop of since a
             \* result cleared their 401 or a removal took them
  spent    \* cost of the operations from outside so far

vars == <<auths, heap, dirty, wake, timer, loop, jobs, worker, tell, waking, untell,
          handed, unsettled, spent>>

Token == [due : Times \union {Never}, after : Times, unauth : BOOLEAN]

-----------------------------------------------------------------------------

Later(s, t) == IF s > t THEN s ELSE t
Earliest(S) == CHOOSE s \in S : \A t \in S : s <= t

\* nextRefreshCheckAt for a time that was read `lag` ago.
NextCheck(a, lag) ==
  IF a = NoAuth THEN Never
  ELSE IF a.unauth THEN Never
  ELSE IF a.after > -lag THEN a.after
  ELSE IF a.due = Never THEN Never
  ELSE Later(a.due, -lag)

\* shouldRefresh.  A token with an expiry is compared with the time as it is
\* now, any other with the time the loop read.
ShouldRefresh(a, lag, time) ==
  a.due # Never /\ ~a.unauth /\ a.after <= -lag /\ a.due <= time

\* Mutant of AfterAnswer: an answer that leaves the token due is not throttled.
AfterAnswerUnthrottled(due) == Past

\* NextRefreshAfter after a successful answer.
AfterAnswer(due) == IF due <= 0 THEN Ineffective ELSE Past

-----------------------------------------------------------------------------
(* The loop.                                                               *)

AtSelect == [at |-> "select", pass |-> "none", lag |-> 0, ids |-> {}, id |-> NoAuth, next |-> Never]

\* One credential of the pass is dealt with: the next one, or the next stage.
Proceed(ids) ==
  [loop EXCEPT !.ids = ids, !.id = NoAuth, !.next = Never,
               !.at = IF ids # {} THEN loop.pass
                      ELSE IF loop.pass = "due" THEN "drain" ELSE "timer"]

\* What was decided of a credential is applied to the heap in a step of its own.
Decide(id, next) == [loop EXCEPT !.at = "apply", !.id = id, !.next = next]

Outside == <<tell, waking, untell, unsettled, spent>>

Wakeup ==
  /\ loop.at = "select" /\ wake
  /\ wake' = FALSE
  /\ loop' = [AtSelect EXCEPT !.at = "drain"]
  /\ UNCHANGED <<auths, heap, dirty, timer, jobs, worker, Outside, handed>>

\* The timer fires: popDue.
PopDue ==
  /\ loop.at = "select" /\ timer # Never /\ timer <= 0
  /\ LET due == {id \in Auths : heap[id] <= 0} IN
     /\ heap' = [id \in Auths |-> IF id \in due THEN Never ELSE heap[id]]
     /\ loop' = [AtSelect EXCEPT !.ids = due, !.pass = "due",
                                 !.at = IF due = {} THEN "drain" ELSE "due"]
  /\ timer' = Never
  /\ UNCHANGED <<auths, dirty, wake, jobs, worker, Outside, handed>>

\* handleDueAuth up to its first unlock.
ConsiderDue(id) ==
  /\ loop.at = "due" /\ id \in loop.ids
  /\ \E time \in {-loop.lag, 0} :
       LET a == auths[id]
           next == NextCheck(a, loop.lag)
       IN loop' = IF a = NoAuth THEN Proceed(loop.ids \ {id})
                  ELSE IF next = Never \/ ~ShouldRefresh(a, loop.lag, time) THEN Decide(id, next)
                  ELSE IF id \notin Executors THEN Decide(id, Interval - loop.lag)
                  ELSE [loop EXCEPT !.at = "mark", !.id = id]
  /\ UNCHANGED <<auths, heap, dirty, wake, timer, jobs, worker, Outside, handed>>

\* Mutant of MarkPending: the loop is not told of the pending refresh.
MarkPendingOnly ==
  /\ loop.at = "mark"
  /\ LET a == auths[loop.id] IN
     IF a # NoAuth /\ a.after <= -loop.lag
     THEN /\ auths' = [auths EXCEPT ![loop.id].after = Pending - loop.lag]
          /\ loop' = [loop EXCEPT !.at = "send"]
          /\ handed' = IF loop.lag < Pending THEN handed \union {loop.id} ELSE handed
     ELSE /\ loop' = [loop EXCEPT !.at = "reread"]
          /\ UNCHANGED <<auths, handed>>
  /\ UNCHANGED <<heap, dirty, wake, timer, jobs, worker, Outside>>

\* markRefreshPending, with the loop's call to itself.
MarkPending ==
  /\ loop.at = "mark"
  /\ LET a == auths[loop.id] IN
     IF a # NoAuth /\ a.after <= -loop.lag
     THEN /\ auths' = [auths EXCEPT ![loop.id].after = Pending - loop.lag]
          /\ dirty' = dirty \union {loop.id}
          /\ wake' = TRUE
          /\ loop' = [loop EXCEPT !.at = "send"]
          /\ handed' = IF loop.lag < Pending THEN handed \union {loop.id} ELSE handed
     ELSE /\ loop' = [loop EXCEPT !.at = "reread"]
          /\ UNCHANGED <<auths, dirty, wake, handed>>
  /\ UNCHANGED <<heap, timer, jobs, worker, Outside>>

Reread ==
  /\ loop.at = "reread"
  /\ loop' = Decide(loop.id, NextCheck(auths[loop.id], loop.lag))
  /\ UNCHANGED <<auths, heap, dirty, wake, timer, jobs, worker, Outside, handed>>

\* Mutant of SendJob: it does not wait for room.
SendJobUnbounded ==
  /\ loop.at = "send"
  /\ jobs' = Append(jobs, loop.id)
  /\ loop' = Proceed(loop.ids \ {loop.id})
  /\ UNCHANGED <<auths, heap, dirty, wake, timer, worker, Outside, handed>>

\* The channel to the workers blocks when it is full.
SendJob ==
  /\ loop.at = "send" /\ Len(jobs) < JobCap
  /\ jobs' = Append(jobs, loop.id)
  /\ loop' = Proceed(loop.ids \ {loop.id})
  /\ UNCHANGED <<auths, heap, dirty, wake, timer, worker, Outside, handed>>

DrainDirty ==
  /\ loop.at = "drain"
  /\ dirty' = {}
  /\ loop' = [loop EXCEPT !.ids = dirty, !.pass = "dirty",
                          !.at = IF dirty = {} THEN "timer" ELSE "dirty"]
  /\ UNCHANGED <<auths, heap, wake, timer, jobs, worker, Outside, handed>>

ConsiderDirty(id) ==
  /\ loop.at = "dirty" /\ id \in loop.ids
  /\ loop' = Decide(id, NextCheck(auths[id], loop.lag))
  /\ UNCHANGED <<auths, heap, dirty, wake, timer, jobs, worker, Outside, handed>>

\* upsert, or remove when there is nothing to check.
Apply ==
  /\ loop.at = "apply"
  /\ heap' = [heap EXCEPT ![loop.id] = loop.next]
  /\ loop' = Proceed(loop.ids \ {loop.id})
  /\ UNCHANGED <<auths, dirty, wake, timer, jobs, worker, Outside, handed>>

\* Mutant of ResetTimer: a timer that is running is left alone.
ResetTimerIfOff ==
  /\ loop.at = "timer"
  /\ LET next == Earliest({heap[id] : id \in Auths} \union {Never}) IN
     timer' = IF timer # Never THEN timer ELSE IF next = Never THEN Never ELSE Later(next + loop.lag, 0)
  /\ loop' = AtSelect
  /\ UNCHANGED <<auths, heap, dirty, wake, jobs, worker, Outside, handed>>

\* The wait is counted from the time the loop read, and starts now.
ResetTimer ==
  /\ loop.at = "timer"
  /\ LET next == Earliest({heap[id] : id \in Auths} \union {Never}) IN
     timer' = IF next = Never THEN Never ELSE Later(next + loop.lag, 0)
  /\ loop' = AtSelect
  /\ UNCHANGED <<auths, heap, dirty, wake, jobs, worker, Outside, handed>>

Loop ==
  \/ Wakeup \/ PopDue \/ MarkPending \/ Reread \/ SendJob \/ DrainDirty \/ Apply \/ ResetTimer
  \/ \E id \in Auths : ConsiderDue(id) \/ ConsiderDirty(id)

-----------------------------------------------------------------------------
(* The workers.                                                            *)

Resting == [at |-> "idle", id |-> NoAuth, calls |-> 0]

\* A job is taken, and refreshAuth clones the credential, if it can refresh it.
TakeJob(w) ==
  /\ worker[w].at = "idle" /\ jobs # <<>>
  /\ jobs' = Tail(jobs)
  /\ LET id == Head(jobs) IN
     worker' = [worker EXCEPT ![w] =
       [at |-> IF auths[id] # NoAuth /\ id \in Executors THEN "provider" ELSE "tell",
        id |-> id, calls |-> 1]]
  /\ UNCHANGED <<auths, heap, dirty, wake, timer, loop, Outside, handed>>

\* The answer is written: Update and refreshAuth's failure path tell the loop
\* of it, and the worker tells it once more.
Answered(w, token) ==
  LET id == worker[w].id
      known == auths[id] # NoAuth
  IN /\ auths' = IF known THEN [auths EXCEPT ![id] = token] ELSE auths
     /\ worker' = [worker EXCEPT ![w].at = "tell", ![w].calls = IF known THEN 2 ELSE 1]
     /\ UNCHANGED <<heap, dirty, wake, timer, loop, jobs, Outside, handed>>

\* A cancelled refresh records nothing: the pending backoff stays.
RefreshCancelled(w) ==
  /\ worker[w].at = "provider"
  /\ worker' = [worker EXCEPT ![w].at = "tell", ![w].calls = 1]
  /\ UNCHANGED <<auths, heap, dirty, wake, timer, loop, jobs, Outside, handed>>

RefreshSucceeds(w, due) ==
  /\ worker[w].at = "provider"
  /\ Answered(w, [due |-> due, after |-> AfterAnswer(due), unauth |-> FALSE])

RefreshFails(w) ==
  /\ worker[w].at = "provider"
  /\ LET a == auths[worker[w].id] IN
     Answered(w, IF a = NoAuth THEN NoAuth ELSE [a EXCEPT !.after = Failure, !.unauth = FALSE])

RefreshUnauthorized(w) ==
  /\ worker[w].at = "provider"
  /\ LET a == auths[worker[w].id] IN
     Answered(w, IF a = NoAuth THEN NoAuth ELSE [a EXCEPT !.after = Past, !.unauth = TRUE])

\* queueReschedule: the dirty set under the lock ...
TellDirty(w) ==
  /\ worker[w].at = "tell"
  /\ dirty' = dirty \union {worker[w].id}
  /\ worker' = [worker EXCEPT ![w].at = "wake"]
  /\ UNCHANGED <<auths, heap, wake, timer, loop, jobs, Outside, handed>>

\* ... then the wake-up, which is dropped when there is one already.
TellWake(w) ==
  /\ worker[w].at = "wake"
  /\ wake' = TRUE
  /\ worker' = [worker EXCEPT ![w] = IF @.calls = 1 THEN Resting
                                     ELSE [@ EXCEPT !.at = "tell", !.calls = 1]]
  /\ UNCHANGED <<auths, heap, dirty, timer, loop, jobs, Outside, handed>>

Work(w) ==
  \/ TakeJob(w) \/ RefreshFails(w) \/ RefreshUnauthorized(w) \/ RefreshCancelled(w)
  \/ TellDirty(w) \/ TellWake(w)
  \/ \E due \in Lives : RefreshSucceeds(w, due)

-----------------------------------------------------------------------------
(* The rest of the program.                                                *)

\* Bound: a result takes the room of two changes of the credential.
Cost(operation) == IF operation = "results" THEN 2 ELSE 1
May(operation) == operation \in Operations /\ spent + Cost(operation) <= MaxOperations
Spend(operation) == spent' = spent + Cost(operation)
Rest == <<heap, timer, loop, jobs, worker>>

\* Register, or an Update from the credential's file: it keeps the time before
\* which no refresh may start, as it was when the service read it.
Edit(id, due) ==
  /\ May("edit") /\ tell[id] + waking[id] < MaxCalls
  /\ \E after \in {Past} \union (IF auths[id] = NoAuth THEN {} ELSE {auths[id].after}) :
       auths' = [auths EXCEPT ![id] = [due |-> due, after |-> after, unauth |-> FALSE]]
  /\ tell' = [tell EXCEPT ![id] = @ + 1]
  /\ handed' = handed \ {id}
  /\ unsettled' = IF untell[id] > 0 THEN unsettled ELSE unsettled \ {id}
  /\ Spend("edit")
  /\ UNCHANGED <<Rest, dirty, wake, waking, untell>>

Remove(id) ==
  /\ May("remove") /\ auths[id] # NoAuth /\ untell[id] < MaxCalls
  /\ auths' = [auths EXCEPT ![id] = NoAuth]
  /\ untell' = [untell EXCEPT ![id] = @ + 1]
  /\ unsettled' = unsettled \union {id}
  /\ Spend("remove")
  /\ handed' = handed \ {id}
  /\ UNCHANGED <<Rest, dirty, wake, tell, waking>>

\* MarkResult: a 401 becomes the credential's last error, a success clears it.
Result(id, unauthorized) ==
  /\ May("results") /\ auths[id] # NoAuth
  /\ auths' = [auths EXCEPT ![id].unauth = unauthorized]
  /\ unsettled' = IF auths[id].unauth /\ ~unauthorized THEN unsettled \union {id} ELSE unsettled
  /\ Spend("results")
  /\ handed' = handed \ {id}
  /\ UNCHANGED <<Rest, dirty, wake, tell, waking, untell>>

\* queueRefreshReschedule by another goroutine.
QueueDirty(id) ==
  /\ tell[id] > 0
  /\ tell' = [tell EXCEPT ![id] = @ - 1]
  /\ dirty' = dirty \union {id}
  /\ waking' = [waking EXCEPT ![id] = @ + 1]
  /\ UNCHANGED <<auths, Rest, wake, untell, handed, unsettled, spent>>

\* Mutant of QueueWake: the token is lost.
QueueWakeLost(id) ==
  /\ waking[id] > 0
  /\ waking' = [waking EXCEPT ![id] = @ - 1]
  /\ UNCHANGED <<auths, Rest, dirty, wake, tell, untell, handed, unsettled, spent>>

QueueWake(id) ==
  /\ waking[id] > 0
  /\ waking' = [waking EXCEPT ![id] = @ - 1]
  /\ wake' = TRUE
  /\ UNCHANGED <<auths, Rest, dirty, tell, untell, handed, unsettled, spent>>

\* queueRefreshUnschedule.
QueueUnschedule(id) ==
  /\ untell[id] > 0
  /\ untell' = [untell EXCEPT ![id] = @ - 1]
  /\ heap' = [heap EXCEPT ![id] = Never]
  /\ UNCHANGED <<auths, dirty, wake, timer, loop, jobs, worker, tell, waking, handed, unsettled, spent>>

Calls(id) == QueueDirty(id) \/ QueueWake(id) \/ QueueUnschedule(id)

Nearer(t) == IF t \in {Never, Past} THEN t ELSE t - 1

\* Time passes; a pass of the loop takes no longer than MaxLag.
Tick ==
  /\ loop.at = "select" \/ loop.lag < MaxLag
  /\ auths' = [id \in Auths |->
       IF auths[id] = NoAuth THEN NoAuth
       ELSE [auths[id] EXCEPT !.due = Nearer(@), !.after = Nearer(@)]]
  /\ heap' = [id \in Auths |-> Nearer(heap[id])]
  /\ timer' = Nearer(timer)
  /\ loop' = [loop EXCEPT !.next = Nearer(@), !.lag = IF loop.at = "select" THEN 0 ELSE @ + 1]
  /\ handed' = {}
  /\ UNCHANGED <<dirty, wake, jobs, worker, Outside>>

-----------------------------------------------------------------------------

\* StartAutoRefresh: rebuild, then the loop sets its timer.
Init ==
  /\ auths \in [Auths -> {NoAuth} \union [due : Lives, after : {Past}, unauth : {FALSE}]]
  /\ heap = [id \in Auths |-> NextCheck(auths[id], 0)]
  /\ dirty = {}
  /\ wake = FALSE
  /\ timer = Never
  /\ loop = [AtSelect EXCEPT !.at = "timer", !.pass = "dirty"]
  /\ jobs = <<>>
  /\ worker = [w \in Workers |-> Resting]
  /\ tell = [id \in Auths |-> 0]
  /\ waking = [id \in Auths |-> 0]
  /\ untell = [id \in Auths |-> 0]
  /\ handed = {} /\ unsettled = {}
  /\ spent = 0

Next ==
  \/ Loop
  \/ \E w \in Workers : Work(w)
  \/ \E id \in Auths :
       \/ Calls(id)
       \/ \E due \in Lives \union {Never} : Edit(id, due)
       \/ Remove(id)
       \/ \E unauthorized \in BOOLEAN : Result(id, unauthorized)
  \/ Tick

Spec == Init /\ [][Next]_vars

\* Goroutines that can run do, time passes and the provider answers; nobody has
\* to edit, remove or use a credential.  Go's select chooses at random among the
\* channels that are ready: wake-ups that never end do not keep the loop from
\* the timer.
Fairness ==
  /\ WF_vars(Loop)
  /\ SF_vars(PopDue)
  /\ \A w \in Workers : WF_vars(Work(w))
  /\ \A id \in Auths : WF_vars(Calls(id))
  /\ WF_vars(Tick)

FairSpec == Spec /\ Fairness

-----------------------------------------------------------------------------
(* Properties.                                                             *)

TypeOK ==
  /\ auths \in [Auths -> Token \union {NoAuth}]
  /\ heap \in [Auths -> Times \union {Never}]
  /\ dirty \subseteq Auths
  /\ wake \in BOOLEAN
  /\ timer \in Times \union {Never}
  /\ loop.lag \in 0 .. MaxLag /\ loop.ids \subseteq Auths
  /\ jobs \in Seq(Auths) /\ Len(jobs) <= JobCap
  /\ handed \subseteq Auths /\ unsettled \subseteq Auths
  /\ spent \in 0 .. MaxOperations

\* Somebody will look at the credential: it is in the heap, in the dirty set or
\* in the loop's hands, or a call that puts it there is still to come.
Remembered(id) ==
  \/ heap[id] # Never
  \/ id \in dirty
  \/ id \in loop.ids
  \/ tell[id] > 0
  \/ \E w \in Workers : worker[w].at = "tell" /\ worker[w].id = id

\* No credential that has to be checked some time is forgotten, in whatever
\* order its writers, the workers and the loop take their steps, but for the two
\* events nobody tells the loop of in time: a success that clears a 401
\* (conductor.go:3530) and a registration overtaken by the unscheduling of the
\* removal before it (conductor.go:2217).
NeverForgotten ==
  \A id \in Auths \ unsettled : NextCheck(auths[id], loop.lag) # Never => Remembered(id)

\* While the loop sleeps, what it has to do will wake it: a changed credential
\* through the channel, a due one through a timer that is not set too late.
SleepsLightly ==
  loop.at = "select" =>
    /\ dirty # {} => \/ wake
                     \/ \E id \in Auths : waking[id] > 0
                     \/ \E w \in Workers : worker[w].at = "wake"
    /\ \A id \in Auths : heap[id] # Never => timer # Never /\ timer <= Later(heap[id] + MaxLag, 0)

\* "Without this guard, the auto-refresh loop can tight-loop and burn CPU at
\* idle" (conductor.go:82): at one instant a credential is marked for a worker at most
\* once, whatever the provider answers, unless an edit, a removal or a result touched
\* it in between.  A mark does not count when it is made with a reading of the time
\* that is older than refreshPendingBackoff, because a worker kept the pass waiting
\* (auto_refresh_loop.go:267): it has run out already, and the next pass marks again.
NoTightLoop ==
  [][\A id \in handed : ~(loop.at = "mark" /\ loop.id = id /\ loop'.at = "send")]_vars

Due(id) ==
  /\ id \in Executors /\ auths[id] # NoAuth
  /\ ~auths[id].unauth /\ auths[id].due <= 0

Refreshing(id) == \E w \in Workers : worker[w].at = "provider" /\ worker[w].id = id

\* "evaluates auth freshness every few seconds and triggers refresh operations
\* when required" (conductor.go:5236): with every kind of operation going on, a
\* credential that stays due is taken to its provider, through failures, refusals
\* and answers that change nothing, unless one of NeverForgotten's two events
\* befell it.  The first of them contradicts the sentence: once a success has
\* cleared a 401, nobody tells the loop.
DueIsRefreshedIfTold ==
  \A id \in Auths : Due(id) ~> (~Due(id) \/ Refreshing(id) \/ id \in unsettled)
=============================================================================
