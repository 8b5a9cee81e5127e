--------------------------- MODULE GradingPipeline ---------------------------
(***************************************************************************)
(* What happens to a formal Submission after its row is committed: it is   *)
(* put on the execution queue, claimed by a worker under a lock that must  *)
(* be renewed, run in the sandbox, reported to the LMS and taken into its  *)
(* row.  One goroutine of one worker process, one HTTP request at the LMS  *)
(* and the dispatcher of each Submission are processes of their own; each  *)
(* of BullMQ's scripts is one atomic step, as Redis runs it.               *)
(*                                                                         *)
(* Anything may break, as often as `MaxFaults` allows and in the ways that *)
(* `FaultKinds` lists: a process dies, a lock lapses under a live worker,  *)
(* a request outlives its caller, the Docker daemon or the LMS goes away.  *)
(*                                                                         *)
(* A verdict is what the Submission row says: "none" while it is QUEUED,   *)
(* "graded" for the worker's own result, and one value for each            *)
(* SYSTEM_ERROR the platform writes.  Three results describe no program:   *)
(* "interrupted" by a shutdown; "cutOff" by an outage of the daemon that   *)
(* the sandbox saw as one; "mistaken", an outage it saw as anything else.  *)
(***************************************************************************)
EXTENDS Integers, FiniteSets

CONSTANTS
  Jobs,        \* formal Submissions; the Submission id is the job id
  Workers,     \* worker processes, with one goroutine each
  Requests,    \* bound: callback requests in flight at the LMS
  NoJob,
  NoWorker,    \* no lock, or a request nobody waits for
  Attempts,    \* attempts of a SUBMIT job
  MaxStalled,  \* recoveries of a job before it is given up
  FaultKinds,  \* what may go wrong
  MaxFaults    \* bound: how often something goes wrong

Faults == {"crash", "lapse", "panic", "redis", "dispatch", "timeout", "shutdown",
           "docker", "lms", "longOutage"}

ASSUME PipelineAssumption ==
  /\ NoJob \notin Jobs
  /\ NoWorker \notin Workers
  /\ Attempts \in Nat \ {0}
  /\ MaxStalled \in Nat
  /\ FaultKinds \subseteq Faults
  /\ MaxFaults \in Nat

VARIABLES
  row,        \* the Submission row: its verdict, and whether jobId is written
  dispatch,   \* where dispatchSubmission is
  expired,    \* jobs whose callback token has expired
  job,        \* BullMQ's record of each job, with its lock
  marked,     \* BullMQ's stalled set
  worker,     \* the goroutines
  request,    \* callback requests at the LMS
  docker,     \* does the Docker daemon answer?
  lms,        \* does the LMS answer?
  faults      \* how often something went wrong

vars == <<row, dispatch, expired, job, marked, worker, request, docker, lms, faults>>
platform == <<expired, docker, lms>>

------------------------------------------------------------------------------
Broken == {"interrupted", "cutOff"}
Spoiled == Broken \cup {"mistaken"}
Verdicts == {"graded", "abandoned", "expired", "unqueued"} \cup Spoiled

\* A SYSTEM_ERROR, which names the daemon or does not; "none" is another status.
Causes == {"none", "platform", "daemon"}

Places == {"absent", "wait", "active", "delayed", "completed", "failed"}

JobRecord ==
  [place : Places, lock : Workers \cup {NoWorker}, made : Nat, stalls : Nat,
   processed : BOOLEAN]

\* `outcome` is how Process returned; `cut` says the daemon went away under
\* the container; `cause` goes with a result that is to be judged.
Goroutine ==
  [mode : {"off", "up", "draining", "stopping", "released"},
   paused : BOOLEAN,
   step : {"idle", "execute", "judge", "deliver", "await", "finish", "complete"},
   job : Jobs \cup {NoJob},
   result : Verdicts \cup {"none"},
   cause : Causes,
   outcome : {"none", "done", "requeue", "error", "unrecoverable"},
   cut : BOOLEAN]

Callback ==
  [step : {"free", "arrived", "store", "close", "accepted", "refused"},
   waiter : Workers \cup {NoWorker},
   job : Jobs \cup {NoJob},
   result : Verdicts \cup {"none"}]

Resting == [mode |-> "up", paused |-> FALSE, step |-> "idle", job |-> NoJob,
            result |-> "none", cause |-> "none", outcome |-> "none", cut |-> FALSE]
Free == [step |-> "free", waiter |-> NoWorker, job |-> NoJob, result |-> "none"]

Init ==
  /\ row = [j \in Jobs |-> [verdict |-> "none", named |-> FALSE]]
  /\ dispatch = [j \in Jobs |-> "enqueue"]
  /\ expired = {}
  /\ job = [j \in Jobs |-> [place |-> "absent", lock |-> NoWorker, made |-> 0,
                            stalls |-> 0, processed |-> FALSE]]
  /\ marked = {}
  /\ worker = [w \in Workers |-> Resting]
  /\ request = [r \in Requests |-> Free]
  /\ docker = TRUE
  /\ lms = TRUE
  /\ faults = 0

Fault(kind) ==
  /\ kind \in FaultKinds
  /\ faults < MaxFaults
  /\ faults' = faults + 1

------------------------------------------------------------------------------
(* dispatchSubmission: enqueue, write jobId; anything thrown on the way     *)
(* overwrites the row, whatever became of it.                               *)

\* The Submission id is the job id: adding it again changes nothing.
Added(j) ==
  IF job[j].place = "absent" THEN [job EXCEPT ![j].place = "wait"] ELSE job

Enqueue(j) ==
  /\ dispatch[j] = "enqueue"
  /\ job' = Added(j)
  /\ dispatch' = [dispatch EXCEPT ![j] = "name"]
  /\ UNCHANGED <<row, marked, worker, request, platform, faults>>

NameJob(j) ==
  /\ dispatch[j] = "name"
  /\ row' = [row EXCEPT ![j].named = TRUE]
  /\ dispatch' = [dispatch EXCEPT ![j] = "done"]
  /\ UNCHANGED <<job, marked, worker, request, platform, faults>>

\* The add or the write of jobId throws; the job may have landed all the same.
DispatchThrows(j) ==
  /\ dispatch[j] \in {"enqueue", "name"}
  /\ Fault("dispatch")
  /\ job' \in {job, Added(j)}
  /\ dispatch' = [dispatch EXCEPT ![j] = "fail"]
  /\ UNCHANGED <<row, marked, worker, request, platform>>

MarkUnqueued(j) ==
  /\ dispatch[j] = "fail"
  /\ row' = [row EXCEPT ![j].verdict = "unqueued"]
  /\ dispatch' = [dispatch EXCEPT ![j] = "done"]
  /\ UNCHANGED <<job, marked, worker, request, platform, faults>>

DispatcherDies(j) ==
  /\ dispatch[j] # "done"
  /\ Fault("crash")
  /\ dispatch' = [dispatch EXCEPT ![j] = "done"]
  /\ UNCHANGED <<row, job, marked, worker, request, platform>>

------------------------------------------------------------------------------
(* BullMQ's scripts.  A finishing script is refused unless the caller's     *)
(* token is the lock's; removing the lock also clears the stalled mark.     *)

Holds(w, j) == job[j].lock = w

\* (Variant: the lock key is left behind.)
UnlockedAtKept(j, p) == [job[j] EXCEPT !.place = p]

UnlockedAt(j, p) == [job[j] EXCEPT !.place = p, !.lock = NoWorker]

\* moveJobFromActiveToWait, for the token of w.
Released(w, j) ==
  IF Holds(w, j)
  THEN /\ job' = [job EXCEPT ![j] = UnlockedAt(j, "wait")]
       /\ marked' = marked \ {j}
  ELSE UNCHANGED <<job, marked>>

\* moveToFinished, moveToDelayed, retryJob: the attempt counts.
OnceMore(j, p) == [UnlockedAt(j, p) EXCEPT !.made = job[j].made + 1]

Finished(w, j, p) ==
  IF Holds(w, j)
  THEN /\ job' = [job EXCEPT ![j] = OnceMore(j, p)]
       /\ marked' = marked \ {j}
  ELSE UNCHANGED <<job, marked>>

\* Delayed jobs whose backoff is over are promoted by the next script.
Promote(j) ==
  /\ job[j].place = "delayed"
  /\ job' = [job EXCEPT ![j].place = "wait"]
  /\ UNCHANGED <<row, dispatch, marked, worker, request, platform, faults>>

\* A lock's time to live passes: under a worker that died or was refused, or,
\* when renewals fail, under a live one.
Lapse(j) ==
  /\ job[j].lock # NoWorker
  /\ IF worker[job[j].lock].job = j THEN Fault("lapse") ELSE UNCHANGED faults
  /\ job' = [job EXCEPT ![j].lock = NoWorker]
  /\ UNCHANGED <<row, dispatch, marked, worker, request, platform>>

Renew(w) ==
  LET j == worker[w].job IN
  /\ worker[w].step \in {"execute", "judge", "deliver", "await"}
  /\ Holds(w, j) /\ j \in marked
  /\ marked' = marked \ {j}
  /\ UNCHANGED <<row, dispatch, job, worker, request, platform, faults>>

\* Marked by the pass before, still active, and its lock is gone.
\* (Variants: the lock is not looked at; the check never runs.)
StalledIfMarked(j) == j \in marked /\ job[j].place = "active"

StalledNever(j) == FALSE

Stalled(j) == j \in marked /\ job[j].place = "active" /\ job[j].lock = NoWorker

\* moveStalledJobsToWait: stalled jobs go back, active ones are marked.
RecoverStalled(w) ==
  /\ worker[w].mode = "up"
  /\ job' = [j \in Jobs |->
       IF Stalled(j)
       THEN [UnlockedAt(j, "wait") EXCEPT !.stalls = job[j].stalls + 1]
       ELSE job[j]]
  /\ marked' = {j \in Jobs : job[j].place = "active" /\ ~Stalled(j)}
  /\ UNCHANGED <<row, dispatch, worker, request, platform, faults>>

------------------------------------------------------------------------------
(* pool.execute and Service.Process *)

Poisoned(j) == job[j].stalls > MaxStalled

\* What a claim begins with: a job whose result is out is only completed, one
\* that kept stalling is reported without being run.
\* (Variant: it is reported without a result.)
BeginsUnreported(j) ==
  IF job[j].processed THEN [step |-> "complete", result |-> "none"]
  ELSE IF Poisoned(j) THEN [step |-> "deliver", result |-> "none"]
  ELSE [step |-> "execute", result |-> "none"]

Begins(j) ==
  IF job[j].processed THEN [step |-> "complete", result |-> "none"]
  ELSE IF Poisoned(j) THEN [step |-> "deliver", result |-> "abandoned"]
  ELSE [step |-> "execute", result |-> "none"]

Claim(w, j) ==
  /\ worker[w].mode = "up" /\ ~worker[w].paused /\ worker[w].step = "idle"
  /\ job[j].place = "wait"
  /\ job' = [job EXCEPT ![j].place = "active", ![j].lock = w]
  /\ worker' = [worker EXCEPT ![w].step = Begins(j).step,
                              ![w].result = Begins(j).result,
                              ![w].job = j,
                              ![w].cut = ~docker]
  /\ UNCHANGED <<row, dispatch, marked, request, platform, faults>>

\* The work context is cancelled once the grace period is over.
Interrupted(w) == worker[w].mode \in {"stopping", "released"}

Returns(w, outcome) ==
  worker' = [worker EXCEPT ![w].step = "finish", ![w].outcome = outcome,
                           ![w].result = "none", ![w].cause = "none"]

\* What a run may come to, and why.  A program's own run may meet a platform
\* error; a run that is interrupted or cut may have been done by then.  An
\* outage is seen as one when the connection fails; an answer of the daemon's,
\* about a container that is gone or stopped, is not taken for one.
RunEnds(w) ==
  {<<"graded", "none">>, <<"graded", "platform">>}
  \cup (IF Interrupted(w) THEN {"interrupted"} \X Causes ELSE {})
  \cup (IF worker[w].cut
        THEN {<<"cutOff", "daemon">>, <<"mistaken", "none">>, <<"mistaken", "platform">>}
        ELSE {})

Execute(w) ==
  /\ worker[w].step = "execute"
  /\ \E end \in RunEnds(w) :
       worker' = [worker EXCEPT ![w].step = "judge", ![w].result = end[1],
                                ![w].cause = end[2]]
  /\ UNCHANGED <<row, dispatch, job, marked, request, platform, faults>>

\* The work context was cancelled; or a SYSTEM_ERROR names the daemon, even if
\* that is back by now; or the daemon does not answer a probe.
\* (Variant: the daemon is only probed.)
UnfairIfStillDown(w) == Interrupted(w) \/ (worker[w].cause # "none" /\ ~docker)

Unfair(w) ==
  \/ Interrupted(w)
  \/ worker[w].cause = "daemon"
  \/ worker[w].cause = "platform" /\ ~docker

Judge(w) ==
  /\ worker[w].step = "judge"
  /\ IF Unfair(w)
     THEN Returns(w, "requeue")
     ELSE worker' = [worker EXCEPT ![w].step = "deliver", ![w].cause = "none"]
  /\ UNCHANGED <<row, dispatch, job, marked, request, platform, faults>>

Panic(w) ==
  /\ worker[w].step = "execute"
  /\ Fault("panic")
  /\ Returns(w, "error")
  /\ UNCHANGED <<row, dispatch, job, marked, request, platform>>

Send(w, r) ==
  /\ worker[w].step = "deliver" /\ ~Interrupted(w)
  /\ lms /\ request[r].step = "free"
  /\ request' = [request EXCEPT ![r] = [step |-> "arrived", waiter |-> w,
                   job |-> worker[w].job, result |-> worker[w].result]]
  /\ worker' = [worker EXCEPT ![w].step = "await"]
  /\ UNCHANGED <<row, dispatch, job, marked, platform, faults>>

\* A result is held through an outage until its token has expired.
HoldEnds(w) ==
  /\ worker[w].step = "deliver"
  /\ \/ Interrupted(w)
     \/ ~lms /\ worker[w].job \in expired
  /\ Returns(w, "error")
  /\ UNCHANGED <<row, dispatch, job, marked, request, platform, faults>>

\* The caller of a request is gone; its handler may still be at work.
Orphaned(w) ==
  [r \in Requests |->
     IF request[r].waiter # w THEN request[r]
     ELSE IF request[r].step \in {"accepted", "refused"} THEN Free
     ELSE [request[r] EXCEPT !.waiter = NoWorker]]

\* The 30-second client timeout: the same result is sent again.  An LMS that
\* answers no attempt of a whole round is an LMS that is away.
TimesOut(w) ==
  /\ worker[w].step = "await"
  /\ Fault("timeout")
  /\ worker' = [worker EXCEPT ![w].step = "deliver"]
  /\ request' = Orphaned(w)
  /\ UNCHANGED <<row, dispatch, job, marked, platform>>

AwaitInterrupted(w) ==
  /\ worker[w].step = "await" /\ Interrupted(w)
  /\ Returns(w, "error")
  /\ request' = Orphaned(w)
  /\ UNCHANGED <<row, dispatch, job, marked, platform, faults>>

\* A refusal, and the report of an abandoned job, end the queue job as failed.
\* (Variant: any answer counts as delivered.)
OutcomeIfAnswered(w, answer) ==
  IF worker[w].result = "abandoned" THEN "unrecoverable" ELSE "done"

Outcome(w, answer) ==
  IF answer = "refused" \/ worker[w].result = "abandoned" THEN "unrecoverable" ELSE "done"

Answered(w, r) ==
  /\ worker[w].step = "await"
  /\ request[r].waiter = w /\ request[r].step \in {"accepted", "refused"}
  /\ Returns(w, Outcome(w, request[r].step))
  /\ request' = [request EXCEPT ![r] = Free]
  /\ UNCHANGED <<row, dispatch, job, marked, platform, faults>>

\* MarkProcessed checks no token.
MarkProcessed(w) ==
  /\ worker[w].step = "finish" /\ worker[w].outcome = "done"
  /\ job' = [job EXCEPT ![worker[w].job].processed = TRUE]
  /\ worker' = [worker EXCEPT ![w].step = "complete", ![w].outcome = "none"]
  /\ UNCHANGED <<row, dispatch, marked, request, platform, faults>>

Rests(w, p) ==
  worker' = [worker EXCEPT ![w].step = "idle", ![w].job = NoJob, ![w].outcome = "none",
                           ![w].cut = FALSE, ![w].paused = p]

Complete(w) ==
  /\ worker[w].step = "complete"
  /\ Finished(w, worker[w].job, "completed")
  /\ Rests(w, worker[w].paused)
  /\ UNCHANGED <<row, dispatch, request, platform, faults>>

\* A job the daemon failed under goes back and the pool pauses; an interrupted
\* one goes back as well.
Release(w) ==
  /\ worker[w].step = "finish"
  /\ worker[w].outcome # "done"
  /\ worker[w].outcome = "requeue" \/ Interrupted(w)
  /\ Released(w, worker[w].job)
  /\ Rests(w, worker[w].paused \/ ~Interrupted(w))
  /\ UNCHANGED <<row, dispatch, request, platform, faults>>

\* (Variant: the retry policy is ignored.)
ExhaustedAtOnce(j) == TRUE

Exhausted(j) == job[j].made + 1 >= Attempts

Fail(w) ==
  LET j == worker[w].job IN
  /\ worker[w].step = "finish" /\ ~Interrupted(w)
  /\ worker[w].outcome \in {"error", "unrecoverable"}
  /\ Finished(w, j, IF worker[w].outcome = "unrecoverable" \/ Exhausted(j)
                    THEN "failed" ELSE "delayed")
  /\ Rests(w, worker[w].paused)
  /\ UNCHANGED <<row, dispatch, request, platform, faults>>

\* A finishing script that never reaches Redis is given up; only the mark has
\* a step after it.
RedisFails(w) ==
  /\ worker[w].step \in {"finish", "complete"}
  /\ Fault("redis")
  /\ IF worker[w].step = "finish" /\ worker[w].outcome = "done"
     THEN worker' = [worker EXCEPT ![w].step = "complete", ![w].outcome = "none"]
     ELSE Rests(w, worker[w].paused \/ (worker[w].outcome = "requeue" /\ ~Interrupted(w)))
  /\ UNCHANGED <<row, dispatch, job, marked, request, platform>>

\* awaitReady: claiming resumes once the daemon answers.
Unpause(w) ==
  /\ worker[w].paused /\ worker[w].step = "idle" /\ worker[w].mode = "up"
  /\ docker
  /\ worker' = [worker EXCEPT ![w].paused = FALSE]
  /\ UNCHANGED <<row, dispatch, job, marked, request, platform, faults>>

------------------------------------------------------------------------------
(* The worker process: SIGTERM, the grace period, the end; and its death.   *)

Terminate(w) ==
  /\ worker[w].mode = "up"
  /\ Fault("shutdown")
  /\ worker' = [worker EXCEPT ![w].mode = "draining"]
  /\ UNCHANGED <<row, dispatch, job, marked, request, platform>>

GraceEnds(w) ==
  /\ worker[w].mode = "draining" /\ worker[w].step # "idle"
  /\ worker' = [worker EXCEPT ![w].mode = "stopping"]
  /\ UNCHANGED <<row, dispatch, job, marked, request, platform, faults>>

\* A goroutine that did not unwind in time has its job released for it, and
\* may go on for a moment.
ReleaseInFlight(w) ==
  /\ worker[w].mode = "stopping" /\ worker[w].step # "idle"
  /\ Released(w, worker[w].job)
  /\ worker' = [worker EXCEPT ![w].mode = "released"]
  /\ UNCHANGED <<row, dispatch, request, platform, faults>>

Gone == [Resting EXCEPT !.mode = "off"]

Exit(w) ==
  /\ \/ worker[w].mode \in {"draining", "stopping"} /\ worker[w].step = "idle"
     \/ worker[w].mode = "released"
  /\ worker' = [worker EXCEPT ![w] = Gone]
  /\ request' = Orphaned(w)
  /\ UNCHANGED <<row, dispatch, job, marked, platform, faults>>

Crash(w) ==
  /\ worker[w].mode # "off"
  /\ Fault("crash")
  /\ worker' = [worker EXCEPT ![w] = Gone]
  /\ request' = Orphaned(w)
  /\ UNCHANGED <<row, dispatch, job, marked, platform>>

\* A worker does not start while the daemon is away.
Start(w) ==
  /\ worker[w].mode = "off" /\ docker
  /\ worker' = [worker EXCEPT ![w].mode = "up"]
  /\ UNCHANGED <<row, dispatch, job, marked, request, platform, faults>>

------------------------------------------------------------------------------
(* POST /internal/execution/result *)

Answer(r, a) ==
  request' = [request EXCEPT ![r] = IF request[r].waiter = NoWorker THEN Free
                                    ELSE [request[r] EXCEPT !.step = a]]

\* The token's date decides the path; then each path reads the row, and turns
\* back at once when there is nothing for it to do.
Receive(r) ==
  LET j == request[r].job IN
  /\ request[r].step = "arrived"
  /\ \/ /\ j \in expired
        /\ IF row[j].named /\ row[j].verdict = "none"
           THEN request' = [request EXCEPT ![r].step = "close"]
           ELSE Answer(r, "refused")
     \/ /\ j \notin expired
        /\ IF row[j].verdict = "none"
           THEN request' = [request EXCEPT ![r].step = "store"]
           ELSE Answer(r, "accepted")
  /\ UNCHANGED <<row, dispatch, job, marked, worker, platform, faults>>

\* ingestSubmission and closeExpiredExecution write without looking again.
Store(r) ==
  /\ request[r].step = "store"
  /\ row' = [row EXCEPT ![request[r].job].verdict = request[r].result]
  /\ Answer(r, "accepted")
  /\ UNCHANGED <<dispatch, job, marked, worker, platform, faults>>

CloseExpired(r) ==
  /\ request[r].step = "close"
  /\ row' = [row EXCEPT ![request[r].job].verdict = "expired"]
  /\ Answer(r, "refused")
  /\ UNCHANGED <<dispatch, job, marked, worker, platform, faults>>

------------------------------------------------------------------------------
(* Time and the platform.  Unless "longOutage" is listed, the LMS is back    *)
(* before the callback token of a job still under way expires.               *)

UnderWay(j) == job[j].place \in {"wait", "active", "delayed"}
LongOutages == "longOutage" \in FaultKinds

Expire(j) ==
  /\ dispatch[j] = "done" /\ job[j].place # "absent" /\ j \notin expired
  /\ lms \/ LongOutages
  /\ expired' = expired \cup {j}
  /\ UNCHANGED <<row, dispatch, job, marked, worker, request, docker, lms, faults>>

\* The LMS's requests die with it; a worker sees its own fail.
LmsDown ==
  /\ lms /\ Fault("lms")
  /\ LongOutages \/ \A j \in expired : ~UnderWay(j)
  /\ lms' = FALSE
  /\ request' = [r \in Requests |-> Free]
  /\ worker' = [w \in Workers |->
       IF worker[w].step = "await" THEN [worker[w] EXCEPT !.step = "deliver"] ELSE worker[w]]
  /\ UNCHANGED <<row, dispatch, job, marked, expired, docker>>

LmsUp ==
  /\ ~lms /\ lms' = TRUE
  /\ UNCHANGED <<row, dispatch, job, marked, worker, request, expired, docker, faults>>

\* Every container stops with the daemon.
DockerDown ==
  /\ docker /\ Fault("docker")
  /\ docker' = FALSE
  /\ worker' = [w \in Workers |->
       [worker[w] EXCEPT !.cut = worker[w].cut \/ worker[w].step = "execute"]]
  /\ UNCHANGED <<row, dispatch, job, marked, request, expired, lms>>

DockerUp ==
  /\ ~docker /\ docker' = TRUE
  /\ UNCHANGED <<row, dispatch, job, marked, worker, request, expired, lms, faults>>

------------------------------------------------------------------------------
DispatchStep(j) ==
  Enqueue(j) \/ NameJob(j) \/ MarkUnqueued(j) \/ DispatchThrows(j) \/ DispatcherDies(j)

QueueStep(j) == Promote(j) \/ Lapse(j) \/ Expire(j)

WorkStep(w) ==
  \/ Execute(w) \/ Judge(w) \/ HoldEnds(w) \/ AwaitInterrupted(w)
  \/ MarkProcessed(w) \/ Complete(w) \/ Release(w) \/ Fail(w) \/ Unpause(w)
  \/ \E r \in Requests : Send(w, r) \/ Answered(w, r)

ProcessStep(w) == GraceEnds(w) \/ ReleaseInFlight(w) \/ Exit(w) \/ Start(w)

WorkerFault(w) == Panic(w) \/ TimesOut(w) \/ RedisFails(w) \/ Terminate(w) \/ Crash(w)

CallbackStep(r) == Receive(r) \/ Store(r) \/ CloseExpired(r)

Next ==
  \/ \E j \in Jobs : DispatchStep(j) \/ QueueStep(j)
  \/ \E w \in Workers :
       \/ WorkStep(w) \/ ProcessStep(w) \/ WorkerFault(w)
       \/ Renew(w) \/ RecoverStalled(w)
       \/ \E j \in Jobs : Claim(w, j)
  \/ \E r \in Requests : CallbackStep(r)
  \/ LmsDown \/ LmsUp \/ DockerDown \/ DockerUp

\* Every goroutine, handler and process runs; an outage ends; a lock nobody
\* renews lapses; a worker that is up claims and checks for stalled jobs.
Fairness ==
  /\ \A j \in Jobs : WF_vars(Enqueue(j) \/ NameJob(j) \/ MarkUnqueued(j))
  /\ \A j \in Jobs : WF_vars(Promote(j))
  /\ \A j \in Jobs : WF_vars(\E w \in Workers : Holds(w, j) /\ worker[w].job # j /\ Lapse(j))
  /\ \A w \in Workers : WF_vars(WorkStep(w)) /\ WF_vars(ProcessStep(w))
  /\ \A r \in Requests : WF_vars(CallbackStep(r))
  /\ WF_vars(\E w \in Workers : RecoverStalled(w))
  /\ \A j \in Jobs : WF_vars(\E w \in Workers : Claim(w, j))
  /\ WF_vars(LmsUp) /\ WF_vars(DockerUp)

SafeSpec == Init /\ [][Next]_vars
Spec == SafeSpec /\ Fairness

------------------------------------------------------------------------------
(* Properties *)

\* Who is idle has no job, and who reports has something to report.
WorkersOK ==
  /\ worker \in [Workers -> Goroutine]
  /\ \A w \in Workers :
       /\ worker[w].step = "idle" <=> worker[w].job = NoJob
       /\ worker[w].step \in {"judge", "deliver", "await"} => worker[w].result # "none"

RequestsOK ==
  /\ request \in [Requests -> Callback]
  /\ \A r \in Requests :
       request[r].step # "free" => request[r].job \in Jobs /\ request[r].result # "none"

TypeOK ==
  /\ row \in [Jobs -> [verdict : Verdicts \cup {"none"}, named : BOOLEAN]]
  /\ dispatch \in [Jobs -> {"enqueue", "name", "fail", "done"}]
  /\ expired \subseteq Jobs
  /\ job \in [Jobs -> JobRecord]
  /\ marked \subseteq Jobs
  /\ WorkersOK
  /\ RequestsOK
  /\ docker \in BOOLEAN /\ lms \in BOOLEAN
  /\ faults \in Nat

\* Only an active job is locked, whoever finishes, loses or takes it over, and
\* in whatever order: a waiting job with a lock left on it would be claimed by
\* one worker and still be another's to finish.
OnlyActiveJobsAreLocked ==
  \A j \in Jobs : job[j].lock # NoWorker => job[j].place = "active"

\* A job that BullMQ counts as completed, or whose next claim would complete it
\* without a run, has its verdict in the Submission row: the mark and the
\* completion never run ahead of the report, stale workers included.
ReportedBeforeDone ==
  \A j \in Jobs :
    job[j].processed \/ job[j].place = "completed" => row[j].verdict # "none"

\* No Coder is graded on a run that a shutdown interrupted, nor on one whose
\* connection to the Docker daemon failed -- whenever the daemon is back, and
\* whoever the job belongs to by then (service.go:89-113).
NoBrokenRunIsGraded == \A j \in Jobs : row[j].verdict \notin Broken

\* A Submission without a verdict still has its job in the queue or with a
\* worker: no death, lapsed lock, refused script, shutdown or retry, and no
\* outage that ends before the callback token does, drops one.
StillOnTheWay ==
  \A j \in Jobs : row[j].named /\ row[j].verdict = "none" => UnderWay(j)

\* The stalled check, stale workers and retries never take a job from a worker
\* that holds its lock: while it does, the job leaves the active list by that
\* worker's own doing only.
HolderKeepsJob ==
  [][\A j \in Jobs, w \in Workers :
       Holds(w, j) /\ job'[j].place # "active" => worker'[w] # worker[w]]_vars

\* A dispatched Submission gets its verdict, through worker deaths, lapsed
\* locks, restarts and outages shorter than a callback token.
Settles == \A j \in Jobs : row[j].named ~> row[j].verdict # "none"

(* What comments of the code say, and the code does not keep. *)

\* "A job that fails this way was never given a fair run, and must not be graded
\* on it" (sandbox.go:67-70), of a connection that failed "or of a container the
\* daemon stopped underneath a job": the latter may come out as an error that
\* does not name the daemon, and the daemon answer the probe again.
NoSpoiledVerdict == \A j \in Jobs : row[j].verdict \notin Spoiled

\* "a repeat for a submission that already reached a terminal status is a
\* successful no-op rather than a duplicate write": a verdict is final.
VerdictIsFinal ==
  [][\A j \in Jobs :
       row[j].verdict # "none" => row'[j].verdict = row[j].verdict]_vars
==============================================================================
