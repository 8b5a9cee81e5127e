----------------------- MODULE GradingPipeline_proofs -----------------------
(***************************************************************************)
(* Theorems about GradingPipeline, for any Submissions, workers, requests, *)
(* attempts and faults.  Everything follows from PipelineAssumption.       *)
(***************************************************************************)
EXTENDS GradingPipeline, TLAPS

------------------------------------------------------------------------------
(* What the helpers of the actions do to workers, requests and job records. *)

GoodWorker(g) ==
  /\ g \in Goroutine
  /\ g.step = "idle" <=> g.job = NoJob
  /\ g.step \in {"judge", "deliver", "await"} => g.result # "none"

LEMMA WorkerReplaced ==
  ASSUME WorkersOK, NEW w \in Workers, NEW g, GoodWorker(g),
         worker' = [worker EXCEPT ![w] = g]
  PROVE  WorkersOK'
BY DEF WorkersOK, GoodWorker

LEMMA SameWorkers ==
  ASSUME WorkersOK, worker' = worker
  PROVE  WorkersOK'
BY DEF WorkersOK

LEMMA Engaged ==
  ASSUME WorkersOK, NEW w \in Workers, worker[w].step # "idle"
  PROVE  worker[w].job \in Jobs /\ worker[w].paused \in BOOLEAN
BY DEF WorkersOK, Goroutine

LEMMA SameRequests ==
  ASSUME RequestsOK, request' = request
  PROVE  RequestsOK'
BY DEF RequestsOK

LEMMA ReturnsOK ==
  ASSUME WorkersOK, NEW w \in Workers, worker[w].step # "idle",
         NEW o \in {"none", "done", "requeue", "error", "unrecoverable"}, Returns(w, o)
  PROVE  WorkersOK'
<1> DEFINE g == [worker[w] EXCEPT !.step = "finish", !.outcome = o, !.result = "none", !.cause = "none"]
<1>1. worker[w] \in Goroutine /\ worker[w].job # NoJob
      BY DEF WorkersOK
<1>2. GoodWorker(g)
      BY <1>1 DEF GoodWorker, Goroutine, Causes
<1>3. worker' = [worker EXCEPT ![w] = g]
      BY DEF Returns, WorkersOK
<1> HIDE DEF g
<1> QED
    BY <1>2, <1>3, WorkerReplaced

LEMMA RestsOK ==
  ASSUME WorkersOK, NEW w \in Workers, NEW p \in BOOLEAN, Rests(w, p)
  PROVE  WorkersOK'
<1> DEFINE g == [worker[w] EXCEPT !.step = "idle", !.job = NoJob, !.outcome = "none",
                                  !.cut = FALSE, !.paused = p]
<1>1. worker[w] \in Goroutine
      BY DEF WorkersOK
<1>2. GoodWorker(g)
      BY <1>1 DEF GoodWorker, Goroutine
<1>3. worker' = [worker EXCEPT ![w] = g]
      BY DEF Rests, WorkersOK
<1> HIDE DEF g
<1> QED
    BY <1>2, <1>3, WorkerReplaced

LEMMA OrphanedOK ==
  ASSUME RequestsOK, NEW w \in Workers, request' = Orphaned(w)
  PROVE  RequestsOK'
BY DEF RequestsOK, Orphaned, Free, Callback

LEMMA AnswerOK ==
  ASSUME RequestsOK, NEW r \in Requests, NEW a \in {"accepted", "refused"},
         request[r].step # "free", Answer(r, a)
  PROVE  RequestsOK'
<1>1. CASE request[r].waiter = NoWorker
      BY <1>1 DEF RequestsOK, Answer, Free, Callback
<1>2. CASE request[r].waiter # NoWorker
      BY <1>2 DEF RequestsOK, Answer, Callback
<1> QED
    BY <1>1, <1>2

LEMMA UnlockedOK ==
  ASSUME TypeOK, NEW j \in Jobs, NEW p \in Places
  PROVE  /\ UnlockedAt(j, p) \in JobRecord
         /\ UnlockedAt(j, p).place = p /\ UnlockedAt(j, p).lock = NoWorker
         /\ UnlockedAt(j, p).made = job[j].made
         /\ UnlockedAt(j, p).stalls = job[j].stalls
         /\ UnlockedAt(j, p).processed = job[j].processed
BY DEF TypeOK, UnlockedAt, JobRecord

LEMMA OnceMoreOK ==
  ASSUME TypeOK, NEW j \in Jobs, NEW p \in Places
  PROVE  /\ OnceMore(j, p) \in JobRecord
         /\ OnceMore(j, p).place = p /\ OnceMore(j, p).lock = NoWorker
         /\ OnceMore(j, p).processed = job[j].processed
<1> DEFINE u == UnlockedAt(j, p)
<1>1. u \in JobRecord /\ job[j].made + 1 \in Nat
      BY UnlockedOK DEF TypeOK, JobRecord
<1> HIDE DEF u
<1>2. /\ [u EXCEPT !.made = job[j].made + 1] \in JobRecord
      /\ [u EXCEPT !.made = job[j].made + 1].place = u.place
      /\ [u EXCEPT !.made = job[j].made + 1].lock = u.lock
      /\ [u EXCEPT !.made = job[j].made + 1].processed = u.processed
      BY <1>1 DEF JobRecord
<1> QED
    BY <1>2, UnlockedOK DEF OnceMore, u

LEMMA RecoveredOK ==
  ASSUME TypeOK, NEW j \in Jobs
  PROVE  /\ [UnlockedAt(j, "wait") EXCEPT !.stalls = job[j].stalls + 1] \in JobRecord
         /\ [UnlockedAt(j, "wait") EXCEPT !.stalls = job[j].stalls + 1].lock = NoWorker
         /\ [UnlockedAt(j, "wait") EXCEPT !.stalls = job[j].stalls + 1].place = "wait"
         /\ [UnlockedAt(j, "wait") EXCEPT !.stalls = job[j].stalls + 1].processed
              = job[j].processed
<1> DEFINE u == UnlockedAt(j, "wait")
<1>1. u \in JobRecord /\ job[j].stalls + 1 \in Nat
      BY UnlockedOK DEF TypeOK, JobRecord, Places
<1> HIDE DEF u
<1>2. /\ [u EXCEPT !.stalls = job[j].stalls + 1] \in JobRecord
      /\ [u EXCEPT !.stalls = job[j].stalls + 1].place = u.place
      /\ [u EXCEPT !.stalls = job[j].stalls + 1].lock = u.lock
      /\ [u EXCEPT !.stalls = job[j].stalls + 1].processed = u.processed
      BY <1>1 DEF JobRecord
<1> QED
    BY <1>2, UnlockedOK DEF u, Places

LEMMA AddedOK ==
  ASSUME TypeOK, NEW j \in Jobs
  PROVE  Added(j) \in [Jobs -> JobRecord]
<1>1. [job[j] EXCEPT !.place = "wait"] \in JobRecord
      BY DEF TypeOK, JobRecord, Places
<1>2. Added(j) = job \/ Added(j) = [job EXCEPT ![j] = [job[j] EXCEPT !.place = "wait"]]
      BY DEF TypeOK, Added
<1> QED
    BY <1>1, <1>2 DEF TypeOK

LEMMA NamedOK ==
  ASSUME TypeOK, NEW j \in Jobs, NameJob(j)
  PROVE  row' \in [Jobs -> [verdict : Verdicts \cup {"none"}, named : BOOLEAN]]
<1>1. [row[j] EXCEPT !.named = TRUE] \in [verdict : Verdicts \cup {"none"}, named : BOOLEAN]
      BY DEF TypeOK
<1>2. row' = [row EXCEPT ![j] = [row[j] EXCEPT !.named = TRUE]]
      BY DEF TypeOK, NameJob
<1> QED
    BY <1>1, <1>2 DEF TypeOK

LEMMA ModeSet ==
  ASSUME WorkersOK, NEW w \in Workers,
         NEW m \in {"off", "up", "draining", "stopping", "released"},
         worker' = [worker EXCEPT ![w].mode = m]
  PROVE  WorkersOK'
<1>1. worker[w] \in Goroutine
      BY DEF WorkersOK
<1>2. GoodWorker([worker[w] EXCEPT !.mode = m])
      BY <1>1 DEF WorkersOK, GoodWorker, Goroutine
<1>3. worker' = [worker EXCEPT ![w] = [worker[w] EXCEPT !.mode = m]]
      BY DEF WorkersOK
<1> QED
    BY <1>2, <1>3, WorkerReplaced

LEMMA PausedSet ==
  ASSUME WorkersOK, NEW w \in Workers, NEW p \in BOOLEAN,
         worker' = [worker EXCEPT ![w].paused = p]
  PROVE  WorkersOK'
<1>1. worker[w] \in Goroutine
      BY DEF WorkersOK
<1>2. GoodWorker([worker[w] EXCEPT !.paused = p])
      BY <1>1 DEF WorkersOK, GoodWorker, Goroutine
<1>3. worker' = [worker EXCEPT ![w] = [worker[w] EXCEPT !.paused = p]]
      BY DEF WorkersOK
<1> QED
    BY <1>2, <1>3, WorkerReplaced

\* A goroutine goes on with the result it has.
LEMMA StepSet ==
  ASSUME WorkersOK, NEW w \in Workers, NEW s \in {"deliver", "await"},
         worker[w].step \in {"judge", "deliver", "await"},
         worker' = [worker EXCEPT ![w].step = s]
  PROVE  WorkersOK'
<1>1. worker[w] \in Goroutine /\ worker[w].job # NoJob /\ worker[w].result # "none"
      BY DEF WorkersOK
<1>2. GoodWorker([worker[w] EXCEPT !.step = s])
      BY <1>1 DEF GoodWorker, Goroutine
<1>3. worker' = [worker EXCEPT ![w] = [worker[w] EXCEPT !.step = s]]
      BY DEF WorkersOK
<1> QED
    BY <1>2, <1>3, WorkerReplaced

\* A run comes to some result, and a result that a shutdown or a broken
\* connection spoiled can be told.
LEMMA EndsOK ==
  ASSUME NEW w \in Workers, NEW end \in RunEnds(w)
  PROVE  /\ end[1] \in Verdicts /\ end[1] # "none" /\ end[2] \in Causes
         /\ end[1] = "interrupted" => Interrupted(w)
         /\ end[1] = "cutOff" => end[2] = "daemon"
<1>1. CASE end \in {<<"graded", "none">>, <<"graded", "platform">>}
      BY <1>1 DEF Verdicts, Causes
<1>2. CASE Interrupted(w) /\ end \in {"interrupted"} \X Causes
      BY <1>2 DEF Verdicts, Spoiled, Broken
<1>3. CASE end \in {<<"cutOff", "daemon">>, <<"mistaken", "none">>, <<"mistaken", "platform">>}
      BY <1>3 DEF Verdicts, Spoiled, Broken, Causes
<1> QED
    BY <1>1, <1>2, <1>3 DEF RunEnds

LEMMA ExecuteOK ==
  ASSUME WorkersOK, NEW w \in Workers, Execute(w)
  PROVE  WorkersOK'
<1>1. worker[w] \in Goroutine /\ worker[w].job # NoJob
      BY DEF WorkersOK, Execute
<1>2. PICK end \in RunEnds(w) :
        worker' = [worker EXCEPT ![w].step = "judge", ![w].result = end[1],
                                 ![w].cause = end[2]]
      BY DEF Execute
<1> DEFINE g == [worker[w] EXCEPT !.step = "judge", !.result = end[1], !.cause = end[2]]
<1>3. worker' = [worker EXCEPT ![w] = g]
      BY <1>2 DEF WorkersOK
<1>4. GoodWorker(g)
      BY <1>1, EndsOK DEF GoodWorker, Goroutine
<1> HIDE DEF g
<1> QED
    BY <1>3, <1>4, WorkerReplaced

LEMMA ProcessedOK ==
  ASSUME TypeOK, NEW j \in Jobs
  PROVE  [job EXCEPT ![j].processed = TRUE] \in [Jobs -> JobRecord]
<1>1. [job[j] EXCEPT !.processed = TRUE] \in JobRecord
      BY DEF TypeOK, JobRecord
<1> QED
    BY <1>1 DEF TypeOK

LEMMA MarkedOK ==
  ASSUME WorkersOK, NEW w \in Workers, worker[w].step # "idle",
         worker' = [worker EXCEPT ![w].step = "complete", ![w].outcome = "none"]
  PROVE  WorkersOK'
<1> DEFINE g == [worker[w] EXCEPT !.step = "complete", !.outcome = "none"]
<1>1. worker[w] \in Goroutine /\ worker[w].job # NoJob
      BY DEF WorkersOK
<1>2. GoodWorker(g)
      BY <1>1 DEF GoodWorker, Goroutine
<1>3. worker' = [worker EXCEPT ![w] = g]
      BY DEF WorkersOK
<1> QED
    BY <1>2, <1>3, WorkerReplaced

LEMMA GoneOK ==
  ASSUME WorkersOK, NEW w \in Workers, worker' = [worker EXCEPT ![w] = Gone]
  PROVE  WorkersOK'
<1>1. GoodWorker(Gone)
      BY DEF Gone, Resting, GoodWorker, Goroutine, Causes
<1> QED
    BY <1>1, WorkerReplaced

LEMMA BeginsOK ==
  ASSUME NEW j \in Jobs
  PROVE  /\ Begins(j).step \in {"execute", "deliver", "complete"}
         /\ Begins(j).result \in {"none", "abandoned"}
         /\ Begins(j).step = "deliver" => Begins(j).result = "abandoned"
         /\ Begins(j).step = "complete" => job[j].processed
BY DEF Begins

LEMMA ClaimOK ==
  ASSUME TypeOK, NEW w \in Workers, NEW j \in Jobs, Claim(w, j)
  PROVE  WorkersOK' /\ job' \in [Jobs -> JobRecord]
<1> DEFINE s == Begins(j).step
           e == Begins(j).result
           c == ~docker
           g == [worker[w] EXCEPT !.step = s, !.result = e, !.job = j, !.cut = c]
           l == [job[j] EXCEPT !.place = "active", !.lock = w]
<1>1. worker[w] \in Goroutine /\ j # NoJob /\ c \in BOOLEAN
      BY PipelineAssumption DEF TypeOK, WorkersOK
<1>2. worker' = [worker EXCEPT ![w].step = s, ![w].result = e, ![w].job = j,
                               ![w].cut = c]
      BY DEF Claim
<1>3. /\ s \in {"execute", "deliver", "complete"}
      /\ e \in {"none", "abandoned"}
      /\ s = "deliver" => e = "abandoned"
      BY BeginsOK
<1>4. job' = [job EXCEPT ![j] = l] /\ l \in JobRecord
      BY DEF Claim, TypeOK, JobRecord, Places
<1> HIDE DEF s, e, c
<1>5. worker' = [worker EXCEPT ![w] = g]
      BY <1>2 DEF TypeOK, WorkersOK
<1>6. GoodWorker(g)
  <2>1. g \in Goroutine
    <3>1. /\ s \in {"idle", "execute", "judge", "deliver", "await", "finish", "complete"}
          /\ e \in Verdicts \cup {"none"}
          BY <1>3 DEF Verdicts
    <3> QED
        BY <1>1, <3>1, ZenonT(30) DEF Goroutine
  <2>2. g.step = s /\ g.job = j /\ g.result = e
        BY <1>1 DEF Goroutine
  <2> HIDE DEF g
  <2> QED
      BY <1>1, <1>3, <2>1, <2>2 DEF GoodWorker
<1> HIDE DEF g, l
<1>7. WorkersOK'
      BY <1>5, <1>6, WorkerReplaced DEF TypeOK
<1>8. job' \in [Jobs -> JobRecord]
      BY <1>4 DEF TypeOK
<1> QED
    BY <1>7, <1>8

LEMMA SendOK ==
  ASSUME TypeOK, NEW w \in Workers, NEW r \in Requests, Send(w, r)
  PROVE  WorkersOK' /\ RequestsOK'
<1>1. worker[w].job \in Jobs /\ worker[w].result \in Verdicts
      BY DEF Send,
             TypeOK, WorkersOK, Goroutine
<1>2. WorkersOK'
      BY StepSet DEF Send, TypeOK
<1>3. RequestsOK'
      BY <1>1, PipelineAssumption DEF Send, TypeOK, RequestsOK, Callback, Verdicts, Spoiled,
             Broken
<1> QED
    BY <1>2, <1>3

LEMMA HurriedOK ==
  ASSUME RequestsOK, NEW r \in Requests, request[r].step # "free",
         NEW s \in {"store", "close"}, request' = [request EXCEPT ![r].step = s]
  PROVE  RequestsOK'
<1>1. [request[r] EXCEPT !.step = s] \in Callback
      BY DEF RequestsOK, Callback
<1>2. request' = [request EXCEPT ![r] = [request[r] EXCEPT !.step = s]]
      BY DEF RequestsOK
<1> QED
    BY <1>1, <1>2 DEF RequestsOK, Callback

LEMMA LmsDownOK ==
  ASSUME TypeOK, LmsDown
  PROVE  WorkersOK' /\ RequestsOK'
<1>1. ASSUME NEW w \in Workers, worker[w].step = "await"
      PROVE  GoodWorker([worker[w] EXCEPT !.step = "deliver"])
  <2>1. worker[w] \in Goroutine /\ worker[w].job # NoJob /\ worker[w].result # "none"
        BY <1>1 DEF TypeOK, WorkersOK
  <2> QED
      BY <2>1 DEF GoodWorker, Goroutine
<1>2. WorkersOK'
      BY <1>1 DEF LmsDown, TypeOK, WorkersOK, GoodWorker
<1>3. RequestsOK'
      BY DEF LmsDown, RequestsOK, Callback, Free
<1> QED
    BY <1>2, <1>3

LEMMA DockerDownOK ==
  ASSUME TypeOK, DockerDown
  PROVE  WorkersOK'
<1>1. ASSUME NEW w \in Workers, NEW c \in BOOLEAN
      PROVE  GoodWorker([worker[w] EXCEPT !.cut = c])
  <2>1. /\ worker[w] \in Goroutine
        /\ worker[w].step = "idle" <=> worker[w].job = NoJob
        /\ worker[w].step \in {"judge", "deliver", "await"} => worker[w].result # "none"
        BY DEF TypeOK, WorkersOK
  <2> QED
      BY <2>1 DEF GoodWorker, Goroutine
<1>2. \A w \in Workers : (worker[w].cut \/ worker[w].step = "execute") \in BOOLEAN
      OBVIOUS
<1>3. \A w \in Workers :
        GoodWorker([worker[w] EXCEPT !.cut = worker[w].cut \/ worker[w].step = "execute"])
      BY <1>1, <1>2
<1> QED
    BY <1>3 DEF DockerDown, TypeOK, WorkersOK, GoodWorker

------------------------------------------------------------------------------
(* TypeOK is inductive: one lemma per group of actions.                      *)

LEMMA InitTyped == Init => TypeOK
BY PipelineAssumption
   DEF Init, TypeOK, WorkersOK, RequestsOK, Resting, Free, Goroutine, Callback,
       JobRecord, Places, Verdicts, Causes

LEMMA VerdictSet ==
  ASSUME TypeOK, NEW j \in Jobs, NEW v \in Verdicts \cup {"none"},
         row' = [row EXCEPT ![j].verdict = v]
  PROVE  row' \in [Jobs -> [verdict : Verdicts \cup {"none"}, named : BOOLEAN]]
<1>1. [row[j] EXCEPT !.verdict = v] \in [verdict : Verdicts \cup {"none"}, named : BOOLEAN]
      BY DEF TypeOK
<1>2. row' = [row EXCEPT ![j] = [row[j] EXCEPT !.verdict = v]]
      BY DEF TypeOK
<1> QED
    BY <1>1, <1>2 DEF TypeOK

LEMMA ReleasedOK ==
  ASSUME TypeOK, NEW w \in Workers, NEW j \in Jobs, Released(w, j)
  PROVE  job' \in [Jobs -> JobRecord] /\ marked' \subseteq Jobs
BY UnlockedOK DEF Released, Holds, Places, TypeOK

LEMMA FinishedOK ==
  ASSUME TypeOK, NEW w \in Workers, NEW j \in Jobs, NEW p \in Places, Finished(w, j, p)
  PROVE  job' \in [Jobs -> JobRecord] /\ marked' \subseteq Jobs
BY OnceMoreOK DEF Finished, Holds, TypeOK

LEMMA DispatchTyped ==
  ASSUME TypeOK, NEW j \in Jobs, DispatchStep(j)
  PROVE  TypeOK'
<1> USE PipelineAssumption, SameWorkers, SameRequests DEF TypeOK, platform
<1>1. CASE Enqueue(j)
      BY <1>1, AddedOK DEF Enqueue
<1>2. CASE NameJob(j)
      BY <1>2, NamedOK DEF NameJob
<1>3. CASE MarkUnqueued(j)
      BY <1>3 DEF MarkUnqueued, Verdicts
<1>4. CASE DispatchThrows(j)
      BY <1>4, AddedOK DEF DispatchThrows, Fault
<1>5. CASE DispatcherDies(j)
      BY <1>5 DEF DispatcherDies, Fault
<1> QED
    BY <1>1, <1>2, <1>3, <1>4, <1>5 DEF DispatchStep

LEMMA QueueTyped ==
  ASSUME TypeOK, NEW j \in Jobs, QueueStep(j)
  PROVE  TypeOK'
<1> USE PipelineAssumption, SameWorkers, SameRequests DEF TypeOK, platform
<1>1. CASE Promote(j)
  <2>1. job[j] \in JobRecord /\ "wait" \in Places
        BY DEF Places
  <2>2. job' \in [Jobs -> JobRecord]
        BY <1>1, <2>1 DEF Promote, JobRecord
  <2> QED
      BY <1>1, <2>2 DEF Promote
<1>2. CASE Lapse(j)
      BY <1>2 DEF Lapse, Fault, JobRecord
<1>3. CASE Expire(j)
      BY <1>3 DEF Expire
<1> QED
    BY <1>1, <1>2, <1>3 DEF QueueStep

LEMMA WorkTyped ==
  ASSUME TypeOK, NEW w \in Workers, WorkStep(w)
  PROVE  TypeOK'
<1> USE PipelineAssumption, SameWorkers, SameRequests DEF TypeOK, platform
<1>1. CASE Execute(w)
      BY <1>1, ExecuteOK DEF Execute
<1>2. CASE Judge(w)
      BY <1>2, ReturnsOK, StepSet DEF Judge
<1>3. CASE HoldEnds(w)
      BY <1>3, ReturnsOK DEF HoldEnds
<1>4. CASE AwaitInterrupted(w)
      BY <1>4, ReturnsOK, OrphanedOK DEF AwaitInterrupted
<1>5. CASE MarkProcessed(w)
  <2>1. job' \in [Jobs -> JobRecord]
    <3>1. worker[w].job \in Jobs
          BY <1>5, Engaged DEF MarkProcessed
    <3> QED
        BY <1>5, <3>1, ProcessedOK DEF MarkProcessed
  <2> QED
      BY <1>5, <2>1, MarkedOK DEF MarkProcessed
<1>6. CASE Complete(w)
  <2>1. worker[w].job \in Jobs /\ worker[w].paused \in BOOLEAN
        BY <1>6, Engaged DEF Complete
  <2>2. job' \in [Jobs -> JobRecord] /\ marked' \subseteq Jobs
        BY <1>6, <2>1, FinishedOK DEF Complete, Places
  <2>3. WorkersOK'
        BY <1>6, <2>1, RestsOK DEF Complete
  <2> QED
      BY <1>6, <2>2, <2>3 DEF Complete
<1>7. CASE Release(w)
  <2>1. worker[w].job \in Jobs /\ worker[w].paused \in BOOLEAN
        BY <1>7, Engaged DEF Release
  <2>2. job' \in [Jobs -> JobRecord] /\ marked' \subseteq Jobs
        BY <1>7, <2>1, ReleasedOK DEF Release
  <2>3. (worker[w].paused \/ ~Interrupted(w)) \in BOOLEAN
        BY <1>7, <2>1 DEF Interrupted
  <2>4. WorkersOK'
        BY <1>7, <2>3, RestsOK DEF Release
  <2> QED
      BY <1>7, <2>2, <2>4 DEF Release
<1>8. CASE Fail(w)
  <2>1. worker[w].job \in Jobs /\ worker[w].paused \in BOOLEAN
        BY <1>8, Engaged DEF Fail
  <2>2. job' \in [Jobs -> JobRecord] /\ marked' \subseteq Jobs
        BY <1>8, <2>1, FinishedOK DEF Fail, Exhausted, Places
  <2>3. WorkersOK'
        BY <1>8, <2>1, RestsOK DEF Fail
  <2> QED
      BY <1>8, <2>2, <2>3 DEF Fail
<1>9. CASE Unpause(w)
      BY <1>9, PausedSet DEF Unpause
<1>10. CASE \E r \in Requests : Send(w, r)
      BY <1>10, SendOK DEF Send
<1>11. CASE \E r \in Requests : Answered(w, r)
  <2>1. WorkersOK'
        BY <1>11, ReturnsOK DEF Answered, Outcome
  <2>2. RequestsOK'
        BY <1>11 DEF Answered, RequestsOK, Free, Callback
  <2> QED
      BY <1>11, <2>1, <2>2 DEF Answered
<1> QED
    BY <1>1, <1>2, <1>3, <1>4, <1>5, <1>6, <1>7, <1>8, <1>9, <1>10, <1>11 DEF WorkStep

LEMMA ProcessTyped ==
  ASSUME TypeOK, NEW w \in Workers, ProcessStep(w)
  PROVE  TypeOK'
<1> USE PipelineAssumption, SameWorkers, SameRequests DEF TypeOK, platform
<1>1. CASE GraceEnds(w)
      BY <1>1, ModeSet DEF GraceEnds
<1>2. CASE ReleaseInFlight(w)
  <2>1. worker[w].job \in Jobs
        BY <1>2 DEF ReleaseInFlight, WorkersOK, Goroutine
  <2>2. job' \in [Jobs -> JobRecord] /\ marked' \subseteq Jobs
        BY <1>2, <2>1, ReleasedOK DEF ReleaseInFlight
  <2>3. WorkersOK'
        BY <1>2, ModeSet DEF ReleaseInFlight
  <2> QED
      BY <1>2, <2>2, <2>3 DEF ReleaseInFlight
<1>3. CASE Exit(w)
      BY <1>3, OrphanedOK, GoneOK DEF Exit
<1>4. CASE Start(w)
      BY <1>4, ModeSet DEF Start
<1> QED
    BY <1>1, <1>2, <1>3, <1>4 DEF ProcessStep

LEMMA FaultTyped ==
  ASSUME TypeOK, NEW w \in Workers, WorkerFault(w)
  PROVE  TypeOK'
<1> USE PipelineAssumption, SameWorkers, SameRequests DEF TypeOK, platform
<1>1. CASE Panic(w)
      BY <1>1, ReturnsOK DEF Panic, Fault
<1>2. CASE TimesOut(w)
  <2>1. WorkersOK'
        BY <1>2, StepSet DEF TimesOut
  <2>2. RequestsOK'
        BY <1>2, OrphanedOK DEF TimesOut
  <2> QED
      BY <1>2, <2>1, <2>2 DEF TimesOut, Fault
<1>3. CASE RedisFails(w)
  <2>1. (worker[w].paused \/ (worker[w].outcome = "requeue" /\ ~Interrupted(w))) \in BOOLEAN
        BY <1>3 DEF WorkersOK, Goroutine, Interrupted
  <2>2. WorkersOK'
        BY <1>3, <2>1, RestsOK, MarkedOK DEF RedisFails
  <2>3. faults' \in Nat
        BY <1>3 DEF RedisFails, Fault
  <2> QED
      BY <1>3, <2>2, <2>3 DEF RedisFails
<1>4. CASE Terminate(w)
  <2>1. WorkersOK'
        BY <1>4, ModeSet DEF Terminate
  <2> QED
      BY <1>4, <2>1 DEF Terminate, Fault
<1>5. CASE Crash(w)
  <2>1. WorkersOK'
        BY <1>5, GoneOK DEF Crash
  <2>2. RequestsOK'
        BY <1>5, OrphanedOK DEF Crash
  <2> QED
      BY <1>5, <2>1, <2>2 DEF Crash, Fault
<1> QED
    BY <1>1, <1>2, <1>3, <1>4, <1>5 DEF WorkerFault

LEMMA CallbackTyped ==
  ASSUME TypeOK, NEW r \in Requests, CallbackStep(r)
  PROVE  TypeOK'
<1> USE PipelineAssumption, SameWorkers, SameRequests DEF TypeOK, platform
<1>1. CASE Receive(r)
      BY <1>1, AnswerOK, HurriedOK DEF Receive
<1>2. CASE Store(r)
  <2>1. request[r].job \in Jobs /\ request[r].result \in Verdicts \cup {"none"}
        BY <1>2 DEF Store, RequestsOK, Callback
  <2>2. row' \in [Jobs -> [verdict : Verdicts \cup {"none"}, named : BOOLEAN]]
        BY <1>2, <2>1, VerdictSet DEF Store
  <2>3. RequestsOK'
        BY <1>2, AnswerOK DEF Store
  <2> QED
      BY <1>2, <2>2, <2>3 DEF Store
<1>3. CASE CloseExpired(r)
      BY <1>3, AnswerOK DEF CloseExpired, Verdicts
<1> QED
    BY <1>1, <1>2, <1>3 DEF CallbackStep

LEMMA LockTyped ==
  ASSUME TypeOK, NEW w \in Workers,
         Renew(w) \/ RecoverStalled(w) \/ (\E j \in Jobs : Claim(w, j))
  PROVE  TypeOK'
<1> USE PipelineAssumption, SameWorkers, SameRequests DEF TypeOK, platform
<1>1. CASE Renew(w)
      BY <1>1 DEF Renew
<1>2. CASE RecoverStalled(w)
      BY <1>2, RecoveredOK DEF RecoverStalled
<1>3. CASE \E j \in Jobs : Claim(w, j)
      BY <1>3, ClaimOK DEF Claim
<1> QED
    BY <1>1, <1>2, <1>3

LEMMA PlatformTyped ==
  ASSUME TypeOK, LmsDown \/ LmsUp \/ DockerDown \/ DockerUp
  PROVE  TypeOK'
<1> USE PipelineAssumption, SameWorkers, SameRequests DEF TypeOK, platform
<1>1. CASE LmsDown
  <2>1. WorkersOK' /\ RequestsOK'
        BY <1>1, LmsDownOK
  <2>2. faults' = faults + 1
        BY <1>1 DEF LmsDown, Fault
  <2>3. lms' \in BOOLEAN
        BY <1>1 DEF LmsDown
  <2>4. UNCHANGED <<row, dispatch, job, marked, expired, docker>>
        BY <1>1 DEF LmsDown
  <2> QED
      BY <2>1, <2>2, <2>3, <2>4
<1>2. CASE LmsUp
      BY <1>2 DEF LmsUp
<1>3. CASE DockerDown
  <2>1. WorkersOK'
        BY <1>3, DockerDownOK
  <2>2. faults' = faults + 1
        BY <1>3 DEF DockerDown, Fault
  <2>3. docker' \in BOOLEAN
        BY <1>3 DEF DockerDown
  <2>4. UNCHANGED <<row, dispatch, job, marked, request, expired, lms>>
        BY <1>3 DEF DockerDown
  <2> QED
      BY <2>1, <2>2, <2>3, <2>4
<1>4. CASE DockerUp
      BY <1>4 DEF DockerUp
<1> QED
    BY <1>1, <1>2, <1>3, <1>4

LEMMA NextTyped ==
  ASSUME TypeOK, [Next]_vars
  PROVE  TypeOK'
<1>1. CASE UNCHANGED vars
      BY <1>1, SameWorkers, SameRequests DEF vars, TypeOK
<1>2. CASE \E j \in Jobs : DispatchStep(j) \/ QueueStep(j)
      BY <1>2, DispatchTyped, QueueTyped
<1>3. CASE \E w \in Workers :
             \/ WorkStep(w) \/ ProcessStep(w) \/ WorkerFault(w)
             \/ Renew(w) \/ RecoverStalled(w)
             \/ \E j \in Jobs : Claim(w, j)
      BY <1>3, WorkTyped, ProcessTyped, FaultTyped, LockTyped
<1>4. CASE \E r \in Requests : CallbackStep(r)
      BY <1>4, CallbackTyped
<1>5. CASE LmsDown \/ LmsUp \/ DockerDown \/ DockerUp
      BY <1>5, PlatformTyped
<1> QED
    BY <1>1, <1>2, <1>3, <1>4, <1>5 DEF Next

\* Type correctness, whatever goes wrong and however often: who is idle has no
\* job, and no goroutine reports and no callback carries an empty result
\* (pool.execute, Service.deliver).
THEOREM PipelineTypeCorrect == SafeSpec => []TypeOK
<1>1. Init => TypeOK
      BY InitTyped
<1>2. TypeOK /\ [Next]_vars => TypeOK'
      BY NextTyped
<1> QED
    BY <1>1, <1>2, PTL DEF SafeSpec

------------------------------------------------------------------------------
(* The actions that write each part of the state.                            *)

JobStep ==
  \/ \E j \in Jobs : Enqueue(j) \/ DispatchThrows(j) \/ Promote(j) \/ Lapse(j)
  \/ \E w \in Workers :
       \/ MarkProcessed(w) \/ Complete(w) \/ Release(w) \/ Fail(w)
       \/ ReleaseInFlight(w) \/ RecoverStalled(w)
       \/ \E j \in Jobs : Claim(w, j)

RowStep ==
  \/ \E j \in Jobs : NameJob(j) \/ MarkUnqueued(j)
  \/ \E r \in Requests : Store(r) \/ CloseExpired(r)

RequestStep ==
  \/ \E w \in Workers :
       \/ AwaitInterrupted(w) \/ TimesOut(w) \/ Exit(w) \/ Crash(w)
       \/ \E r \in Requests : Send(w, r) \/ Answered(w, r)
  \/ \E r \in Requests : Receive(r) \/ Store(r) \/ CloseExpired(r)
  \/ LmsDown

Framed ==
  /\ UNCHANGED job \/ JobStep
  /\ UNCHANGED row \/ RowStep
  /\ UNCHANGED request \/ RequestStep

LEMMA Frames ==
  ASSUME Next
  PROVE  Framed
<1> USE DEF Framed
<1>1. ASSUME NEW j \in Jobs, DispatchStep(j) \/ QueueStep(j)
      PROVE  Framed
      BY <1>1
         DEF DispatchStep, QueueStep, Enqueue, NameJob, MarkUnqueued, DispatchThrows,
             DispatcherDies, Promote, Lapse, Expire, JobStep, RowStep
<1>2. ASSUME NEW w \in Workers, WorkStep(w)
      PROVE  Framed
      BY <1>2, Zenon
         DEF WorkStep, Execute, Judge, HoldEnds, AwaitInterrupted, MarkProcessed, Complete,
             Release, Fail, Unpause, Send, Answered, JobStep, RequestStep
<1>3. ASSUME NEW w \in Workers, ProcessStep(w) \/ WorkerFault(w)
      PROVE  Framed
      BY <1>3, Zenon
         DEF ProcessStep, GraceEnds, ReleaseInFlight, Exit, Start, WorkerFault, Panic,
             TimesOut, RedisFails, Terminate, Crash, JobStep, RequestStep
<1>4. ASSUME NEW w \in Workers,
             Renew(w) \/ RecoverStalled(w) \/ (\E j \in Jobs : Claim(w, j))
      PROVE  Framed
      BY <1>4, Zenon DEF Renew, RecoverStalled, Claim, JobStep
<1>5. ASSUME NEW r \in Requests, CallbackStep(r)
      PROVE  Framed
      BY <1>5 DEF CallbackStep, Receive, Store, CloseExpired, RowStep, RequestStep
<1>6. CASE LmsDown \/ LmsUp \/ DockerDown \/ DockerUp
      BY <1>6 DEF LmsDown, LmsUp, DockerDown, DockerUp, RequestStep
<1> QED
    BY <1>1, <1>2, <1>3, <1>4, <1>5, <1>6 DEF Next

------------------------------------------------------------------------------
(* Where a step can move a job, and who can finish it.                       *)

Finisher(w, j) ==
  /\ worker[w].job = j /\ Holds(w, j)
  /\ worker'[w] # worker[w]

Stays(j) == job'[j].place = job[j].place /\ job'[j].lock = job[j].lock
Joins(j) == /\ job[j].place \in {"absent", "delayed"}
            /\ job'[j].lock = job[j].lock
Starts(j) == job[j].place = "wait" /\ job'[j].place = "active"
Lapses(j) == job'[j].place = job[j].place /\ job'[j].lock = NoWorker
Leaves(j) == job'[j].lock = NoWorker /\ \E w \in Workers : Finisher(w, j)
Recovers(j) == job[j].lock = NoWorker /\ job'[j].lock = NoWorker

Moves(j) ==
  Stays(j) \/ Joins(j) \/ Starts(j) \/ Lapses(j) \/ Leaves(j) \/ Recovers(j)

\* A finishing script that is not refused was called by the holder.
LEMMA FinisherMoves ==
  ASSUME TypeOK, NEW w \in Workers, worker[w].job \in Jobs, worker'[w] # worker[w],
         NEW p \in Places,
         Released(w, worker[w].job) \/ Finished(w, worker[w].job, p),
         NEW j \in Jobs
  PROVE  Moves(j)
<1>1. CASE ~Holds(w, worker[w].job)
      BY <1>1 DEF Released, Finished, Moves, Stays
<1>2. CASE Holds(w, worker[w].job) /\ j = worker[w].job
  <2>1. job'[j].lock = NoWorker
        BY <1>2, UnlockedOK, OnceMoreOK DEF Released, Finished, TypeOK, Places
  <2> QED
      BY <1>2, <2>1 DEF Moves, Leaves, Finisher
<1>3. CASE Holds(w, worker[w].job) /\ j # worker[w].job
      BY <1>3 DEF Released, Finished, Moves, Stays, TypeOK
<1> QED
    BY <1>1, <1>2, <1>3

LEMMA RestsMoves ==
  ASSUME TypeOK, NEW w \in Workers, NEW p, Rests(w, p), worker[w].step # "idle"
  PROVE  worker[w].job \in Jobs /\ worker'[w] # worker[w]
BY DEF TypeOK, WorkersOK, Goroutine, Rests

LEMMA JobMoves ==
  ASSUME TypeOK, JobStep, NEW j \in Jobs
  PROVE  Moves(j)
<1>1. ASSUME NEW k \in Jobs, Enqueue(k) \/ DispatchThrows(k) \/ Promote(k)
      PROVE  Moves(j)
  <2> DEFINE waits == [job EXCEPT ![k].place = "wait"]
  <2>1. waits[j].lock = job[j].lock /\ (j # k => waits[j] = job[j])
        BY DEF TypeOK, JobRecord
  <2>2. job' = job \/ (job[k].place \in {"absent", "delayed"} /\ job' = waits)
        BY <1>1 DEF Enqueue, DispatchThrows, Promote, Added
  <2> QED
      BY <2>1, <2>2 DEF Moves, Stays, Joins
<1>2. CASE \E k \in Jobs : Lapse(k)
      BY <1>2 DEF Lapse, TypeOK, JobRecord, Moves, Stays, Lapses
<1>3. CASE \E w \in Workers : MarkProcessed(w)
      BY <1>3 DEF MarkProcessed, TypeOK, JobRecord, Moves, Stays
<1>4. ASSUME NEW w \in Workers, Complete(w) \/ Release(w) \/ Fail(w)
      PROVE  Moves(j)
  <2>1. worker[w].job \in Jobs /\ worker'[w] # worker[w]
        BY <1>4, RestsMoves DEF Complete, Release, Fail
  <2>2. \/ Released(w, worker[w].job)
        \/ \E p \in Places : Finished(w, worker[w].job, p)
        BY <1>4 DEF Complete, Release, Fail, Places
  <2> QED
      BY <2>1, <2>2, FinisherMoves DEF Places
<1>5. ASSUME NEW w \in Workers, ReleaseInFlight(w)
      PROVE  Moves(j)
  <2>1. worker[w].job \in Jobs /\ worker'[w] # worker[w]
        BY <1>5 DEF ReleaseInFlight,
             TypeOK, WorkersOK, Goroutine
  <2> QED
      BY <1>5, <2>1, FinisherMoves DEF ReleaseInFlight, Places
<1>6. ASSUME NEW w \in Workers, RecoverStalled(w)
      PROVE  Moves(j)
      BY <1>6, RecoveredOK DEF RecoverStalled, Stalled, Moves, Stays, Recovers
<1>7. CASE \E w \in Workers, k \in Jobs : Claim(w, k)
      BY <1>7 DEF Claim, TypeOK, JobRecord, Moves, Stays, Starts
<1> QED
    BY <1>1, <1>2, <1>3, <1>4, <1>5, <1>6, <1>7 DEF JobStep

LEMMA LocksKept ==
  ASSUME TypeOK, OnlyActiveJobsAreLocked, [Next]_vars
  PROVE  /\ OnlyActiveJobsAreLocked'
         /\ \A j \in Jobs, w \in Workers :
              Holds(w, j) /\ job'[j].place # "active" => worker'[w] # worker[w]
<1>1. job' = job \/ \A j \in Jobs : Moves(j)
      BY Frames, JobMoves DEF Framed, vars
<1> QED
    BY <1>1, PipelineAssumption
       DEF OnlyActiveJobsAreLocked, Holds, Moves, Stays, Joins, Starts, Lapses, Leaves,
           Recovers, Finisher

\* Only active jobs are locked, through every claim, finish, lapse, recovery and
\* release by stale workers (BullMQ's scripts and the pool).
THEOREM LocksAreActive == SafeSpec => []OnlyActiveJobsAreLocked
<1>1. Init => OnlyActiveJobsAreLocked
      BY DEF Init, OnlyActiveJobsAreLocked
<1>2. TypeOK /\ OnlyActiveJobsAreLocked /\ [Next]_vars => OnlyActiveJobsAreLocked'
      BY LocksKept
<1> QED
    BY <1>1, <1>2, PipelineTypeCorrect, PTL DEF SafeSpec

\* While a worker holds the lock of a job, the job leaves the active list by a
\* step of that worker only: the stalled check and stale workers never take it.
THEOREM HoldersKeepJobs == SafeSpec => HolderKeepsJob
<1>1. /\ TypeOK /\ OnlyActiveJobsAreLocked /\ [Next]_vars
      => [\A j \in Jobs, w \in Workers :
            Holds(w, j) /\ job'[j].place # "active" => worker'[w] # worker[w]]_vars
      BY LocksKept
<1> QED
    BY <1>1, PipelineTypeCorrect, LocksAreActive, PTL DEF SafeSpec, HolderKeepsJob

------------------------------------------------------------------------------
(* What a step does to the goroutines: who stops waiting for an answer, and  *)
(* who is about to mark or complete its job.                                 *)

Reported(j) == row[j].verdict # "none"

Finishing(w) ==
  worker[w].step = "complete" \/ (worker[w].step = "finish" /\ worker[w].outcome = "done")

KeepsJob(w) == worker'[w].job = worker[w].job

Goes(w) == /\ KeepsJob(w)
           /\ worker'[w].step = worker[w].step \/ worker[w].step # "await"
           /\ Finishing(w)' => Finishing(w)
Turns(w) == worker[w].step # "await" /\ ~Finishing(w)'
Takes(w) == /\ worker[w].step # "await"
            /\ \E j \in Jobs : job[j].processed /\ worker'[w].job = j
Hears(w) == KeepsJob(w) /\ \E r \in Requests : Answered(w, r)
Drops(w) == /\ AwaitInterrupted(w) \/ TimesOut(w) \/ Exit(w) \/ Crash(w) \/ LmsDown
            /\ ~Finishing(w)'

Acts(w) == Goes(w) \/ Turns(w) \/ Takes(w) \/ Hears(w) \/ Drops(w)

LEMMA ReturnsActs ==
  ASSUME TypeOK, NEW w \in Workers, NEW o, Returns(w, o), NEW v \in Workers
  PROVE  /\ v # w => worker'[v] = worker[v]
         /\ worker'[w].step = "finish" /\ worker'[w].outcome = o /\ KeepsJob(w)
BY DEF TypeOK, WorkersOK, Goroutine, Returns, KeepsJob

LEMMA RestsActs ==
  ASSUME TypeOK, NEW w \in Workers, NEW p, Rests(w, p), NEW v \in Workers
  PROVE  /\ v # w => worker'[v] = worker[v]
         /\ worker'[w].step = "idle"
BY DEF TypeOK, WorkersOK, Goroutine, Rests

LEMMA SameActs ==
  ASSUME NEW v \in Workers, worker'[v] = worker[v]
  PROVE  Acts(v)
BY DEF Acts, Goes, KeepsJob, Finishing

LEMMA WorkActs ==
  ASSUME TypeOK, NEW w \in Workers, WorkStep(w), NEW v \in Workers
  PROVE  Acts(v)
<1>1. CASE Execute(w)
      BY <1>1, SameActs
         DEF Execute, Acts, Goes, Turns, Takes, Hears, Drops, KeepsJob, Finishing,
             TypeOK, WorkersOK, Goroutine
<1>2. CASE Judge(w)
      BY <1>2, SameActs, ReturnsActs
         DEF Judge, Acts, Goes, Turns, Takes, Hears, Drops, KeepsJob, Finishing,
             TypeOK, WorkersOK, Goroutine
<1>3. CASE HoldEnds(w)
      BY <1>3, SameActs, ReturnsActs DEF HoldEnds, Acts, Turns, Finishing
<1>4. CASE AwaitInterrupted(w)
      BY <1>4, SameActs, ReturnsActs DEF AwaitInterrupted, Acts, Drops, Finishing
<1>5. CASE MarkProcessed(w)
      BY <1>5, SameActs
         DEF MarkProcessed, Acts, Goes, Turns, Takes, Hears, Drops, KeepsJob, Finishing,
             TypeOK, WorkersOK, Goroutine
<1>6. CASE Complete(w)
      BY <1>6, SameActs, RestsActs DEF Complete, Acts, Turns, Finishing
<1>7. CASE Release(w)
      BY <1>7, SameActs, RestsActs DEF Release, Acts, Turns, Finishing
<1>8. CASE Fail(w)
      BY <1>8, SameActs, RestsActs DEF Fail, Acts, Turns, Finishing
<1>9. CASE Unpause(w)
      BY <1>9, SameActs
         DEF Unpause, Acts, Goes, Turns, Takes, Hears, Drops, KeepsJob, Finishing,
             TypeOK, WorkersOK, Goroutine
<1>10. CASE \E r \in Requests : Send(w, r)
      BY <1>10, SameActs
         DEF Send, Acts, Goes, Turns, Takes, Hears, Drops, KeepsJob, Finishing,
             TypeOK, WorkersOK, Goroutine
<1>11. ASSUME NEW r \in Requests, Answered(w, r)
       PROVE  Acts(v)
  <2>1. Returns(w, Outcome(w, request[r].step))
        BY <1>11 DEF Answered
  <2>2. KeepsJob(w) /\ (v # w => worker'[v] = worker[v])
        BY <2>1, ReturnsActs
  <2>3. Hears(w)
        BY <1>11, <2>2 DEF Hears
  <2> QED
      BY <2>2, <2>3, SameActs DEF Acts
<1> QED
    BY <1>1, <1>2, <1>3, <1>4, <1>5, <1>6, <1>7, <1>8, <1>9, <1>10, <1>11 DEF WorkStep

LEMMA ProcessActs ==
  ASSUME TypeOK, NEW w \in Workers, ProcessStep(w) \/ WorkerFault(w), NEW v \in Workers
  PROVE  Acts(v)
<1>1. CASE GraceEnds(w)
  <2>1. /\ v # w => worker'[v] = worker[v]
        /\ KeepsJob(w) /\ worker'[w].step = worker[w].step
        /\ worker'[w].outcome = worker[w].outcome
        BY <1>1 DEF GraceEnds, KeepsJob, TypeOK, WorkersOK, Goroutine
  <2> QED
      BY <2>1, SameActs DEF Acts, Goes, Finishing
<1>2. CASE ReleaseInFlight(w)
  <2>1. /\ v # w => worker'[v] = worker[v]
        /\ KeepsJob(w) /\ worker'[w].step = worker[w].step
        /\ worker'[w].outcome = worker[w].outcome
        BY <1>2 DEF ReleaseInFlight, KeepsJob, TypeOK, WorkersOK, Goroutine
  <2> QED
      BY <2>1, SameActs DEF Acts, Goes, Finishing
<1>3. CASE Exit(w)
  <2>1. (v # w => worker'[v] = worker[v]) /\ worker'[w].step = "idle"
        BY <1>3 DEF Exit, Gone, Resting, TypeOK, WorkersOK, Goroutine
  <2> QED
      BY <1>3, <2>1, SameActs DEF Acts, Drops, Finishing
<1>4. CASE Start(w)
  <2>1. /\ v # w => worker'[v] = worker[v]
        /\ KeepsJob(w) /\ worker'[w].step = worker[w].step
        /\ worker'[w].outcome = worker[w].outcome
        BY <1>4 DEF Start, KeepsJob, TypeOK, WorkersOK, Goroutine
  <2> QED
      BY <2>1, SameActs DEF Acts, Goes, Finishing
<1>5. CASE Panic(w)
      BY <1>5, SameActs, ReturnsActs DEF Panic, Acts, Turns, Finishing
<1>6. CASE TimesOut(w)
  <2>1. (v # w => worker'[v] = worker[v]) /\ worker'[w].step = "deliver"
        BY <1>6 DEF TimesOut, TypeOK, WorkersOK, Goroutine
  <2> QED
      BY <1>6, <2>1, SameActs DEF Acts, Drops, Finishing
<1>7. CASE RedisFails(w)
  <2>1. CASE worker[w].step = "finish" /\ worker[w].outcome = "done"
    <3>1. /\ v # w => worker'[v] = worker[v]
          /\ KeepsJob(w) /\ worker'[w].step = "complete"
          BY <1>7, <2>1 DEF RedisFails, KeepsJob, TypeOK, WorkersOK, Goroutine
    <3> QED
        BY <2>1, <3>1, SameActs DEF Acts, Goes, Finishing
  <2>2. CASE ~(worker[w].step = "finish" /\ worker[w].outcome = "done")
        BY <1>7, <2>2, SameActs, RestsActs DEF RedisFails, Acts, Turns, Finishing
  <2> QED
      BY <2>1, <2>2
<1>8. CASE Terminate(w)
  <2>1. /\ v # w => worker'[v] = worker[v]
        /\ KeepsJob(w) /\ worker'[w].step = worker[w].step
        /\ worker'[w].outcome = worker[w].outcome
        BY <1>8 DEF Terminate, KeepsJob, TypeOK, WorkersOK, Goroutine
  <2> QED
      BY <2>1, SameActs DEF Acts, Goes, Finishing
<1>9. CASE Crash(w)
  <2>1. (v # w => worker'[v] = worker[v]) /\ worker'[w].step = "idle"
        BY <1>9 DEF Crash, Gone, Resting, TypeOK, WorkersOK, Goroutine
  <2> QED
      BY <1>9, <2>1, SameActs DEF Acts, Drops, Finishing
<1> QED
    BY <1>1, <1>2, <1>3, <1>4, <1>5, <1>6, <1>7, <1>8, <1>9 DEF ProcessStep, WorkerFault

LEMMA ClaimActs ==
  ASSUME TypeOK, NEW w \in Workers, NEW j \in Jobs, Claim(w, j), NEW v \in Workers
  PROVE  Acts(v)
<1>1. /\ worker[w].step = "idle" /\ (v # w => worker'[v] = worker[v])
      /\ worker'[w].job = j /\ worker'[w].step = Begins(j).step
      BY DEF Claim,
             TypeOK, WorkersOK, Goroutine
<1> QED
    BY <1>1, SameActs, BeginsOK DEF Acts, Turns, Takes, Finishing

LEMMA PlatformActs ==
  ASSUME TypeOK, LmsDown \/ DockerDown, NEW v \in Workers
  PROVE  Acts(v)
<1>1. CASE LmsDown
      BY <1>1 DEF LmsDown, Acts, Goes, Drops, KeepsJob, Finishing,
             TypeOK, WorkersOK, Goroutine
<1>2. CASE DockerDown
      BY <1>2 DEF DockerDown, Acts, Goes, KeepsJob, Finishing,
             TypeOK, WorkersOK, Goroutine
<1> QED
    BY <1>1, <1>2

LEMMA EveryoneActs ==
  ASSUME TypeOK, Next, NEW v \in Workers
  PROVE  Acts(v)
<1>1. CASE \E j \in Jobs : DispatchStep(j) \/ QueueStep(j)
      BY <1>1, SameActs
         DEF DispatchStep, QueueStep, Enqueue, NameJob, MarkUnqueued, DispatchThrows,
             DispatcherDies, Promote, Lapse, Expire
<1>2. ASSUME NEW w \in Workers,
             \/ WorkStep(w) \/ ProcessStep(w) \/ WorkerFault(w)
             \/ \E j \in Jobs : Claim(w, j)
      PROVE  Acts(v)
      BY <1>2, WorkActs, ProcessActs, ClaimActs
<1>3. CASE \E w \in Workers : Renew(w) \/ RecoverStalled(w)
      BY <1>3, SameActs DEF Renew, RecoverStalled
<1>4. CASE \E r \in Requests : CallbackStep(r)
      BY <1>4, SameActs DEF CallbackStep, Receive, Store, CloseExpired
<1>5. CASE LmsUp \/ DockerUp
      BY <1>5, SameActs DEF LmsUp, DockerUp
<1> QED
    BY <1>1, <1>2, <1>3, <1>4, <1>5, PlatformActs DEF Next

------------------------------------------------------------------------------
(* No completion runs ahead of its report.                                   *)

AcceptedIsReported ==
  \A r \in Requests : request[r].step = "accepted" => Reported(request[r].job)

FinishingIsReported ==
  \A w \in Workers : Finishing(w) => Reported(worker[w].job)

\* Whom a request answers is waiting for it, and for no other.
WaitersAwait ==
  \A r \in Requests :
    LET w == request[r].waiter IN
    w # NoWorker => worker[w].step = "await" /\ worker[w].job = request[r].job

OneCall ==
  \A q, r \in Requests :
    request[q].waiter = request[r].waiter => q = r \/ request[r].waiter = NoWorker

ReportInv ==
  /\ ReportedBeforeDone
  /\ AcceptedIsReported
  /\ FinishingIsReported
  /\ WaitersAwait
  /\ OneCall

\* No write takes a verdict away.
LEMMA VerdictsStay ==
  ASSUME TypeOK, [Next]_vars, NEW j \in Jobs, Reported(j)
  PROVE  Reported(j)'
<1>1. CASE UNCHANGED row
      BY <1>1 DEF Reported
<1>2. ASSUME NEW k \in Jobs, NameJob(k)
      PROVE  Reported(j)'
      BY <1>2 DEF NameJob, Reported, TypeOK
<1>5. ASSUME NEW k \in Jobs, MarkUnqueued(k)
      PROVE  Reported(j)'
      BY <1>5 DEF MarkUnqueued, Reported, TypeOK
<1>3. ASSUME NEW r \in Requests, Store(r)
      PROVE  Reported(j)'
  <2>1. request[r].result # "none"
        BY <1>3 DEF Store, TypeOK, RequestsOK
  <2> QED
      BY <1>3, <2>1 DEF Store, Reported, TypeOK
<1>4. CASE \E r \in Requests : CloseExpired(r)
      BY <1>4 DEF CloseExpired, Reported, TypeOK
<1> QED
    BY <1>1, <1>2, <1>3, <1>4, <1>5, Frames DEF Framed, RowStep, vars

Waits(r) ==
  \/ request'[r].waiter = NoWorker
  \/ request'[r].waiter = request[r].waiter /\ request'[r].job = request[r].job
  \/ \E w \in Workers : request'[r].waiter = w /\ Send(w, r)

Accepts(r) ==
  request'[r].step = "accepted" =>
    \/ request[r].step = "accepted" /\ request'[r].job = request[r].job
    \/ row'[request'[r].job].verdict # "none"

LEMMA AnswerWaits ==
  ASSUME TypeOK, NEW q \in Requests, NEW a \in {"accepted", "refused"}, Answer(q, a),
         a = "accepted" => row'[request[q].job].verdict # "none",
         NEW r \in Requests
  PROVE  Waits(r) /\ Accepts(r)
BY DEF Answer, Free, Waits, Accepts, TypeOK, RequestsOK, Callback

LEMMA OrphanedWaits ==
  ASSUME TypeOK, NEW w \in Workers, request' = Orphaned(w), NEW r \in Requests
  PROVE  Waits(r) /\ Accepts(r)
BY DEF Orphaned, Free, Waits, Accepts, TypeOK, RequestsOK, Callback

LEMMA RequestsMove ==
  ASSUME TypeOK, RequestStep, NEW r \in Requests
  PROVE  Waits(r) /\ Accepts(r)
<1>1. CASE \E w \in Workers : AwaitInterrupted(w) \/ TimesOut(w) \/ Exit(w) \/ Crash(w)
      BY <1>1, OrphanedWaits DEF AwaitInterrupted, TimesOut, Exit, Crash
<1>2. ASSUME NEW w \in Workers, NEW q \in Requests, Send(w, q)
      PROVE  Waits(r) /\ Accepts(r)
  <2>1. CASE r = q
        BY <1>2, <2>1 DEF Send, Waits, Accepts, TypeOK, RequestsOK
  <2>2. CASE r # q
        BY <1>2, <2>2 DEF Send, Waits, Accepts, TypeOK, RequestsOK
  <2> QED
      BY <2>1, <2>2
<1>3. CASE \E w \in Workers, q \in Requests : Answered(w, q)
      BY <1>3 DEF Answered, Free, Waits, Accepts, TypeOK, RequestsOK, Callback
<1>4. ASSUME NEW q \in Requests, Receive(q)
      PROVE  Waits(r) /\ Accepts(r)
  <2>1. request[q].job \in Jobs
        BY <1>4 DEF Receive, TypeOK, RequestsOK
  <2>2. \/ \E s \in {"close", "store"} : request' = [request EXCEPT ![q].step = s]
        \/ Answer(q, "refused")
        \/ row[request[q].job].verdict # "none" /\ Answer(q, "accepted")
        BY <1>4 DEF Receive
  <2>3. row' = row
        BY <1>4 DEF Receive
  <2>4. CASE \E s \in {"close", "store"} : request' = [request EXCEPT ![q].step = s]
        BY <2>4 DEF Waits, Accepts, TypeOK, RequestsOK, Callback
  <2>5. CASE Answer(q, "refused")
        BY <2>1, <2>5, AnswerWaits
  <2>6. CASE row[request[q].job].verdict # "none" /\ Answer(q, "accepted")
        BY <2>1, <2>3, <2>6, AnswerWaits
  <2> QED
      BY <2>2, <2>4, <2>5, <2>6
<1>5. ASSUME NEW q \in Requests, Store(q)
      PROVE  Waits(r) /\ Accepts(r)
  <2>1. request[q].job \in Jobs /\ request[q].result # "none"
        BY <1>5 DEF Store, TypeOK, RequestsOK
  <2>2. row'[request[q].job].verdict # "none"
        BY <1>5, <2>1 DEF Store, TypeOK
  <2> QED
      BY <1>5, <2>1, <2>2, AnswerWaits DEF Store
<1>6. ASSUME NEW q \in Requests, CloseExpired(q)
      PROVE  Waits(r) /\ Accepts(r)
  <2>1. request[q].job \in Jobs
        BY <1>6 DEF CloseExpired, TypeOK, RequestsOK
  <2> QED
      BY <1>6, <2>1, AnswerWaits DEF CloseExpired
<1>7. CASE LmsDown
      BY <1>7 DEF LmsDown, Free, Waits, Accepts
<1> QED
    BY <1>1, <1>2, <1>3, <1>4, <1>5, <1>6, <1>7 DEF RequestStep

\* Who stops waiting has no request left that waits for it.
LEMMA WaitersKept ==
  ASSUME TypeOK, Next, WaitersAwait, OneCall
  PROVE  WaitersAwait' /\ OneCall'
<1>1. \A r \in Requests : Waits(r)
      BY RequestsMove, Frames DEF Framed, Waits
<1>2. ASSUME NEW r \in Requests, NEW w \in Workers, Send(w, r)
      PROVE  /\ worker[w].step = "deliver"
             /\ worker'[w].step = "await" /\ worker'[w].job = worker[w].job
             /\ request'[r].job = worker[w].job
             /\ \A q \in Requests : q # r => request'[q] = request[q]
      BY <1>2 DEF Send, TypeOK, WorkersOK, RequestsOK, Goroutine
<1>3. ASSUME NEW r \in Requests, NEW w \in Workers, request'[r].waiter = w
      PROVE  worker'[w].step = "await" /\ worker'[w].job = request'[r].job
  <2> USE PipelineAssumption
  <2>1. CASE Send(w, r)
        BY <2>1, <1>2
  <2>2. CASE w = request[r].waiter /\ request'[r].job = request[r].job
    <3>1. worker[w].step = "await" /\ worker[w].job = request[r].job
          BY <2>2 DEF WaitersAwait
    <3>2. Acts(w)
          BY EveryoneActs
    <3>3. ~Hears(w)
          BY <3>1, <2>2, <1>3 DEF Hears, Answered, Free, OneCall, TypeOK, RequestsOK
    <3>4. request' # Orphaned(w)
      <4>1. Orphaned(w)[r].waiter = NoWorker
            BY <2>2 DEF Orphaned, Free, TypeOK, RequestsOK, Callback
      <4> QED
          BY <4>1, <1>3
    <3>5. ~LmsDown
          BY <1>3 DEF LmsDown, Free
    <3>6. ~Drops(w)
          BY <3>4, <3>5 DEF Drops, AwaitInterrupted, TimesOut, Exit, Crash
    <3> QED
        BY <3>1, <3>2, <3>3, <3>6, <2>2 DEF Acts, Goes, Turns, Takes, KeepsJob
  <2> QED
      BY <1>1, <1>3, <2>1, <2>2 DEF Waits
<1>4. ASSUME NEW q \in Requests, NEW r \in Requests, q # r,
             request'[q].waiter = request'[r].waiter, request'[r].waiter # NoWorker
      PROVE  FALSE
  <2>1. ASSUME NEW p \in Requests, NEW o \in Requests, p # o,
               request'[p].waiter = request'[o].waiter, request'[o].waiter # NoWorker,
               NEW w \in Workers, request'[p].waiter = w, Send(w, p)
        PROVE  FALSE
    <3>1. worker[w].step = "deliver" /\ request[o].waiter = w
          BY <2>1, <1>2
    <3>2. w # NoWorker
          BY PipelineAssumption
    <3> QED
        BY <3>1, <3>2 DEF WaitersAwait
  <2> QED
      BY <2>1, <1>1, <1>4 DEF Waits, OneCall
<1>5. WaitersAwait'
      BY <1>3, NextTyped DEF WaitersAwait, TypeOK, RequestsOK, Callback
<1>6. OneCall'
      BY <1>4 DEF OneCall
<1> QED
    BY <1>5, <1>6

LEMMA AcceptedKept ==
  ASSUME TypeOK, Next, AcceptedIsReported
  PROVE  AcceptedIsReported'
<1>1. ASSUME NEW r \in Requests
      PROVE  Accepts(r)
      BY RequestsMove, Frames DEF Framed, Accepts
<1>2. ASSUME NEW r \in Requests, request'[r].step = "accepted"
      PROVE  row'[request'[r].job].verdict # "none"
  <2>1. CASE request[r].step = "accepted" /\ request'[r].job = request[r].job
    <3>1. request[r].job \in Jobs /\ Reported(request[r].job)
          BY <2>1 DEF AcceptedIsReported, TypeOK, RequestsOK
    <3>2. \A j \in Jobs : Reported(j) => row'[j].verdict # "none"
          BY VerdictsStay DEF Reported
    <3> QED
        BY <3>1, <3>2, <2>1
  <2> QED
      BY <2>1, <1>1, <1>2 DEF Accepts
<1> QED
    BY <1>2 DEF AcceptedIsReported, Reported

LEMMA FinishingKept ==
  ASSUME TypeOK, Next, ReportInv
  PROVE  FinishingIsReported'
<1> USE DEF ReportInv
<1>1. ASSUME NEW w \in Workers, Finishing(w)'
      PROVE  row'[worker'[w].job].verdict # "none"
  <2>1. Acts(w)
        BY EveryoneActs
  <2>2. \A j \in Jobs : Reported(j) => row'[j].verdict # "none"
        BY VerdictsStay DEF Reported
  <2>3. worker'[w].job = worker[w].job => worker[w].job \in Jobs
        <3>1. worker'[w].step # "idle"
              BY <1>1 DEF Finishing
        <3>2. TypeOK'
              BY NextTyped
        <3> QED
            BY <3>1, <3>2 DEF TypeOK, WorkersOK, Goroutine
  <2>4. CASE Goes(w)
        BY <2>4, <2>2, <2>3, <1>1 DEF Goes, KeepsJob, FinishingIsReported
  <2>5. CASE Turns(w) \/ Drops(w)
        BY <2>5, <1>1 DEF Turns, Drops
  <2>6. CASE Takes(w)
        BY <2>6, <2>2 DEF Takes, ReportedBeforeDone, Reported
  <2>7. CASE Hears(w)
    <3>1. PICK r \in Requests : Answered(w, r)
          BY <2>7 DEF Hears
    <3>2. request[r].step = "accepted"
      <4>1. worker'[w].step = "finish" /\ worker'[w].outcome = Outcome(w, request[r].step)
            BY <3>1, ReturnsActs DEF Answered
      <4> QED
          BY <4>1, <3>1, <1>1 DEF Finishing, Outcome, Answered
    <3>3. worker[w].job = request[r].job
          BY <3>1, PipelineAssumption DEF Answered, WaitersAwait
    <3>4. Reported(worker[w].job)
          BY <3>2, <3>3 DEF AcceptedIsReported
    <3> QED
        BY <2>2, <2>3, <2>7, <3>4 DEF Hears, KeepsJob
  <2> QED
      BY <2>1, <2>4, <2>5, <2>6, <2>7 DEF Acts
<1> QED
    BY <1>1 DEF FinishingIsReported, Reported

JobDone(j) == job[j].processed \/ job[j].place = "completed"

\* Only a goroutine whose report was accepted marks or completes a job.
LEMMA JobsDone ==
  ASSUME TypeOK, JobStep, NEW j \in Jobs, JobDone(j)'
  PROVE  JobDone(j) \/ \E w \in Workers : Finishing(w) /\ worker[w].job = j
<1> USE DEF JobDone
<1>1. CASE \E k \in Jobs : Enqueue(k) \/ DispatchThrows(k) \/ Promote(k) \/ Lapse(k)
  <2>1. PICK k \in Jobs : Enqueue(k) \/ DispatchThrows(k) \/ Promote(k) \/ Lapse(k)
        BY <1>1
  <2>2. job \in [Jobs -> JobRecord]
        BY DEF TypeOK
  <2>3. CASE job' = job \/ job' = [job EXCEPT ![k].place = "wait"]
        BY <2>2, <2>3 DEF JobRecord
  <2>4. CASE job' = [job EXCEPT ![k].lock = NoWorker]
        BY <2>2, <2>4 DEF JobRecord
  <2> QED
      BY <2>1, <2>3, <2>4 DEF Enqueue, DispatchThrows, Promote, Lapse, Added
<1>2. CASE \E w \in Workers : MarkProcessed(w)
      BY <1>2 DEF MarkProcessed, Finishing, TypeOK, JobRecord
<1>3. CASE \E w \in Workers : Complete(w)
      BY <1>3 DEF Complete, Finished, OnceMore, UnlockedAt, Finishing, TypeOK, JobRecord
<1>4. CASE \E w \in Workers : Release(w) \/ ReleaseInFlight(w)
      BY <1>4, UnlockedOK DEF Release, ReleaseInFlight, Released, Places, TypeOK
<1>5. ASSUME NEW w \in Workers, Fail(w)
      PROVE  JobDone(j)
  <2>1. Finished(w, worker[w].job, "failed") \/ Finished(w, worker[w].job, "delayed")
        BY <1>5 DEF Fail
  <2> QED
      BY <2>1, OnceMoreOK DEF Finished, Places, TypeOK
<1>6. CASE \E w \in Workers : RecoverStalled(w)
      BY <1>6, RecoveredOK DEF RecoverStalled
<1>7. CASE \E w \in Workers, k \in Jobs : Claim(w, k)
      BY <1>7 DEF Claim, TypeOK, JobRecord
<1> QED
    BY <1>1, <1>2, <1>3, <1>4, <1>5, <1>6, <1>7 DEF JobStep

LEMMA ReportKept ==
  ASSUME TypeOK, ReportInv, [Next]_vars
  PROVE  ReportInv'
<1>1. CASE UNCHANGED vars
      BY <1>1
         DEF vars, ReportInv, ReportedBeforeDone, AcceptedIsReported, FinishingIsReported,
             WaitersAwait, OneCall, Reported, Finishing
<1>2. CASE Next
  <2>1. ASSUME NEW j \in Jobs, JobDone(j)'
        PROVE  row'[j].verdict # "none"
    <3>1. JobDone(j) \/ \E w \in Workers : Finishing(w) /\ worker[w].job = j
          BY <2>1, <1>2, JobsDone, Frames DEF Framed, JobDone
    <3>2. Reported(j)
          BY <3>1 DEF ReportInv, ReportedBeforeDone, FinishingIsReported, JobDone, Reported
    <3> QED
        BY <3>2, VerdictsStay DEF Reported
  <2>2. ReportedBeforeDone'
        BY <2>1 DEF ReportedBeforeDone, JobDone
  <2> QED
      BY <1>2, <2>2, WaitersKept, AcceptedKept, FinishingKept DEF ReportInv
<1> QED
    BY <1>1, <1>2

\* No mark and no completion runs ahead of the report, with any number of
\* workers, stale ones included, and however often something goes wrong
\* (Service.Process, pool.execute, ingestSubmission).
THEOREM ReportComesFirst == SafeSpec => []ReportedBeforeDone
<1>1. Init => ReportInv
      BY DEF Init, Resting, Free, ReportInv, ReportedBeforeDone, AcceptedIsReported,
             FinishingIsReported, WaitersAwait, OneCall, Reported, Finishing
<1>2. TypeOK /\ ReportInv /\ [Next]_vars => ReportInv'
      BY ReportKept
<1>3. ReportInv => ReportedBeforeDone
      BY DEF ReportInv
<1> QED
    BY <1>1, <1>2, <1>3, PipelineTypeCorrect, PTL DEF SafeSpec

------------------------------------------------------------------------------
(* No report describes an interruption or a connection that broke.           *)

\* What a goroutine reports is not the result of a broken run, and it still can
\* tell such a result when it judges it, even after the shutdown went on or the
\* daemon came back.
Judged(w) ==
  /\ worker[w].step \in {"deliver", "await"} => worker[w].result \notin Broken
  /\ worker[w].step = "judge" /\ worker[w].result \in Broken =>
       Interrupted(w) \/ worker[w].cause = "daemon"

FairInv ==
  /\ NoBrokenRunIsGraded
  /\ \A r \in Requests : request[r].result \notin Broken
  /\ \A w \in Workers : Judged(w)

LEMMA SameJudged ==
  ASSUME NEW v \in Workers, Judged(v), worker'[v] = worker[v]
  PROVE  Judged(v)'
BY DEF Judged, Interrupted

LEMMA WorkJudged ==
  ASSUME TypeOK, NEW w \in Workers, WorkStep(w),
         NEW v \in Workers, Judged(v)
  PROVE  Judged(v)'
<1>1. CASE Execute(w)
  <2>1. PICK end \in RunEnds(w) :
          worker' = [worker EXCEPT ![w].step = "judge", ![w].result = end[1],
                                   ![w].cause = end[2]]
        BY <1>1 DEF Execute
  <2>2. /\ v # w => worker'[v] = worker[v]
        /\ worker'[w].step = "judge" /\ worker'[w].mode = worker[w].mode
        /\ worker'[w].result = end[1] /\ worker'[w].cause = end[2]
        BY <2>1 DEF TypeOK, WorkersOK, Goroutine
  <2> QED
      BY <2>2, EndsOK, SameJudged DEF Judged, Interrupted, Broken
<1>2. CASE Judge(w)
      BY <1>2, SameJudged, ReturnsActs DEF Judge, Judged, Unfair, Interrupted,
             TypeOK, WorkersOK, Goroutine
<1>3. CASE HoldEnds(w)
      BY <1>3, SameJudged, ReturnsActs DEF HoldEnds, Judged
<1>4. CASE AwaitInterrupted(w)
      BY <1>4, SameJudged, ReturnsActs DEF AwaitInterrupted, Judged
<1>5. CASE MarkProcessed(w)
      BY <1>5, SameJudged DEF MarkProcessed, Judged, Interrupted,
             TypeOK, WorkersOK, Goroutine
<1>6. CASE Complete(w)
      BY <1>6, SameJudged, RestsActs DEF Complete, Judged
<1>7. CASE Release(w)
      BY <1>7, SameJudged, RestsActs DEF Release, Judged
<1>8. CASE Fail(w)
      BY <1>8, SameJudged, RestsActs DEF Fail, Judged
<1>9. CASE Unpause(w)
      BY <1>9, SameJudged DEF Unpause, Judged, Interrupted,
             TypeOK, WorkersOK, Goroutine
<1>10. CASE \E r \in Requests : Send(w, r)
      BY <1>10, SameJudged DEF Send, Judged, Interrupted,
             TypeOK, WorkersOK, Goroutine
<1>11. CASE \E r \in Requests : Answered(w, r)
      BY <1>11, SameJudged, ReturnsActs DEF Answered, Judged
<1> QED
    BY <1>1, <1>2, <1>3, <1>4, <1>5, <1>6, <1>7, <1>8, <1>9, <1>10, <1>11 DEF WorkStep

LEMMA ProcessJudged ==
  ASSUME TypeOK, NEW w \in Workers, ProcessStep(w) \/ WorkerFault(w),
         NEW v \in Workers, Judged(v)
  PROVE  Judged(v)'
<1>1. CASE GraceEnds(w)
      BY <1>1, SameJudged DEF GraceEnds, Judged, Interrupted,
             TypeOK, WorkersOK, Goroutine
<1>2. CASE ReleaseInFlight(w)
      BY <1>2, SameJudged DEF ReleaseInFlight, Judged, Interrupted,
             TypeOK, WorkersOK, Goroutine
<1>3. CASE Exit(w)
      BY <1>3, SameJudged DEF Exit, Gone, Resting, Judged, Interrupted,
             TypeOK, WorkersOK, Goroutine
<1>4. CASE Start(w)
      BY <1>4, SameJudged DEF Start, Judged, Interrupted,
             TypeOK, WorkersOK, Goroutine
<1>5. CASE Panic(w)
      BY <1>5, SameJudged, ReturnsActs DEF Panic, Judged
<1>6. CASE TimesOut(w)
      BY <1>6, SameJudged DEF TimesOut, Judged, Interrupted,
             TypeOK, WorkersOK, Goroutine
<1>7. CASE RedisFails(w)
      BY <1>7, SameJudged, RestsActs DEF RedisFails, Judged, Interrupted,
             TypeOK, WorkersOK, Goroutine
<1>8. CASE Terminate(w)
      BY <1>8, SameJudged DEF Terminate, Judged, Interrupted,
             TypeOK, WorkersOK, Goroutine
<1>9. CASE Crash(w)
      BY <1>9, SameJudged DEF Crash, Gone, Resting, Judged, Interrupted,
             TypeOK, WorkersOK, Goroutine
<1> QED
    BY <1>1, <1>2, <1>3, <1>4, <1>5, <1>6, <1>7, <1>8, <1>9 DEF ProcessStep, WorkerFault

LEMMA ClaimJudged ==
  ASSUME TypeOK, NEW w \in Workers, NEW j \in Jobs, Claim(w, j),
         NEW v \in Workers, Judged(v)
  PROVE  Judged(v)'
<1>1. /\ v # w => worker'[v] = worker[v]
      /\ worker'[w].step = Begins(j).step /\ worker'[w].result = Begins(j).result
      BY DEF Claim,
             TypeOK, WorkersOK, Goroutine
<1>2. Begins(j).result \notin Broken /\ Begins(j).step # "judge"
      BY DEF Begins, Broken
<1> QED
    BY <1>1, <1>2, SameJudged DEF Judged

LEMMA PlatformJudged ==
  ASSUME TypeOK, LmsDown \/ DockerDown, NEW v \in Workers, Judged(v)
  PROVE  Judged(v)'
<1>1. CASE LmsDown
      BY <1>1 DEF LmsDown, Judged, Interrupted,
             TypeOK, WorkersOK, Goroutine
<1>2. CASE DockerDown
      BY <1>2 DEF DockerDown, Judged, Interrupted,
             TypeOK, WorkersOK, Goroutine
<1> QED
    BY <1>1, <1>2

LEMMA EveryoneJudged ==
  ASSUME TypeOK, Next, NEW v \in Workers, Judged(v)
  PROVE  Judged(v)'
<1>1. CASE \E j \in Jobs : DispatchStep(j) \/ QueueStep(j)
      BY <1>1, SameJudged
         DEF DispatchStep, QueueStep, Enqueue, NameJob, MarkUnqueued, DispatchThrows,
             DispatcherDies, Promote, Lapse, Expire
<1>2. ASSUME NEW w \in Workers,
             \/ WorkStep(w) \/ ProcessStep(w) \/ WorkerFault(w)
             \/ \E j \in Jobs : Claim(w, j)
      PROVE  Judged(v)'
      BY <1>2, WorkJudged, ProcessJudged, ClaimJudged
<1>3. CASE \E w \in Workers : Renew(w) \/ RecoverStalled(w)
      BY <1>3, SameJudged DEF Renew, RecoverStalled
<1>4. CASE \E r \in Requests : CallbackStep(r)
      BY <1>4, SameJudged DEF CallbackStep, Receive, Store, CloseExpired
<1>5. CASE LmsUp \/ DockerUp
      BY <1>5, SameJudged DEF LmsUp, DockerUp
<1> QED
    BY <1>1, <1>2, <1>3, <1>4, <1>5, PlatformJudged DEF Next

\* A request's result is what a goroutine reported, until it is forgotten.
LEMMA ResultsFair ==
  ASSUME TypeOK, FairInv, RequestStep, NEW r \in Requests
  PROVE  request'[r].result \notin Broken
<1>1. CASE \E w \in Workers : AwaitInterrupted(w) \/ TimesOut(w) \/ Exit(w) \/ Crash(w)
      BY <1>1
         DEF AwaitInterrupted, TimesOut, Exit, Crash, Orphaned, Free, Broken, FairInv, TypeOK,
             RequestsOK, Callback
<1>2. ASSUME NEW w \in Workers, NEW q \in Requests, Send(w, q)
      PROVE  request'[r].result \notin Broken
      BY <1>2 DEF Send, FairInv, Judged, TypeOK, RequestsOK, Callback
<1>3. CASE \E w \in Workers, q \in Requests : Answered(w, q)
      BY <1>3 DEF Answered, Free, Broken, FairInv, TypeOK, RequestsOK, Callback
<1>4. ASSUME NEW q \in Requests,
             \/ \E s \in {"close", "store"} : request' = [request EXCEPT ![q].step = s]
             \/ Answer(q, "refused") \/ Answer(q, "accepted")
      PROVE  request'[r].result \notin Broken
  <2>1. request[r].result \notin Broken /\ request[q].result \notin Broken
        BY DEF FairInv
  <2>2. request[q] \in Callback /\ request \in [Requests -> Callback]
        BY DEF TypeOK, RequestsOK
  <2>3. request'[r].result \in {request[r].result, request[q].result, "none"}
    <3>1. CASE r # q
          BY <1>4, <2>2, <3>1 DEF Answer
    <3>2. CASE r = q
          BY <1>4, <2>2, <3>2 DEF Answer, Free, Callback
    <3> QED
        BY <3>1, <3>2
  <2> QED
      BY <2>1, <2>3 DEF Broken
<1>5. CASE \E q \in Requests : CallbackStep(q)
      BY <1>4, <1>5 DEF CallbackStep, Receive, Store, CloseExpired
<1>6. CASE LmsDown
      BY <1>6 DEF LmsDown, Free, Broken
<1> QED
    BY <1>1, <1>2, <1>3, <1>5, <1>6 DEF RequestStep, CallbackStep

LEMMA VerdictsFair ==
  ASSUME TypeOK, FairInv, RowStep, NEW j \in Jobs
  PROVE  row'[j].verdict \notin Broken
<1>1. ASSUME NEW k \in Jobs, NameJob(k)
      PROVE  row'[j].verdict \notin Broken
      BY <1>1 DEF NameJob, FairInv, NoBrokenRunIsGraded, TypeOK
<1>2. ASSUME NEW k \in Jobs, MarkUnqueued(k)
      PROVE  row'[j].verdict \notin Broken
      BY <1>2 DEF MarkUnqueued, Broken, FairInv, NoBrokenRunIsGraded, TypeOK
<1>3. ASSUME NEW r \in Requests, Store(r)
      PROVE  row'[j].verdict \notin Broken
      BY <1>3 DEF Store, FairInv, NoBrokenRunIsGraded, TypeOK
<1>4. ASSUME NEW r \in Requests, CloseExpired(r)
      PROVE  row'[j].verdict \notin Broken
      BY <1>4 DEF CloseExpired, Broken, FairInv, NoBrokenRunIsGraded, TypeOK
<1> QED
    BY <1>1, <1>2, <1>3, <1>4 DEF RowStep

LEMMA FairKept ==
  ASSUME TypeOK, FairInv, [Next]_vars
  PROVE  FairInv'
<1>1. CASE UNCHANGED vars
      BY <1>1 DEF vars, FairInv, NoBrokenRunIsGraded, Judged, Interrupted
<1>2. CASE Next
  <2>1. NoBrokenRunIsGraded'
        BY <1>2, VerdictsFair, Frames DEF Framed, FairInv, NoBrokenRunIsGraded
  <2>2. \A r \in Requests : request'[r].result \notin Broken
        BY <1>2, ResultsFair, Frames DEF Framed, FairInv
  <2>3. ASSUME NEW w \in Workers
        PROVE  Judged(w)'
        BY <1>2, EveryoneJudged DEF FairInv
  <2> QED
      BY <2>1, <2>2, <2>3 DEF FairInv
<1> QED
    BY <1>1, <1>2

\* No Submission is graded on a run that a shutdown interrupted or whose
\* connection to the Docker daemon failed, whether the daemon is back when the
\* result is judged, whichever worker reports it and however often it is sent
\* (Service.Process, Service.deliver).
THEOREM BrokenRunsAreNotGraded == SafeSpec => []NoBrokenRunIsGraded
<1>1. Init => FairInv
      BY DEF Init, Resting, Free, Broken, FairInv, NoBrokenRunIsGraded, Judged
<1>2. TypeOK /\ FairInv /\ [Next]_vars => FairInv'
      BY FairKept
<1>3. FairInv => NoBrokenRunIsGraded
      BY DEF FairInv
<1> QED
    BY <1>1, <1>2, <1>3, PipelineTypeCorrect, PTL DEF SafeSpec

------------------------------------------------------------------------------
(* Nothing is lost.  A job can end without a verdict in two ways: its token  *)
(* expires while its result cannot be delivered, or its attempts run out.    *)
(* An outage shorter than a token excludes the first.  Only a panic spends   *)
(* an attempt, so the second needs as many panics as a job has attempts.     *)

Survivable ==
  "longOutage" \notin FaultKinds /\ ("panic" \in FaultKinds => MaxFaults < Attempts)

\* The row of j has its verdict, or will never be named for a result to come.
Settled(j) == Reported(j) \/ (~row[j].named /\ dispatch[j] = "done")

\* A job is on the queue before its row says so.
Queued ==
  \A j \in Jobs : dispatch[j] = "name" \/ row[j].named => job[j].place # "absent"

\* A token expires after its dispatch, and never under an outage.
ExpiredIsOver ==
  \A j \in expired : dispatch[j] = "done" /\ (lms \/ ~UnderWay(j))

\* n attempts may have been spent by now.
Spent(n) == n = 0 \/ ("panic" \in FaultKinds /\ n <= faults)

Tally ==
  \A j \in Jobs : UnderWay(j) \/ job[j].place = "absent" => Spent(job[j].made)

ErrorsCounted ==
  \A w \in Workers :
    /\ worker[w].step = "finish" /\ worker[w].outcome = "error" /\ ~Interrupted(w)
    /\ Holds(w, worker[w].job)
    => Spent(job[worker[w].job].made + 1)

\* Whoever gives a job up for an answer has one to give it up for.
AnsweredIsSettled ==
  /\ \A w \in Workers :
       worker[w].step = "finish" /\ worker[w].outcome = "unrecoverable"
         => Settled(worker[w].job)
  /\ \A r \in Requests :
       request[r].step \in {"accepted", "refused"} => Settled(request[r].job)

EndedIsSettled ==
  \A j \in Jobs : job[j].place \in {"completed", "failed"} => Settled(j)

WayInv ==
  /\ Queued /\ ExpiredIsOver /\ Tally /\ ErrorsCounted
  /\ AnsweredIsSettled /\ EndedIsSettled
  /\ faults <= MaxFaults

\* What a step does to the count of faults and to the dispatchers.
LEMMA FaultKinded ==
  ASSUME NEW kind, Fault(kind)
  PROVE  kind \in FaultKinds
BY DEF Fault

LEMMA FaultsCounted ==
  ASSUME TypeOK, faults <= MaxFaults, Next
  PROVE  faults' \in {faults, faults + 1} /\ faults' <= MaxFaults
<1> DEFINE G == faults' = faults \/ \E kind \in FaultKinds : Fault(kind)
<1>1. ASSUME NEW j \in Jobs, DispatchStep(j)
      PROVE  G
      BY <1>1, FaultKinded
         DEF DispatchStep, Enqueue, NameJob, MarkUnqueued, DispatchThrows, DispatcherDies
<1>2. ASSUME NEW j \in Jobs, QueueStep(j)
      PROVE  G
      BY <1>2, FaultKinded DEF QueueStep, Promote, Lapse, Expire
<1>3. ASSUME NEW w \in Workers, WorkStep(w)
      PROVE  G
      BY <1>3, Zenon
         DEF WorkStep, Execute, Judge, HoldEnds, AwaitInterrupted, MarkProcessed,
             Complete, Release, Fail, Unpause, Send, Answered
<1>4. ASSUME NEW w \in Workers, ProcessStep(w)
      PROVE  G
      BY <1>4, Zenon DEF ProcessStep, GraceEnds, ReleaseInFlight, Exit, Start
<1>5. ASSUME NEW w \in Workers, WorkerFault(w)
      PROVE  G
      BY <1>5, FaultKinded, Zenon
         DEF WorkerFault, Panic, TimesOut, RedisFails, Terminate, Crash
<1>6. ASSUME NEW w \in Workers,
             Renew(w) \/ RecoverStalled(w) \/ (\E j \in Jobs : Claim(w, j))
      PROVE  G
      BY <1>6, Zenon DEF Renew, RecoverStalled, Claim
<1>7. ASSUME NEW r \in Requests, CallbackStep(r)
      PROVE  G
      BY <1>7, Zenon DEF CallbackStep, Receive, Store, CloseExpired
<1>8. ASSUME LmsDown \/ LmsUp \/ DockerDown \/ DockerUp
      PROVE  G
  <2>1. CASE LmsDown
        BY <2>1, FaultKinded DEF LmsDown
  <2>2. CASE DockerDown
        BY <2>2, FaultKinded DEF DockerDown
  <2>3. CASE LmsUp \/ DockerUp
        BY <2>3 DEF LmsUp, DockerUp
  <2> QED
      BY <1>8, <2>1, <2>2, <2>3
<1>9. G
  <2> HIDE DEF G
  <2> QED
      BY <1>1, <1>2, <1>3, <1>4, <1>5, <1>6, <1>7, <1>8 DEF Next
<1> QED
    BY <1>9, PipelineAssumption DEF TypeOK, Fault

\* The actions that write what the dispatchers, the tokens and the LMS are at.
LEMMA DispatchFrames ==
  ASSUME Next
  PROVE  /\ UNCHANGED dispatch \/ \E j \in Jobs : DispatchStep(j)
         /\ UNCHANGED expired \/ \E j \in Jobs : Expire(j)
         /\ UNCHANGED lms \/ LmsDown \/ LmsUp
<1> DEFINE G == /\ UNCHANGED dispatch \/ \E j \in Jobs : DispatchStep(j)
                /\ UNCHANGED expired \/ \E j \in Jobs : Expire(j)
                /\ UNCHANGED lms \/ LmsDown \/ LmsUp
<1> USE DEF platform
<1>1. ASSUME NEW j \in Jobs, DispatchStep(j)
      PROVE  G
      BY <1>1 DEF DispatchStep, Enqueue, NameJob, MarkUnqueued, DispatchThrows,
                  DispatcherDies
<1>7. ASSUME NEW j \in Jobs, QueueStep(j)
      PROVE  G
      BY <1>7 DEF QueueStep, Promote, Lapse, Expire
<1>2. ASSUME NEW w \in Workers, WorkStep(w)
      PROVE  G
      BY <1>2, Zenon DEF WorkStep, Execute, Judge, HoldEnds, AwaitInterrupted, MarkProcessed,
                  Complete, Release, Fail, Unpause, Send, Answered
<1>3. ASSUME NEW w \in Workers, ProcessStep(w) \/ WorkerFault(w)
      PROVE  G
      BY <1>3, Zenon DEF ProcessStep, GraceEnds, ReleaseInFlight, Exit, Start, WorkerFault, Panic,
                  TimesOut, RedisFails, Terminate, Crash
<1>4. ASSUME NEW w \in Workers,
             Renew(w) \/ RecoverStalled(w) \/ (\E j \in Jobs : Claim(w, j))
      PROVE  G
      BY <1>4, Zenon DEF Renew, RecoverStalled, Claim
<1>5. ASSUME NEW r \in Requests, CallbackStep(r)
      PROVE  G
      BY <1>5 DEF CallbackStep, Receive, Store, CloseExpired
<1>6. CASE LmsDown \/ LmsUp \/ DockerDown \/ DockerUp
      BY <1>6 DEF LmsDown, LmsUp, DockerDown, DockerUp
<1> QED
    BY <1>1, <1>2, <1>3, <1>4, <1>5, <1>6, <1>7 DEF Next

LEMMA DispatchDone ==
  ASSUME TypeOK, [Next]_vars, NEW j \in Jobs, dispatch[j] = "done"
  PROVE  dispatch'[j] = "done" /\ (row'[j].named => row[j].named)
<1>1. dispatch'[j] = "done"
  <2>1. UNCHANGED dispatch \/ \E k \in Jobs : DispatchStep(k)
        BY DispatchFrames DEF vars
  <2> QED
      BY <2>1 DEF DispatchStep, Enqueue, NameJob, MarkUnqueued, DispatchThrows,
                  DispatcherDies, TypeOK
<1>2. row'[j].named => row[j].named
  <2>1. UNCHANGED row \/ RowStep
        BY Frames DEF Framed, vars
  <2>2. CASE \E k \in Jobs : NameJob(k)
        BY <2>2 DEF NameJob, TypeOK
  <2>3. CASE \E k \in Jobs : MarkUnqueued(k)
        BY <2>3 DEF MarkUnqueued, TypeOK
  <2>4. CASE \E r \in Requests : Store(r) \/ CloseExpired(r)
        BY <2>4 DEF Store, CloseExpired, TypeOK
  <2> QED
      BY <2>1, <2>2, <2>3, <2>4 DEF RowStep
<1> QED
    BY <1>1, <1>2

LEMMA SettledStays ==
  ASSUME TypeOK, [Next]_vars, NEW j \in Jobs, Settled(j)
  PROVE  Settled(j)'
BY VerdictsStay, DispatchDone DEF Settled, TypeOK

\* What a step does to the place, the lock and the attempts of a job.
Alike(j) == job'[j].place = job[j].place /\ job'[j].made = job[j].made
            /\ job'[j].lock \in {job[j].lock, NoWorker}

Enters(j) == /\ job[j].place = "absent" /\ job'[j].place = "wait"
             /\ job'[j].made = job[j].made /\ job'[j].lock = job[j].lock
             /\ dispatch[j] # "done"

Continues(j) == /\ UnderWay(j) /\ UnderWay(j)' /\ job'[j].made = job[j].made
                /\ \/ job'[j].lock \in {job[j].lock, NoWorker}
                   \/ \E w \in Workers : job'[j].lock = w /\ Claim(w, j)

Ends(j) ==
  \E w \in Workers :
    /\ worker[w].job = j /\ Holds(w, j) /\ job'[j].lock = NoWorker
    /\ job'[j].made = job[j].made + 1
    /\ \/ Complete(w) /\ job'[j].place = "completed"
       \/ Fail(w) /\ job'[j].place = IF worker[w].outcome = "unrecoverable" \/ Exhausted(j)
                                     THEN "failed" ELSE "delayed"

Fares(j) == Alike(j) \/ Enters(j) \/ Continues(j) \/ Ends(j)

LEMMA OnceMoreMade ==
  ASSUME TypeOK, NEW j \in Jobs, NEW p \in Places
  PROVE  OnceMore(j, p).made = job[j].made + 1
<1> DEFINE u == UnlockedAt(j, p)
<1>1. u \in JobRecord
      BY UnlockedOK
<1> HIDE DEF u
<1> QED
    BY <1>1 DEF OnceMore, u, JobRecord

LEMMA RecoveredMade ==
  ASSUME TypeOK, NEW j \in Jobs
  PROVE  [UnlockedAt(j, "wait") EXCEPT !.stalls = job[j].stalls + 1].made = job[j].made
<1> DEFINE u == UnlockedAt(j, "wait")
<1>1. u \in JobRecord /\ u.made = job[j].made
      BY UnlockedOK DEF Places
<1> HIDE DEF u
<1>2. [u EXCEPT !.stalls = job[j].stalls + 1].made = u.made
      BY <1>1 DEF JobRecord
<1> QED
    BY <1>1, <1>2 DEF u

LEMMA ReleasedFares ==
  ASSUME TypeOK, OnlyActiveJobsAreLocked, NEW w \in Workers, NEW k \in Jobs, Released(w, k),
         NEW j \in Jobs
  PROVE  Fares(j)
<1>1. CASE ~Holds(w, k) \/ j # k
  <2>1. job'[j] = job[j]
        BY <1>1 DEF Released, TypeOK
  <2> QED
      BY <2>1 DEF Fares, Alike
<1>2. CASE Holds(w, k) /\ j = k
  <2>1. job[j].place = "active"
        BY <1>2, PipelineAssumption DEF OnlyActiveJobsAreLocked, Holds
  <2>2. job'[j] = UnlockedAt(j, "wait")
        BY <1>2 DEF Released, TypeOK
  <2>3. /\ job'[j].place = "wait" /\ job'[j].lock = NoWorker
        /\ job'[j].made = job[j].made
        BY <2>2, UnlockedOK DEF Places
  <2> QED
      BY <2>1, <2>3 DEF Fares, Continues, UnderWay
<1> QED
    BY <1>1, <1>2

LEMMA FinishedFares ==
  ASSUME TypeOK, NEW w \in Workers, worker[w].job \in Jobs, NEW p \in Places,
         Finished(w, worker[w].job, p),
         \/ Complete(w) /\ p = "completed"
         \/ /\ Fail(w)
            /\ p = IF worker[w].outcome = "unrecoverable" \/ Exhausted(worker[w].job)
                   THEN "failed" ELSE "delayed",
         NEW j \in Jobs
  PROVE  Fares(j)
<1> DEFINE k == worker[w].job
<1>1. CASE ~Holds(w, k) \/ j # k
  <2>1. job'[j] = job[j]
        BY <1>1 DEF Finished, TypeOK
  <2> QED
      BY <2>1 DEF Fares, Alike
<1>2. CASE Holds(w, k) /\ j = k
  <2>1. job'[j] = OnceMore(j, p)
        BY <1>2 DEF Finished, TypeOK
  <2>2. /\ job'[j].place = p /\ job'[j].lock = NoWorker
        /\ job'[j].made = job[j].made + 1
        BY <2>1, OnceMoreOK, OnceMoreMade
  <2> QED
      BY <1>2, <2>2 DEF Fares, Ends
<1> QED
    BY <1>1, <1>2

LEMMA JobFares ==
  ASSUME TypeOK, OnlyActiveJobsAreLocked, JobStep, NEW j \in Jobs
  PROVE  Fares(j)
<1>0. job \in [Jobs -> JobRecord]
      BY DEF TypeOK
<1>1. ASSUME NEW k \in Jobs, Enqueue(k) \/ DispatchThrows(k)
      PROVE  Fares(j)
  <2>1. job' = job \/ (job[k].place = "absent" /\ job' = [job EXCEPT ![k].place = "wait"])
        BY <1>1 DEF Enqueue, DispatchThrows, Added
  <2>2. dispatch[k] # "done"
        BY <1>1 DEF Enqueue, DispatchThrows
  <2>3. CASE job'[j] = job[j]
        BY <2>3 DEF Fares, Alike
  <2>4. CASE job'[j] # job[j]
        BY <1>0, <2>1, <2>2, <2>4 DEF Fares, Enters, JobRecord
  <2> QED
      BY <2>3, <2>4
<1>2. ASSUME NEW k \in Jobs, Promote(k)
      PROVE  Fares(j)
  <2>1. CASE j = k
        BY <1>0, <1>2, <2>1 DEF Promote, Fares, Continues, UnderWay, JobRecord
  <2>2. CASE j # k
        BY <1>0, <1>2, <2>2 DEF Promote, Fares, Alike
  <2> QED
      BY <2>1, <2>2
<1>3. ASSUME NEW k \in Jobs, Lapse(k)
      PROVE  Fares(j)
      BY <1>0, <1>3 DEF Lapse, Fares, Alike, JobRecord
<1>4. ASSUME NEW w \in Workers, MarkProcessed(w)
      PROVE  Fares(j)
      BY <1>0, <1>4 DEF MarkProcessed, Fares, Alike, JobRecord
<1>5. ASSUME NEW w \in Workers, Complete(w) \/ Fail(w) \/ Release(w) \/ ReleaseInFlight(w)
      PROVE  worker[w].job \in Jobs
      BY <1>5 DEF Complete, Fail, Release, ReleaseInFlight, TypeOK, WorkersOK, Goroutine
<1>6. ASSUME NEW w \in Workers, Complete(w) \/ Fail(w)
      PROVE  Fares(j)
  <2> DEFINE p == IF Complete(w) THEN "completed"
                  ELSE IF worker[w].outcome = "unrecoverable" \/ Exhausted(worker[w].job)
                       THEN "failed" ELSE "delayed"
  <2>1. p \in Places
        BY DEF Places
  <2>2. Finished(w, worker[w].job, p)
        BY <1>6 DEF Complete, Fail
  <2> QED
      BY <1>5, <1>6, <2>1, <2>2, FinishedFares
<1>7. ASSUME NEW w \in Workers, Release(w) \/ ReleaseInFlight(w)
      PROVE  Fares(j)
      BY <1>5, <1>7, ReleasedFares DEF Release, ReleaseInFlight
<1>8. ASSUME NEW w \in Workers, RecoverStalled(w)
      PROVE  Fares(j)
  <2>1. CASE Stalled(j)
    <3>1. job'[j] = [UnlockedAt(j, "wait") EXCEPT !.stalls = job[j].stalls + 1]
          BY <1>8, <2>1 DEF RecoverStalled
    <3>2. job'[j].place = "wait" /\ job'[j].lock = NoWorker /\ job'[j].made = job[j].made
          BY <3>1, RecoveredOK, RecoveredMade
    <3> QED
        BY <2>1, <3>2 DEF Stalled, Fares, Continues, UnderWay
  <2>2. CASE ~Stalled(j)
        BY <1>8, <2>2 DEF RecoverStalled, Fares, Alike
  <2> QED
      BY <2>1, <2>2
<1>9. ASSUME NEW w \in Workers, NEW k \in Jobs, Claim(w, k)
      PROVE  Fares(j)
  <2>1. CASE j = k
    <3>1. /\ job'[j].place = "active" /\ job'[j].lock = w
          /\ job'[j].made = job[j].made /\ job[j].place = "wait"
          BY <1>0, <1>9, <2>1 DEF Claim, JobRecord
    <3> QED
        BY <1>9, <2>1, <3>1 DEF Fares, Continues, UnderWay
  <2>2. CASE j # k
        BY <1>0, <1>9, <2>2 DEF Claim, Fares, Alike
  <2> QED
      BY <2>1, <2>2
<1> QED
    BY <1>1, <1>2, <1>3, <1>4, <1>6, <1>7, <1>8, <1>9 DEF JobStep

LEMMA EveryJobFares ==
  ASSUME TypeOK, OnlyActiveJobsAreLocked, [Next]_vars, NEW j \in Jobs
  PROVE  Fares(j)
<1>1. UNCHANGED job \/ JobStep
      BY Frames DEF Framed, vars
<1> QED
    BY <1>1, JobFares DEF Fares, Alike

\* How a goroutine comes to finish its job.
Ruled(w) ==
  \/ /\ worker[w].step = "finish" /\ worker'[w].outcome = worker[w].outcome
     /\ Interrupted(w) => Interrupted(w)'
  \/ worker'[w].outcome = "requeue"
  \/ /\ worker'[w].outcome = "error"
     /\ Panic(w) \/ Interrupted(w)' \/ (~lms /\ worker[w].job \in expired)
  \/ \E r \in Requests : Answered(w, r)

EndsUp(w) == worker'[w].step = "finish" => KeepsJob(w) /\ Ruled(w)

LEMMA ReturnsMode ==
  ASSUME TypeOK, NEW w \in Workers, NEW o, Returns(w, o)
  PROVE  Interrupted(w)' = Interrupted(w)
BY DEF TypeOK, WorkersOK, Goroutine, Returns, Interrupted

LEMMA SameEnds ==
  ASSUME NEW v \in Workers, worker'[v] = worker[v]
  PROVE  EndsUp(v)
BY DEF EndsUp, KeepsJob, Ruled, Interrupted

LEMMA WorkEnds ==
  ASSUME TypeOK, NEW w \in Workers, WorkStep(w), NEW v \in Workers
  PROVE  EndsUp(v)
<1>1. CASE Execute(w)
      BY <1>1, SameEnds DEF Execute, EndsUp, TypeOK, WorkersOK, Goroutine
<1>2. CASE Judge(w)
  <2>1. CASE Unfair(w)
        BY <1>2, <2>1, SameEnds, ReturnsActs DEF Judge, EndsUp, Ruled
  <2>2. CASE ~Unfair(w)
        BY <1>2, <2>2, SameEnds DEF Judge, EndsUp, TypeOK, WorkersOK, Goroutine
  <2> QED
      BY <2>1, <2>2
<1>3. CASE HoldEnds(w)
  <2>1. Returns(w, "error")
        BY <1>3 DEF HoldEnds
  <2>2. CASE v = w
    <3>1. KeepsJob(w) /\ worker'[w].outcome = "error"
          BY <2>1, ReturnsActs
    <3>2. Interrupted(w)' \/ (~lms /\ worker[w].job \in expired)
          BY <1>3, <2>1, ReturnsMode DEF HoldEnds
    <3> QED
        BY <2>2, <3>1, <3>2 DEF EndsUp, Ruled
  <2>3. CASE v # w
        BY <2>1, <2>3, ReturnsActs, SameEnds
  <2> QED
      BY <2>2, <2>3
<1>4. CASE AwaitInterrupted(w)
  <2>1. Returns(w, "error")
        BY <1>4 DEF AwaitInterrupted
  <2>2. CASE v = w
    <3>1. KeepsJob(w) /\ worker'[w].outcome = "error"
          BY <2>1, ReturnsActs
    <3>2. Interrupted(w)'
          BY <1>4, <2>1, ReturnsMode DEF AwaitInterrupted
    <3> QED
        BY <2>2, <3>1, <3>2 DEF EndsUp, Ruled
  <2>3. CASE v # w
        BY <2>1, <2>3, ReturnsActs, SameEnds
  <2> QED
      BY <2>2, <2>3
<1>5. CASE MarkProcessed(w)
      BY <1>5, SameEnds DEF MarkProcessed, EndsUp, TypeOK, WorkersOK, Goroutine
<1>6. CASE Complete(w)
      BY <1>6, SameEnds, RestsActs DEF Complete, EndsUp
<1>7. CASE Release(w)
      BY <1>7, SameEnds, RestsActs DEF Release, EndsUp
<1>8. CASE Fail(w)
      BY <1>8, SameEnds, RestsActs DEF Fail, EndsUp
<1>9. CASE Unpause(w)
      BY <1>9, SameEnds DEF Unpause, EndsUp, TypeOK, WorkersOK, Goroutine
<1>10. CASE \E r \in Requests : Send(w, r)
       BY <1>10, SameEnds DEF Send, EndsUp, TypeOK, WorkersOK, Goroutine
<1>11. ASSUME NEW r \in Requests, Answered(w, r)
       PROVE  EndsUp(v)
  <2>1. Returns(w, Outcome(w, request[r].step))
        BY <1>11 DEF Answered
  <2> QED
      BY <1>11, <2>1, ReturnsActs, SameEnds DEF EndsUp, Ruled
<1> QED
    BY <1>1, <1>2, <1>3, <1>4, <1>5, <1>6, <1>7, <1>8, <1>9, <1>10, <1>11 DEF WorkStep

LEMMA ProcessEnds ==
  ASSUME TypeOK, NEW w \in Workers, ProcessStep(w) \/ WorkerFault(w), NEW v \in Workers
  PROVE  EndsUp(v)
<1>1. CASE GraceEnds(w)
      BY <1>1, SameEnds DEF GraceEnds, EndsUp, Ruled, KeepsJob, Interrupted,
             TypeOK, WorkersOK, Goroutine
<1>2. CASE ReleaseInFlight(w)
      BY <1>2, SameEnds DEF ReleaseInFlight, EndsUp, Ruled, KeepsJob, Interrupted,
             TypeOK, WorkersOK, Goroutine
<1>3. CASE Exit(w)
      BY <1>3, SameEnds DEF Exit, Gone, Resting, EndsUp, TypeOK, WorkersOK, Goroutine
<1>4. CASE Start(w)
      BY <1>4, SameEnds DEF Start, EndsUp, Ruled, KeepsJob, Interrupted,
             TypeOK, WorkersOK, Goroutine
<1>5. CASE Panic(w)
      BY <1>5, SameEnds, ReturnsActs DEF Panic, EndsUp, Ruled
<1>6. CASE TimesOut(w)
      BY <1>6, SameEnds DEF TimesOut, EndsUp, TypeOK, WorkersOK, Goroutine
<1>7. CASE RedisFails(w)
  <2>1. CASE worker[w].step = "finish" /\ worker[w].outcome = "done"
        BY <1>7, <2>1, SameEnds DEF RedisFails, EndsUp, TypeOK, WorkersOK, Goroutine
  <2>2. CASE ~(worker[w].step = "finish" /\ worker[w].outcome = "done")
        BY <1>7, <2>2, SameEnds, RestsActs DEF RedisFails, EndsUp
  <2> QED
      BY <2>1, <2>2
<1>8. CASE Terminate(w)
      BY <1>8, SameEnds DEF Terminate, EndsUp, Ruled, KeepsJob, Interrupted,
             TypeOK, WorkersOK, Goroutine
<1>9. CASE Crash(w)
      BY <1>9, SameEnds DEF Crash, Gone, Resting, EndsUp, TypeOK, WorkersOK, Goroutine
<1> QED
    BY <1>1, <1>2, <1>3, <1>4, <1>5, <1>6, <1>7, <1>8, <1>9 DEF ProcessStep, WorkerFault

LEMMA ClaimEnds ==
  ASSUME TypeOK, NEW w \in Workers, NEW j \in Jobs, Claim(w, j), NEW v \in Workers
  PROVE  /\ EndsUp(v)
         /\ worker'[w].step # "finish"
<1>1. /\ v # w => worker'[v] = worker[v]
      /\ worker'[w].step = Begins(j).step
      BY DEF Claim, TypeOK, WorkersOK, Goroutine
<1> QED
    BY <1>1, SameEnds, BeginsOK DEF EndsUp

LEMMA PlatformEnds ==
  ASSUME TypeOK, LmsDown \/ DockerDown, NEW v \in Workers
  PROVE  EndsUp(v)
<1>1. CASE LmsDown
      BY <1>1, SameEnds DEF LmsDown, EndsUp, TypeOK, WorkersOK, Goroutine
<1>2. CASE DockerDown
      BY <1>2 DEF DockerDown, EndsUp, Ruled, KeepsJob, Interrupted,
             TypeOK, WorkersOK, Goroutine
<1> QED
    BY <1>1, <1>2

LEMMA EveryoneEnds ==
  ASSUME TypeOK, [Next]_vars, NEW v \in Workers
  PROVE  EndsUp(v)
<1>0. CASE UNCHANGED vars
      BY <1>0, SameEnds DEF vars
<1>1. CASE \E j \in Jobs : DispatchStep(j) \/ QueueStep(j)
      BY <1>1, SameEnds
         DEF DispatchStep, QueueStep, Enqueue, NameJob, MarkUnqueued, DispatchThrows,
             DispatcherDies, Promote, Lapse, Expire
<1>2. ASSUME NEW w \in Workers,
             \/ WorkStep(w) \/ ProcessStep(w) \/ WorkerFault(w)
             \/ \E j \in Jobs : Claim(w, j)
      PROVE  EndsUp(v)
      BY <1>2, WorkEnds, ProcessEnds, ClaimEnds
<1>3. CASE \E w \in Workers : Renew(w) \/ RecoverStalled(w)
      BY <1>3, SameEnds DEF Renew, RecoverStalled
<1>4. CASE \E r \in Requests : CallbackStep(r)
      BY <1>4, SameEnds DEF CallbackStep, Receive, Store, CloseExpired
<1>5. CASE LmsUp \/ DockerUp
      BY <1>5, SameEnds DEF LmsUp, DockerUp
<1> QED
    BY <1>0, <1>1, <1>2, <1>3, <1>4, <1>5, PlatformEnds DEF Next

\* An answer settles its Submission, whatever it says: it was given before,
\* or the step that gives it leaves a verdict or finds no row to wait for.
Responds(r) ==
  request'[r].step \in {"accepted", "refused"} =>
    \/ request[r].step \in {"accepted", "refused"} /\ request'[r].job = request[r].job
    \/ \E j \in Jobs : request'[r].job = j /\ Settled(j)'

LEMMA AnswerResponds ==
  ASSUME TypeOK, NEW q \in Requests, NEW a \in {"accepted", "refused"}, Answer(q, a),
         NEW j \in Jobs, request[q].job = j, Settled(j)', NEW r \in Requests
  PROVE  Responds(r)
<1>1. CASE r = q
  <2>1. request'[r].step = "free" \/ request'[r].job = j
        BY <1>1 DEF Answer, Free, TypeOK, RequestsOK, Callback
  <2> QED
      BY <2>1 DEF Responds
<1>2. CASE r # q
      BY <1>2 DEF Answer, Responds, TypeOK, RequestsOK
<1> QED
    BY <1>1, <1>2

LEMMA OrphanedResponds ==
  ASSUME TypeOK, NEW w \in Workers, request' = Orphaned(w), NEW r \in Requests
  PROVE  Responds(r)
BY DEF Orphaned, Free, Responds, TypeOK, RequestsOK, Callback

LEMMA ReceiveResponds ==
  ASSUME TypeOK, ExpiredIsOver, NEW q \in Requests, Receive(q), NEW r \in Requests
  PROVE  Responds(r)
<1>0. PICK j \in Jobs : j = request[q].job
      BY DEF Receive, TypeOK, RequestsOK
<1>1. row' = row /\ dispatch' = dispatch
      BY DEF Receive
<1>2. CASE \E s \in {"close", "store"} : request' = [request EXCEPT ![q].step = s]
      BY <1>2 DEF Responds, TypeOK, RequestsOK, Callback
<1>3. ASSUME ~(\E s \in {"close", "store"} : request' = [request EXCEPT ![q].step = s])
      PROVE  Settled(j)' /\ (Answer(q, "accepted") \/ Answer(q, "refused"))
  <2>1. CASE j \in expired
    <3>1. Answer(q, "refused") /\ ~(row[j].named /\ row[j].verdict = "none")
          BY <1>0, <1>3, <2>1 DEF Receive
    <3>2. dispatch[j] = "done"
          BY <2>1 DEF ExpiredIsOver
    <3> QED
        BY <1>1, <3>1, <3>2 DEF Settled, Reported
  <2>2. CASE j \notin expired
    <3>1. Answer(q, "accepted") /\ row[j].verdict # "none"
          BY <1>0, <1>3, <2>2 DEF Receive
    <3> QED
        BY <1>1, <3>1 DEF Settled, Reported
  <2> QED
      BY <2>1, <2>2
<1> QED
    BY <1>0, <1>2, <1>3, AnswerResponds

LEMMA RequestsRespond ==
  ASSUME TypeOK, ExpiredIsOver, RequestStep, NEW r \in Requests
  PROVE  Responds(r)
<1>1. CASE \E w \in Workers : AwaitInterrupted(w) \/ TimesOut(w) \/ Exit(w) \/ Crash(w)
      BY <1>1, OrphanedResponds DEF AwaitInterrupted, TimesOut, Exit, Crash
<1>2. ASSUME NEW w \in Workers, NEW q \in Requests, Send(w, q)
      PROVE  Responds(r)
      BY <1>2 DEF Send, Responds, TypeOK, RequestsOK
<1>3. CASE \E w \in Workers, q \in Requests : Answered(w, q)
      BY <1>3 DEF Answered, Free, Responds, TypeOK, RequestsOK, Callback
<1>4. CASE \E q \in Requests : Receive(q)
      BY <1>4, ReceiveResponds
<1>5. ASSUME NEW q \in Requests, Store(q) \/ CloseExpired(q)
      PROVE  Responds(r)
  <2>0. PICK j \in Jobs : j = request[q].job
        BY <1>5 DEF Store, CloseExpired, TypeOK, RequestsOK
  <2>1. request[q].result # "none"
        BY <1>5 DEF Store, TypeOK, RequestsOK, CloseExpired
  <2>2. row'[j].verdict # "none"
        BY <1>5, <2>0, <2>1 DEF Store, CloseExpired, TypeOK
  <2>3. Settled(j)'
        BY <2>2 DEF Settled, Reported
  <2>4. Answer(q, "accepted") \/ Answer(q, "refused")
        BY <1>5 DEF Store, CloseExpired
  <2> QED
      BY <2>0, <2>3, <2>4, AnswerResponds
<1>6. CASE LmsDown
      BY <1>6 DEF LmsDown, Free, Responds
<1> QED
    BY <1>1, <1>2, <1>3, <1>4, <1>5, <1>6 DEF RequestStep

\* The parts of WayInv, one lemma each.
LEMMA QueuedKept ==
  ASSUME TypeOK, OnlyActiveJobsAreLocked, Queued, [Next]_vars
  PROVE  Queued'
<1>1. ASSUME NEW j \in Jobs, job[j].place # "absent"
      PROVE  job'[j].place # "absent"
  <2>1. Fares(j)
        BY EveryJobFares
  <2> QED
      BY <1>1, <2>1 DEF Fares, Alike, Enters, Continues, Ends, UnderWay
<1>2. ASSUME NEW j \in Jobs, dispatch'[j] = "name"
      PROVE  dispatch[j] = "name" \/ job'[j].place # "absent"
  <2>1. UNCHANGED dispatch \/ \E k \in Jobs : DispatchStep(k)
        BY DispatchFrames DEF vars
  <2>2. ASSUME NEW k \in Jobs, Enqueue(k)
        PROVE  dispatch[j] = "name" \/ job'[j].place # "absent"
        BY <1>2, <2>2 DEF Enqueue, Added, TypeOK, JobRecord
  <2>3. ASSUME NEW k \in Jobs,
               NameJob(k) \/ MarkUnqueued(k) \/ DispatchThrows(k) \/ DispatcherDies(k)
        PROVE  dispatch[j] = "name"
        BY <1>2, <2>3 DEF NameJob, MarkUnqueued, DispatchThrows, DispatcherDies, TypeOK
  <2> QED
      BY <1>2, <2>1, <2>2, <2>3 DEF DispatchStep
<1>3. ASSUME NEW j \in Jobs, row'[j].named
      PROVE  row[j].named \/ dispatch[j] = "name"
  <2>1. UNCHANGED row \/ RowStep
        BY Frames DEF Framed, vars
  <2>2. CASE \E k \in Jobs : NameJob(k)
        BY <1>3, <2>2 DEF NameJob, TypeOK
  <2>3. CASE \E k \in Jobs : MarkUnqueued(k)
        BY <1>3, <2>3 DEF MarkUnqueued, TypeOK
  <2>4. CASE \E r \in Requests : Store(r) \/ CloseExpired(r)
        BY <1>3, <2>4 DEF Store, CloseExpired, TypeOK
  <2> QED
      BY <1>3, <2>1, <2>2, <2>3, <2>4 DEF RowStep
<1> QED
    BY <1>1, <1>2, <1>3 DEF Queued

LEMMA ExpiredKept ==
  ASSUME TypeOK, OnlyActiveJobsAreLocked, ExpiredIsOver, "longOutage" \notin FaultKinds,
         [Next]_vars
  PROVE  ExpiredIsOver'
<1>1. ASSUME NEW j \in Jobs, j \in expired'
      PROVE  dispatch'[j] = "done" /\ (lms' \/ ~UnderWay(j)')
  <2>1. UNCHANGED expired \/ \E k \in Jobs : Expire(k)
        BY DispatchFrames DEF vars
  <2>2. UNCHANGED lms \/ LmsDown \/ LmsUp
        BY DispatchFrames DEF vars
  <2>3. CASE j \in expired
    <3>1. dispatch[j] = "done" /\ (lms \/ ~UnderWay(j))
          BY <2>3 DEF ExpiredIsOver
    <3>2. dispatch'[j] = "done"
          BY <3>1, DispatchDone
    <3>3. Fares(j)
          BY EveryJobFares
    <3>4. CASE LmsDown
      <4>1. ~UnderWay(j) /\ job' = job
            BY <2>3, <3>4 DEF LmsDown, LongOutages
      <4> QED
          BY <3>2, <4>1 DEF UnderWay
    <3>5. CASE LmsUp
          BY <3>2, <3>5 DEF LmsUp
    <3>6. CASE lms' = lms
      <4>1. CASE lms
            BY <3>2, <3>6, <4>1
      <4>2. ASSUME ~UnderWay(j)
            PROVE  ~UnderWay(j)'
        <5>1. ~Enters(j) /\ ~Continues(j)
              BY <3>1, <4>2 DEF Enters, Continues
        <5>2. ~Ends(j)
          <6>1. \A w \in Workers : ~Holds(w, j)
                BY <4>2, PipelineAssumption DEF OnlyActiveJobsAreLocked, Holds, UnderWay
          <6> QED
              BY <6>1 DEF Ends
        <5> QED
            BY <3>3, <4>2, <5>1, <5>2 DEF Fares, Alike, UnderWay
      <4> QED
          BY <3>1, <3>2, <3>6, <4>1, <4>2
    <3> QED
        BY <2>2, <3>4, <3>5, <3>6
  <2>4. CASE j \notin expired
    <3>1. PICK k \in Jobs : Expire(k)
          BY <1>1, <2>1, <2>4
    <3>2. j = k
          BY <1>1, <2>4, <3>1 DEF Expire
    <3> QED
        BY <3>1, <3>2 DEF Expire, LongOutages
  <2> QED
      BY <2>3, <2>4
<1>2. expired' \subseteq Jobs
      BY NextTyped DEF TypeOK
<1> QED
    BY <1>1, <1>2 DEF ExpiredIsOver

LEMMA FaultsStay ==
  ASSUME TypeOK, faults <= MaxFaults, [Next]_vars
  PROVE  faults' <= MaxFaults /\ \A n \in Nat : Spent(n) => Spent(n)'
<1>1. faults' \in {faults, faults + 1} /\ faults' <= MaxFaults
      BY FaultsCounted DEF vars
<1>2. ASSUME NEW n \in Nat, n <= faults
      PROVE  n <= faults'
      BY <1>1, <1>2 DEF TypeOK
<1> QED
    BY <1>1, <1>2 DEF Spent

\* Only what a worker holds is finished, and whoever gives up without an
\* answer and without being stopped has seen a panic.
LEMMA TallyKept ==
  ASSUME TypeOK, OnlyActiveJobsAreLocked, Tally, ErrorsCounted, faults <= MaxFaults,
         [Next]_vars
  PROVE  Tally'
<1>1. ASSUME NEW j \in Jobs, UnderWay(j)' \/ job'[j].place = "absent",
             NEW n, n = job'[j].made
      PROVE  Spent(n)'
  <2>1. n \in Nat
        BY <1>1, NextTyped DEF TypeOK, JobRecord
  <2>2. Fares(j)
        BY EveryJobFares
  <2>3. CASE Alike(j) \/ Enters(j) \/ Continues(j)
    <3>1. Spent(job[j].made) /\ job[j].made = n
          BY <1>1, <2>3 DEF Alike, Enters, Continues, UnderWay, Tally
    <3> QED
        BY <2>1, <3>1, FaultsStay
  <2>4. ASSUME NEW w \in Workers, worker[w].job = j, Holds(w, j),
               job'[j].made = job[j].made + 1,
               Fail(w), job'[j].place = "delayed", worker[w].outcome # "unrecoverable"
        PROVE  Spent(n)
    <3>1. worker[w].step = "finish" /\ worker[w].outcome = "error" /\ ~Interrupted(w)
          BY <2>4 DEF Fail
    <3> QED
        BY <1>1, <2>4, <3>1 DEF ErrorsCounted
  <2>5. CASE Ends(j)
        BY <1>1, <2>1, <2>4, <2>5, FaultsStay DEF Ends, UnderWay
  <2> QED
      BY <2>2, <2>3, <2>5 DEF Fares
<1> QED
    BY <1>1 DEF Tally

LEMMA ErrorsKept ==
  ASSUME TypeOK, OnlyActiveJobsAreLocked, WayInv, [Next]_vars
  PROVE  ErrorsCounted'
<1> USE DEF WayInv
<1>1. ASSUME NEW w \in Workers, worker'[w].step = "finish", worker'[w].outcome = "error",
             ~Interrupted(w)', job'[worker'[w].job].lock = w,
             NEW j, j = worker'[w].job, NEW n, n = job'[j].made + 1
      PROVE  Spent(n)'
  <2>1. KeepsJob(w) /\ Ruled(w)
        BY <1>1, EveryoneEnds DEF EndsUp
  <2>2. j \in Jobs /\ worker[w].job = j
        BY <1>1, <2>1, NextTyped DEF KeepsJob, TypeOK, WorkersOK, Goroutine
  <2>3. job[j].lock = w /\ job'[j].made = job[j].made /\ n \in Nat
    <3>1. Fares(j)
          BY <2>2, EveryJobFares
    <3>2. \A v \in Workers : job'[j].lock = v /\ Claim(v, j) => FALSE
          BY <1>1, <2>2, ClaimEnds
    <3>3. w # NoWorker
          BY PipelineAssumption
    <3>4. n \in Nat
          BY <1>1, <2>2, NextTyped DEF TypeOK, JobRecord
    <3> QED
        BY <1>1, <3>1, <3>2, <3>3, <3>4 DEF Fares, Alike, Enters, Continues, Ends
  <2>4. job[j].place = "active"
        BY <2>2, <2>3, PipelineAssumption DEF OnlyActiveJobsAreLocked
  <2>5. CASE worker[w].step = "finish" /\ worker'[w].outcome = worker[w].outcome
             /\ (Interrupted(w) => Interrupted(w)')
    <3>1. Spent(job[j].made + 1)
          BY <1>1, <2>2, <2>3, <2>5 DEF ErrorsCounted, Holds
    <3> QED
        BY <1>1, <2>3, <3>1, FaultsStay
  <2>6. CASE Panic(w)
    <3>1. "panic" \in FaultKinds /\ faults' = faults + 1
          BY <2>6 DEF Panic, Fault
    <3>2. Spent(job[j].made)
          BY <2>2, <2>4 DEF Tally, UnderWay
    <3>3. n <= faults'
          BY <1>1, <2>2, <2>3, <3>1, <3>2 DEF Spent, TypeOK, JobRecord
    <3> QED
        BY <3>1, <3>3 DEF Spent
  <2>7. CASE ~lms /\ worker[w].job \in expired
        BY <2>2, <2>4, <2>7 DEF ExpiredIsOver, UnderWay
  <2>8. CASE \E r \in Requests : Answered(w, r)
    <3>1. worker'[w].outcome \in {"unrecoverable", "done"}
          BY <2>8, ReturnsActs DEF Answered, Outcome
    <3> QED
        BY <1>1, <3>1
  <2> QED
      BY <1>1, <2>1, <2>5, <2>6, <2>7, <2>8 DEF Ruled
<1> QED
    BY <1>1 DEF ErrorsCounted, Holds

LEMMA AnswersKept ==
  ASSUME TypeOK, WaitersAwait, ExpiredIsOver, AnsweredIsSettled, [Next]_vars
  PROVE  AnsweredIsSettled'
<1>1. ASSUME NEW w \in Workers, worker'[w].step = "finish",
             worker'[w].outcome = "unrecoverable", NEW j, j = worker'[w].job
      PROVE  Settled(j)'
  <2>1. KeepsJob(w) /\ Ruled(w)
        BY <1>1, EveryoneEnds DEF EndsUp
  <2>2. j \in Jobs /\ worker[w].job = j
        BY <1>1, <2>1, NextTyped DEF KeepsJob, TypeOK, WorkersOK, Goroutine
  <2>3. CASE worker[w].step = "finish" /\ worker'[w].outcome = worker[w].outcome
        BY <1>1, <2>2, <2>3, SettledStays DEF AnsweredIsSettled
  <2>4. ASSUME NEW r \in Requests, Answered(w, r)
        PROVE  Settled(j)'
    <3>1. request[r].step \in {"accepted", "refused"} /\ request[r].job = j
          BY <2>2, <2>4, PipelineAssumption DEF Answered, WaitersAwait
    <3> QED
        BY <2>2, <3>1, SettledStays DEF AnsweredIsSettled
  <2> QED
      BY <1>1, <2>1, <2>3, <2>4 DEF Ruled
<1>2. ASSUME NEW r \in Requests, request'[r].step \in {"accepted", "refused"},
             NEW j, j = request'[r].job
      PROVE  Settled(j)'
  <2>1. UNCHANGED request \/ RequestStep
        BY Frames DEF Framed, vars
  <2>2. request[r].step \in {"accepted", "refused"} => request[r].job \in Jobs
        BY DEF TypeOK, RequestsOK
  <2>3. CASE request[r].step \in {"accepted", "refused"} /\ request[r].job = j
        BY <2>2, <2>3, SettledStays DEF AnsweredIsSettled
  <2> QED
      BY <1>2, <2>1, <2>3, RequestsRespond DEF Responds
<1> QED
    BY <1>1, <1>2 DEF AnsweredIsSettled

LEMMA EndedKept ==
  ASSUME Survivable, TypeOK, OnlyActiveJobsAreLocked, FinishingIsReported, WayInv,
         [Next]_vars
  PROVE  EndedIsSettled'
<1> USE DEF WayInv
<1>1. ASSUME NEW j \in Jobs, job'[j].place \in {"completed", "failed"}
      PROVE  Settled(j)
  <2>1. Fares(j)
        BY EveryJobFares
  <2>2. CASE Alike(j)
        BY <1>1, <2>2 DEF Alike, EndedIsSettled
  <2>3. CASE Enters(j) \/ Continues(j)
        BY <1>1, <2>3 DEF Enters, Continues, UnderWay
  <2>4. ASSUME NEW w \in Workers, worker[w].job = j, Complete(w)
        PROVE  Settled(j)
        BY <2>4 DEF Complete, Finishing, FinishingIsReported, Settled
  <2>5. ASSUME NEW w \in Workers, worker[w].job = j, Holds(w, j), Fail(w)
        PROVE  worker[w].outcome = "unrecoverable" \/ ~Exhausted(j)
    <3>1. CASE worker[w].outcome = "error"
      <4>1. Spent(job[j].made + 1)
            BY <2>5, <3>1 DEF Fail, ErrorsCounted
      <4>2. job[j].made \in Nat /\ faults \in Nat
            BY DEF TypeOK, JobRecord
      <4>3. "panic" \in FaultKinds /\ job[j].made + 1 <= faults
            BY <4>1, <4>2 DEF Spent
      <4>4. faults < Attempts
            BY <4>2, <4>3, PipelineAssumption DEF Survivable
      <4> QED
          BY <4>2, <4>3, <4>4, PipelineAssumption DEF Exhausted
    <3> QED
        BY <2>5, <3>1 DEF Fail
  <2>6. ASSUME NEW w \in Workers, worker[w].job = j, Fail(w),
               worker[w].outcome = "unrecoverable"
        PROVE  Settled(j)
        BY <2>6 DEF Fail, AnsweredIsSettled
  <2> QED
      BY <1>1, <2>1, <2>2, <2>3, <2>4, <2>5, <2>6 DEF Fares, Ends
<1> QED
    BY <1>1, SettledStays DEF EndedIsSettled

LEMMA WayKept ==
  ASSUME Survivable, TypeOK, OnlyActiveJobsAreLocked, ReportInv, WayInv, [Next]_vars
  PROVE  WayInv'
<1>1. Queued' /\ Tally' /\ ErrorsCounted' /\ faults' <= MaxFaults
      BY QueuedKept, TallyKept, ErrorsKept, FaultsStay DEF WayInv
<1>2. ExpiredIsOver'
      BY ExpiredKept DEF WayInv, Survivable
<1>3. AnsweredIsSettled' /\ EndedIsSettled'
      BY AnswersKept, EndedKept DEF WayInv, ReportInv
<1> QED
    BY <1>1, <1>2, <1>3 DEF WayInv

\* No submission is lost: whatever dies, lapses, times out or goes away for
\* less than a callback token lives, a named Submission without a verdict has
\* its job in the queue or with a worker, for any number of workers,
\* Submissions and faults as long as there are fewer panics than attempts
\* (pool.execute, Service.deliver, BullMQ's scripts).
THEOREM NothingIsLost ==
  ASSUME Survivable
  PROVE  SafeSpec => []StillOnTheWay
<1>1. Init => ReportInv /\ WayInv
      BY PipelineAssumption
         DEF Init, Resting, Free, ReportInv, ReportedBeforeDone, AcceptedIsReported,
             FinishingIsReported, WaitersAwait, OneCall, Reported, Finishing,
             WayInv, Queued, ExpiredIsOver, Tally, Spent, ErrorsCounted,
             AnsweredIsSettled, EndedIsSettled
<1>2. TypeOK /\ OnlyActiveJobsAreLocked /\ ReportInv /\ WayInv /\ [Next]_vars
      => ReportInv' /\ WayInv'
      BY ReportKept, WayKept
<1>3. TypeOK /\ WayInv => StillOnTheWay
  <2> SUFFICES ASSUME TypeOK, WayInv, NEW j \in Jobs, row[j].named,
                      row[j].verdict = "none"
               PROVE  UnderWay(j)
      BY DEF StillOnTheWay
  <2>1. ~Settled(j)
        BY DEF Settled, Reported
  <2>2. job[j].place \in Places \ {"absent", "completed", "failed"}
        BY <2>1 DEF WayInv, Queued, EndedIsSettled, TypeOK, JobRecord
  <2> QED
      BY <2>2 DEF Places, UnderWay
<1> QED
    BY <1>1, <1>2, <1>3, PipelineTypeCorrect, LocksAreActive, PTL DEF SafeSpec
==============================================================================
