------------------------------ MODULE WorkerPool ------------------------------
(***************************************************************************)
(* How one worker process shares its container slots between the two lanes *)
(* of the execution queue: formal submissions, which must not wait behind  *)
(* practice, and practice runs.                                            *)
(*                                                                         *)
(* Each goroutine runs `loop`: it takes a container slot, then claims a    *)
(* submission or, with one of the fewer run slots, a run, executes it and  *)
(* gives the slots back.  The two semaphores are counted, as the channels  *)
(* are: nothing in them says who holds what.                               *)
(*                                                                         *)
(* A job is one of its lane; what happens to its lock and its result is    *)
(* GradingPipeline's.  A wait for a queue marker ends by itself after five *)
(* seconds, so markers are left out: a goroutine that waits may look again *)
(* at any time.                                                            *)
(***************************************************************************)
EXTENDS Integers, FiniteSets

CONSTANTS
  Goroutines,         \* one per unit of Concurrency
  MaxContainers,
  ReservedForSubmit,  \* container slots runs may not take
  MaxSubmissions,     \* bound: submissions that arrive
  MaxRuns,            \* bound: runs that wait at once; they never stop coming
  MaxFaults           \* bound: how often something goes wrong

Concurrency == Cardinality(Goroutines)

\* What config.validate lets through.
validate ==
  /\ Concurrency >= 1
  /\ MaxContainers \in 1..Concurrency
  /\ ReservedForSubmit >= 0
  /\ ReservedForSubmit > 0 => ReservedForSubmit < MaxContainers

ASSUME PoolAssumption ==
  /\ IsFiniteSet(Goroutines)
  /\ {MaxContainers, ReservedForSubmit, MaxSubmissions, MaxRuns, MaxFaults} \subseteq Nat
  /\ validate

\* (Variant: the run lane is given every slot.)
runCapacityAll == MaxContainers

runCapacity == IF MaxContainers < ReservedForSubmit THEN 0
               ELSE MaxContainers - ReservedForSubmit

Lanes == {"submit", "run"}

VARIABLES
  step,        \* where each goroutine is in `loop`
  lane,        \* the lane of the job it has, or "none"
  containers,  \* tokens in the container semaphore
  runSlots,    \* tokens in the run semaphore
  waiting,     \* jobs in the wait list of each lane
  arrived,     \* submissions enqueued so far
  finished,    \* submissions done with: completed, or failed for good
  paused,      \* is claiming on hold?
  docker,      \* does the Docker daemon answer?
  lms,         \* does the LMS take results?
  stage,       \* of the process: accepting, draining, interrupting, over
  faults

vars == <<step, lane, containers, runSlots, waiting, arrived, finished, paused,
          docker, lms, stage, faults>>
outside == <<arrived, docker, lms, stage, faults>>

------------------------------------------------------------------------------
Init ==
  /\ step = [g \in Goroutines |-> "top"]
  /\ lane = [g \in Goroutines |-> "none"]
  /\ containers = 0 /\ runSlots = 0
  /\ waiting = [l \in Lanes |-> 0]
  /\ arrived = 0 /\ finished = 0
  /\ paused = FALSE
  /\ docker = TRUE /\ lms = TRUE
  /\ stage = "accept"
  /\ faults = 0

At(g, here, next) == step[g] = here /\ step' = [step EXCEPT ![g] = next]

Accepting == stage = "accept"

------------------------------------------------------------------------------
(* loop                                                                     *)

\* (Variant: a hold is never lifted.)
ReadyUnlessPaused == ~ paused

Ready == paused => docker

\* Claiming is on hold until a probe finds Docker answering.
awaitReady(g) ==
  /\ \/ ~ Accepting /\ At(g, "top", "stopped") /\ paused' = paused
     \/ /\ Accepting
        /\ Ready
        /\ At(g, "top", "slot")
        /\ paused' = FALSE
  /\ UNCHANGED <<lane, containers, runSlots, waiting, finished, outside>>

\* A container slot comes before any claim.
TakeSlot(g) ==
  /\ \/ /\ containers < MaxContainers
        /\ At(g, "slot", "claim")
        /\ containers' = containers + 1
     \/ /\ ~ Accepting
        /\ At(g, "slot", "stopped")
        /\ containers' = containers
  /\ UNCHANGED <<lane, runSlots, waiting, finished, paused, outside>>

\* The job leaves the wait list and is tracked as in flight.
Takes(g, l) ==
  /\ Accepting
  /\ waiting[l] > 0
  /\ waiting' = [waiting EXCEPT ![l] = @ - 1]
  /\ lane' = [lane EXCEPT ![g] = l]

\* Redis may fail to answer a claim, which then counts as empty.
RedisFails == faults < MaxFaults /\ faults' = faults + 1
NothingToClaim(l) ==
  \/ (waiting[l] = 0 \/ ~ Accepting) /\ faults' = faults
  \/ waiting[l] > 0 /\ Accepting /\ RedisFails

ClaimSubmission(g) ==
  /\ Takes(g, "submit")
  /\ At(g, "claim", "work")
  /\ UNCHANGED <<containers, runSlots, finished, paused, outside>>

\* No submission waits: a run may be claimed while runs have a slot left.
TakeRunSlot(g) ==
  /\ NothingToClaim("submit")
  /\ \/ /\ runSlots < runCapacity
        /\ At(g, "claim", "claimRun")
        /\ runSlots' = runSlots + 1
     \/ /\ runSlots = runCapacity
        /\ At(g, "claim", "empty")
        /\ runSlots' = runSlots
  /\ UNCHANGED <<lane, containers, waiting, finished, paused, arrived, docker, lms, stage>>

ClaimRun(g) ==
  /\ Takes(g, "run")
  /\ At(g, "claimRun", "work")
  /\ UNCHANGED <<containers, runSlots, finished, paused, outside>>

\* (Variant: the run slot is kept when there is no run.)
RunSlotKept == runSlots

RunSlotBack == runSlots - 1

NoRun(g) ==
  /\ NothingToClaim("run")
  /\ At(g, "claimRun", "empty")
  /\ runSlots' = RunSlotBack
  /\ UNCHANGED <<lane, containers, waiting, finished, paused, arrived, docker, lms, stage>>

\* The slot goes back before the goroutine sleeps on the markers.
Empty(g) ==
  /\ At(g, "empty", "await")
  /\ containers' = containers - 1
  /\ UNCHANGED <<lane, runSlots, waiting, finished, paused, outside>>

Await(g) ==
  /\ At(g, "await", "top")
  /\ UNCHANGED <<lane, containers, runSlots, waiting, finished, paused, outside>>

------------------------------------------------------------------------------
(* execute                                                                  *)

\* The job is over.  A submission's result is held until the LMS takes it.
Done(g) ==
  /\ lane[g] = "submit" => lms
  /\ finished' = IF lane[g] = "submit" THEN finished + 1 ELSE finished
  /\ UNCHANGED <<waiting, paused, faults>>

\* (Variant: a job that does not finish is not put back.)
BackForgotten(g) == waiting' = waiting

Back(g) == waiting' = [waiting EXCEPT ![lane[g]] = @ + 1]

\* The job failed and its retry policy brings it back.
Retries(g) ==
  /\ faults < MaxFaults /\ faults' = faults + 1
  /\ Back(g)
  /\ UNCHANGED <<finished, paused>>

\* ErrRequeue: nothing is claimed until Docker answers again.
Requeues(g) ==
  /\ ~ docker
  /\ paused' = TRUE
  /\ Back(g)
  /\ UNCHANGED <<finished, faults>>

Interrupted(g) ==
  /\ stage = "interrupt"
  /\ Back(g)
  /\ UNCHANGED <<finished, paused, faults>>

execute(g) ==
  /\ At(g, "work", "leave")
  /\ Done(g) \/ Retries(g) \/ Requeues(g) \/ Interrupted(g)
  /\ UNCHANGED <<lane, containers, runSlots, arrived, docker, lms, stage>>

\* (Variant: any job gives a run slot back.)
AfterAnyJob(g) == runSlots - 1

AfterJob(g) == IF lane[g] = "run" THEN runSlots - 1 ELSE runSlots

ReleaseRunSlot(g) ==
  /\ At(g, "leave", "release")
  /\ runSlots' = AfterJob(g)
  /\ lane' = [lane EXCEPT ![g] = "none"]
  /\ UNCHANGED <<containers, waiting, finished, paused, outside>>

ReleaseContainer(g) ==
  /\ At(g, "release", "top")
  /\ containers' = containers - 1
  /\ UNCHANGED <<lane, runSlots, waiting, finished, paused, outside>>

------------------------------------------------------------------------------
(* The process.                                                             *)

AllStopped == \A g \in Goroutines : step[g] = "stopped"

Terminate ==
  /\ stage = "accept"
  /\ stage' = "drain"
  /\ UNCHANGED <<step, lane, containers, runSlots, waiting, arrived, finished,
                 paused, docker, lms, faults>>

GraceEnds ==
  /\ stage = "drain" /\ ~ AllStopped
  /\ stage' = "interrupt"
  /\ UNCHANGED <<step, lane, containers, runSlots, waiting, arrived, finished,
                 paused, docker, lms, faults>>

\* A job whose goroutine has not come back from executing it.
InFlight(l) == {g \in Goroutines : step[g] = "work" /\ lane[g] = l}

\* (Variant: the process waits for its jobs for ever.)
WaitedForAll == stage \in {"drain", "interrupt"} /\ AllStopped

Waited == (stage = "drain" /\ AllStopped) \/ stage = "interrupt"

\* Jobs that are still tracked when everybody was waited for long enough go
\* back to their wait lists, and the process ends with what it held.
ReleaseInFlight ==
  /\ Waited
  /\ stage' = "over"
  /\ waiting' = [l \in Lanes |-> waiting[l] + Cardinality(InFlight(l))]
  /\ step' = [g \in Goroutines |-> "stopped"]
  /\ lane' = [g \in Goroutines |-> "none"]
  /\ containers' = 0 /\ runSlots' = 0
  /\ UNCHANGED <<arrived, finished, paused, docker, lms, faults>>

------------------------------------------------------------------------------
(* What the process runs among.                                             *)

Submit ==
  /\ arrived < MaxSubmissions
  /\ arrived' = arrived + 1
  /\ waiting' = [waiting EXCEPT !["submit"] = @ + 1]
  /\ UNCHANGED <<step, lane, containers, runSlots, finished, paused, docker, lms,
                 stage, faults>>

Practise ==
  /\ waiting["run"] < MaxRuns
  /\ waiting' = [waiting EXCEPT !["run"] = @ + 1]
  /\ UNCHANGED <<step, lane, containers, runSlots, arrived, finished, paused,
                 docker, lms, stage, faults>>

DockerFails ==
  /\ docker /\ faults < MaxFaults
  /\ docker' = FALSE /\ faults' = faults + 1
  /\ UNCHANGED <<step, lane, containers, runSlots, waiting, arrived, finished,
                 paused, lms, stage>>

DockerReturns ==
  /\ ~ docker
  /\ docker' = TRUE
  /\ UNCHANGED <<step, lane, containers, runSlots, waiting, arrived, finished,
                 paused, lms, stage, faults>>

LmsFails ==
  /\ lms /\ faults < MaxFaults
  /\ lms' = FALSE /\ faults' = faults + 1
  /\ UNCHANGED <<step, lane, containers, runSlots, waiting, arrived, finished,
                 paused, docker, stage>>

LmsReturns ==
  /\ ~ lms
  /\ lms' = TRUE
  /\ UNCHANGED <<step, lane, containers, runSlots, waiting, arrived, finished,
                 paused, docker, stage, faults>>

------------------------------------------------------------------------------
\* Everything a goroutine does between two executions.
Claims(g) ==
  \/ awaitReady(g) \/ TakeSlot(g) \/ ClaimSubmission(g) \/ TakeRunSlot(g)
  \/ ClaimRun(g) \/ NoRun(g) \/ Empty(g) \/ Await(g)
  \/ ReleaseRunSlot(g) \/ ReleaseContainer(g)

Next ==
  \/ \E g \in Goroutines : Claims(g) \/ execute(g)
  \/ Terminate \/ GraceEnds \/ ReleaseInFlight
  \/ Submit \/ Practise
  \/ DockerFails \/ DockerReturns \/ LmsFails \/ LmsReturns

\* A goroutine is scheduled, a submission's execution ends, outages end, and a
\* process told to stop is not stopped from stopping.  No run need ever end.
Fairness ==
  /\ \A g \in Goroutines :
       /\ WF_vars(Claims(g))
       /\ SF_vars(TakeSlot(g))
       /\ WF_vars(lane[g] = "submit" /\ execute(g))
  /\ WF_vars(GraceEnds) /\ WF_vars(ReleaseInFlight)
  /\ WF_vars(DockerReturns) /\ WF_vars(LmsReturns)

SafeSpec == Init /\ [][Next]_vars
Spec == SafeSpec /\ Fairness

------------------------------------------------------------------------------
TypeOK ==
  /\ step \in [Goroutines -> {"top", "slot", "claim", "claimRun", "empty", "await",
                              "work", "leave", "release", "stopped"}]
  /\ lane \in [Goroutines -> Lanes \cup {"none"}]
  /\ containers \in 0..MaxContainers
  /\ runSlots \in 0..runCapacity
  /\ waiting \in [Lanes -> Nat]
  /\ arrived \in Nat /\ finished \in Nat /\ faults \in Nat
  /\ {paused, docker, lms} \subseteq BOOLEAN
  /\ stage \in {"accept", "drain", "interrupt", "over"}

\* The goroutines between taking a container slot and giving it back, and
\* those that also took one of the run slots.
HasContainer ==
  {g \in Goroutines : step[g] \in {"claim", "claimRun", "empty", "work", "leave", "release"}}
HasRunSlot ==
  {g \in Goroutines : step[g] = "claimRun" \/ lane[g] = "run"}

\* No path through `loop` leaks a slot or returns one twice: each semaphore
\* holds exactly as many tokens as goroutines own one.  A leak would shrink
\* the worker for good without a trace.
SlotsAccounted ==
  /\ containers = Cardinality(HasContainer)
  /\ runSlots = Cardinality(HasRunSlot)

\* Runs never take the slots held for submissions, and no two kinds of work
\* together more than there are containers.
ReserveKept ==
  LET executing(l) == {g \in Goroutines : step[g] = "work" /\ lane[g] = l} IN
  /\ Cardinality(executing("run")) <= MaxContainers - ReservedForSubmit
  /\ Cardinality(executing("run") \cup executing("submit")) <= MaxContainers

\* A submission is waiting, in the hands of a goroutine that executes it, or
\* done with: a failure, a requeue, an interruption or a shutdown loses none.
NoSubmissionLost ==
  arrived = waiting["submit"] + Cardinality(InFlight("submit")) + finished

\* "A flood of practice runs must never starve formal grading" (main.go): all
\* submissions are claimed, though runs never stop coming and none of them
\* ever ends, unless the worker is told to stop.
SubmissionsAreClaimed ==
  waiting["submit"] > 0 ~> waiting["submit"] = 0 \/ ~ Accepting

\* A worker told to stop does, whatever its jobs are doing.
Stops == ~ Accepting ~> stage = "over"
==============================================================================
