--------------------------- MODULE WorkerPool_proofs ---------------------------
(***************************************************************************)
(* Safety of WorkerPool for any number of goroutines, any split of the     *)
(* container slots that config.validate lets through, and any traffic.     *)
(*                                                                         *)
(* The semaphores say nothing about who holds what.  The invariant does:   *)
(* each is as full as the set of goroutines that are where a token is      *)
(* held, and every step moves one goroutine in or out of such a set as it  *)
(* moves the count.                                                        *)
(***************************************************************************)
EXTENDS WorkerPool, FiniteSetTheorems, TLAPS

Places == {"top", "slot", "claim", "claimRun", "empty", "await",
           "work", "leave", "release", "stopped"}

\* A goroutine has a job exactly while it executes it or has just done so.
JobAtWork == \A g \in Goroutines : lane[g] # "none" <=> step[g] \in {"work", "leave"}

IInv == TypeOK /\ JobAtWork /\ SlotsAccounted /\ NoSubmissionLost

\* Sets of goroutines are counted one goroutine at a time.
LEMMA Counting ==
  ASSUME NEW S \in SUBSET Goroutines, NEW g \in Goroutines
  PROVE  /\ IsFiniteSet(S) /\ Cardinality(S) \in Nat
         /\ g \notin S => Cardinality(S \cup {g}) = Cardinality(S) + 1
         /\ g \in S => Cardinality(S \ {g}) = Cardinality(S) - 1 /\ Cardinality(S) >= 1
  <1>1. IsFiniteSet(S) /\ Cardinality(S) \in Nat
    BY PoolAssumption, FS_Subset, FS_CardinalityType
  <1>2. g \notin S => Cardinality(S \cup {g}) = Cardinality(S) + 1
    BY <1>1, FS_AddElement
  <1>3. ASSUME g \in S
        PROVE  Cardinality(S \ {g}) = Cardinality(S) - 1 /\ Cardinality(S) >= 1
    <2>1. Cardinality(S \ {g}) = Cardinality(S) - 1 /\ IsFiniteSet(S \ {g})
      BY <1>1, <1>3, FS_RemoveElement
    <2>2. Cardinality(S \ {g}) \in Nat
      BY <2>1, FS_CardinalityType
    <2> QED BY <1>1, <2>1, <2>2
  <1> QED BY <1>1, <1>2, <1>3

\* The run lane leaves the reserve alone, whatever the configuration.
LEMMA Capacities ==
  /\ MaxContainers \in Nat /\ ReservedForSubmit \in Nat /\ MaxFaults \in Nat
  /\ MaxRuns \in Nat /\ MaxSubmissions \in Nat
  /\ runCapacity \in 0..MaxContainers
  /\ runCapacity = MaxContainers - ReservedForSubmit
  <1>1. {MaxContainers, ReservedForSubmit, MaxSubmissions, MaxRuns, MaxFaults} \subseteq Nat
    BY PoolAssumption
  <1>2. /\ MaxContainers >= 1 /\ ReservedForSubmit >= 0
        /\ ReservedForSubmit > 0 => ReservedForSubmit < MaxContainers
    <2>1. Concurrency \in Nat
      BY PoolAssumption, FS_CardinalityType DEF Concurrency
    <2> QED BY <2>1, PoolAssumption DEF validate
  <1> QED BY <1>1, <1>2 DEF runCapacity

LEMMA InitIInv == Init => IInv
  <1> SUFFICES ASSUME Init PROVE IInv
    OBVIOUS
  <1>1. /\ HasContainer = {} /\ HasRunSlot = {} /\ InFlight("submit") = {}
    BY DEF Init, HasContainer, HasRunSlot, InFlight
  <1>2. Cardinality({}) = 0
    BY FS_EmptySet
  <1>3. TypeOK
    <2>1. /\ step \in [Goroutines -> {"top", "slot", "claim", "claimRun", "empty", "await",
                                       "work", "leave", "release", "stopped"}]
          /\ lane \in [Goroutines -> Lanes \cup {"none"}]
      BY DEF Init
    <2>2. containers \in 0..MaxContainers /\ runSlots \in 0..runCapacity
      BY Capacities DEF Init
    <2>3. waiting \in [Lanes -> Nat]
      BY DEF Init
    <2> QED BY <2>1, <2>2, <2>3 DEF Init, TypeOK
  <1> QED BY <1>1, <1>2, <1>3
         DEF Init, IInv, JobAtWork, SlotsAccounted, NoSubmissionLost, Lanes

\* What a goroutine holds depends on where it is and on its lane.
LEMMA Moved ==
  ASSUME TypeOK, NEW g \in Goroutines, NEW next \in Places, NEW l \in Lanes \cup {"none"},
         step' = [step EXCEPT ![g] = next], lane' = [lane EXCEPT ![g] = l],
         JobAtWork
  PROVE  /\ step' \in [Goroutines -> Places]
         /\ lane' \in [Goroutines -> Lanes \cup {"none"}]
         /\ (l # "none" <=> next \in {"work", "leave"}) => JobAtWork'
         /\ HasContainer' =
              IF next \in {"claim", "claimRun", "empty", "work", "leave", "release"}
              THEN HasContainer \cup {g} ELSE HasContainer \ {g}
         /\ HasRunSlot' = IF next = "claimRun" \/ l = "run"
                          THEN HasRunSlot \cup {g} ELSE HasRunSlot \ {g}
         /\ InFlight("submit")' = IF next = "work" /\ l = "submit"
                                  THEN InFlight("submit") \cup {g}
                                  ELSE InFlight("submit") \ {g}
  <1>1. /\ step \in [Goroutines -> Places] /\ lane \in [Goroutines -> Lanes \cup {"none"}]
    BY DEF TypeOK, Places
  <1>2. /\ step' \in [Goroutines -> Places] /\ lane' \in [Goroutines -> Lanes \cup {"none"}]
    BY <1>1
  <1>3. \A h \in Goroutines : /\ step'[h] = IF h = g THEN next ELSE step[h]
                              /\ lane'[h] = IF h = g THEN l ELSE lane[h]
    BY <1>1
  <1> QED BY <1>2, <1>3 DEF JobAtWork, HasContainer, HasRunSlot, InFlight

\* What a goroutine at a place, with a lane, adds to each count.
Container(p) == IF p \in {"claim", "claimRun", "empty", "work", "leave", "release"}
                THEN 1 ELSE 0
RunSlot(p, l) == IF p = "claimRun" \/ l = "run" THEN 1 ELSE 0
Submission(p, l) == IF p = "work" /\ l = "submit" THEN 1 ELSE 0

\* A set that gains or loses one goroutine is counted so.
LEMMA CountMoves ==
  ASSUME NEW S \in SUBSET Goroutines, NEW g \in Goroutines, NEW in \in BOOLEAN
  PROVE  Cardinality(IF in THEN S \cup {g} ELSE S \ {g}) =
           Cardinality(S) + (IF in THEN 1 ELSE 0) - (IF g \in S THEN 1 ELSE 0)
  <1>1. CASE g \in S
    <2>1. S \cup {g} = S
      BY <1>1
    <2>2. Cardinality(S) \in Nat /\ Cardinality(S \ {g}) = Cardinality(S) - 1
      BY <1>1, Counting
    <2>3. CASE in
      BY <1>1, <2>1, <2>2, <2>3
    <2>4. CASE ~ in
      BY <1>1, <2>1, <2>2, <2>4
    <2> QED BY <2>3, <2>4
  <1>2. CASE g \notin S
    <2>1. S \ {g} = S
      BY <1>2
    <2>2. Cardinality(S) \in Nat /\ Cardinality(S \cup {g}) = Cardinality(S) + 1
      BY <1>2, Counting
    <2>3. CASE in
      BY <1>2, <2>1, <2>2, <2>3
    <2>4. CASE ~ in
      BY <1>2, <2>1, <2>2, <2>4
    <2> QED BY <2>3, <2>4
  <1> QED BY <1>1, <1>2

\* A token is there to be given back.
LEMMA Holding ==
  ASSUME IInv, NEW g \in Goroutines
  PROVE  /\ containers \in Nat /\ runSlots \in Nat
         /\ containers <= MaxContainers /\ runSlots <= runCapacity
         /\ Container(step[g]) = 1 => containers >= 1
         /\ RunSlot(step[g], lane[g]) = 1 => runSlots >= 1
  <1>1. /\ HasContainer \in SUBSET Goroutines /\ HasRunSlot \in SUBSET Goroutines
        /\ Container(step[g]) = 1 => g \in HasContainer
        /\ RunSlot(step[g], lane[g]) = 1 => g \in HasRunSlot
    BY DEF HasContainer, HasRunSlot, Container, RunSlot
  <1>2. containers = Cardinality(HasContainer) /\ runSlots = Cardinality(HasRunSlot)
    BY DEF IInv, SlotsAccounted
  <1>3. containers <= MaxContainers /\ runSlots <= runCapacity
    BY Capacities DEF IInv, TypeOK
  <1> QED BY <1>1, <1>2, <1>3, Counting

\* A goroutine that goes from one place to another keeps the accounts if the
\* counts change by what it takes along.
LEMMA GoroutineMoves ==
  ASSUME IInv, TypeOK', NEW g \in Goroutines, NEW next \in Places,
         NEW l \in Lanes \cup {"none"},
         step' = [step EXCEPT ![g] = next], lane' = [lane EXCEPT ![g] = l],
         l # "none" <=> next \in {"work", "leave"},
         containers' = containers + Container(next) - Container(step[g]),
         runSlots' = runSlots + RunSlot(next, l) - RunSlot(step[g], lane[g]),
         arrived' = arrived,
         waiting'["submit"] + finished' + Submission(next, l) =
           waiting["submit"] + finished + Submission(step[g], lane[g])
  PROVE  IInv'
  <1>0. /\ Container(next) = 1 <=>
             next \in {"claim", "claimRun", "empty", "work", "leave", "release"}
        /\ RunSlot(next, l) = 1 <=> next = "claimRun" \/ l = "run"
        /\ Submission(next, l) = 1 <=> next = "work" /\ l = "submit"
    BY DEF Container, RunSlot, Submission
  <1>1. /\ JobAtWork'
        /\ HasContainer' = IF Container(next) = 1
                           THEN HasContainer \cup {g} ELSE HasContainer \ {g}
        /\ HasRunSlot' = IF RunSlot(next, l) = 1
                         THEN HasRunSlot \cup {g} ELSE HasRunSlot \ {g}
        /\ InFlight("submit")' = IF Submission(next, l) = 1
                                 THEN InFlight("submit") \cup {g}
                                 ELSE InFlight("submit") \ {g}
    <2>1. TypeOK /\ JobAtWork
      BY DEF IInv
    <2> QED BY <1>0, <2>1, Moved
  <1>2. /\ HasContainer \in SUBSET Goroutines /\ HasRunSlot \in SUBSET Goroutines
        /\ InFlight("submit") \in SUBSET Goroutines
        /\ g \in HasContainer <=> Container(step[g]) = 1
        /\ g \in HasRunSlot <=> RunSlot(step[g], lane[g]) = 1
        /\ g \in InFlight("submit") <=> Submission(step[g], lane[g]) = 1
    BY DEF HasContainer, HasRunSlot, InFlight, Container, RunSlot, Submission
  <1>3. Cardinality(HasContainer)' =
          Cardinality(HasContainer) + Container(next) - Container(step[g])
    <2>1. Cardinality(HasContainer') =
            Cardinality(HasContainer) + (IF Container(next) = 1 THEN 1 ELSE 0)
              - (IF g \in HasContainer THEN 1 ELSE 0)
      BY <1>1, <1>2, CountMoves
    <2> QED BY <2>1, <1>2 DEF Container
  <1>4. Cardinality(HasRunSlot)' =
          Cardinality(HasRunSlot) + RunSlot(next, l) - RunSlot(step[g], lane[g])
    <2>1. Cardinality(HasRunSlot') =
            Cardinality(HasRunSlot) + (IF RunSlot(next, l) = 1 THEN 1 ELSE 0)
              - (IF g \in HasRunSlot THEN 1 ELSE 0)
      BY <1>1, <1>2, CountMoves
    <2> QED BY <2>1, <1>2 DEF RunSlot
  <1>5. Cardinality(InFlight("submit"))' =
          Cardinality(InFlight("submit")) + Submission(next, l) - Submission(step[g], lane[g])
    <2>1. Cardinality(InFlight("submit")') =
            Cardinality(InFlight("submit")) + (IF Submission(next, l) = 1 THEN 1 ELSE 0)
              - (IF g \in InFlight("submit") THEN 1 ELSE 0)
      <3> DEFINE S == InFlight("submit")
                 T == IF Submission(next, l) = 1 THEN S \cup {g} ELSE S \ {g}
      <3>1. S \in SUBSET Goroutines /\ InFlight("submit")' = T
        BY <1>1, <1>2
      <3>2. Cardinality(T) = Cardinality(S) + (IF Submission(next, l) = 1 THEN 1 ELSE 0)
                               - (IF g \in S THEN 1 ELSE 0)
        <4> HIDE DEF S
        <4> QED BY <3>1, CountMoves
      <3> QED BY <3>1, <3>2
    <2> QED BY <2>1, <1>2 DEF Submission
  <1>6. SlotsAccounted'
    BY <1>3, <1>4 DEF IInv, SlotsAccounted
  <1>7. NoSubmissionLost'
    <2>0. TypeOK
      BY DEF IInv
    <2>a. Cardinality(InFlight("submit")) \in Nat
      BY <1>2, Counting
    <2>1. /\ Cardinality(InFlight("submit")) \in Nat
          /\ waiting["submit"] \in Nat /\ waiting'["submit"] \in Nat
          /\ finished \in Nat /\ finished' \in Nat
      BY <2>0, <2>a DEF TypeOK, Lanes
    <2>2. Submission(next, l) \in Int /\ Submission(step[g], lane[g]) \in Int
      BY DEF Submission
    <2>3. arrived = waiting["submit"] + Cardinality(InFlight("submit")) + finished
      BY DEF IInv, NoSubmissionLost
    <2>4. arrived' = waiting'["submit"] + Cardinality(InFlight("submit"))' + finished'
      BY <1>5, <2>1, <2>2, <2>3
    <2> QED BY <2>4 DEF NoSubmissionLost
  <1> QED BY <1>1, <1>6, <1>7 DEF IInv

\* A goroutine without a job moves.
LEMMA IdleMoves ==
  ASSUME IInv, TypeOK', NEW g \in Goroutines, NEW here, NEW next \in Places,
         {here, next} \cap {"work", "leave"} = {},
         step[g] = here, step' = [step EXCEPT ![g] = next],
         UNCHANGED <<lane, arrived, finished>>, waiting'["submit"] = waiting["submit"],
         containers' = containers + Container(next) - Container(here),
         runSlots' = runSlots + RunSlot(next, "none") - RunSlot(here, "none")
  PROVE  IInv'
  <1>1. TypeOK /\ lane[g] = "none"
    BY DEF IInv, JobAtWork
  <1>2. lane' = [lane EXCEPT ![g] = "none"]
    BY <1>1 DEF TypeOK
  <1>3. Submission(next, "none") = 0 /\ Submission(step[g], lane[g]) = 0
    BY <1>1 DEF Submission
  <1>4. waiting'["submit"] + finished' + Submission(next, "none") =
          waiting["submit"] + finished + Submission(step[g], lane[g])
    BY <1>3
  <1>5. "none" \in Lanes \cup {"none"} /\ ("none" # "none" <=> next \in {"work", "leave"})
    OBVIOUS
  <1> QED BY <1>1, <1>2, <1>4, <1>5, GoroutineMoves

\* A goroutine claims a job of lane l.
LEMMA ClaimMoves ==
  ASSUME IInv, TypeOK', NEW g \in Goroutines, NEW here \in {"claim", "claimRun"}, NEW l \in Lanes,
         l = "run" <=> here = "claimRun",
         step[g] = here, step' = [step EXCEPT ![g] = "work"], Takes(g, l),
         UNCHANGED <<containers, runSlots, arrived, finished>>
  PROVE  IInv'
  <1>1. /\ TypeOK /\ lane[g] = "none" /\ lane' = [lane EXCEPT ![g] = l]
        /\ containers \in Nat /\ runSlots \in Nat
        /\ waiting' = [waiting EXCEPT ![l] = @ - 1]
    BY Holding DEF IInv, JobAtWork, Takes
  <1>2. containers' = containers + Container("work") - Container(step[g])
    BY <1>1 DEF Container
  <1>3. runSlots' = runSlots + RunSlot("work", l) - RunSlot(step[g], lane[g])
    BY <1>1 DEF RunSlot, Lanes
  <1>4. waiting'["submit"] + finished' + Submission("work", l) =
          waiting["submit"] + finished + Submission(step[g], lane[g])
    BY <1>1 DEF Submission, Lanes, TypeOK
  <1>5. "work" \in Places /\ l \in Lanes \cup {"none"}
        /\ (l # "none" <=> "work" \in {"work", "leave"})
    BY DEF Places, Lanes
  <1> QED BY <1>1, <1>2, <1>3, <1>4, <1>5, GoroutineMoves

LEMMA ClaimsTypes ==
  ASSUME IInv, NEW g \in Goroutines, Claims(g)
  PROVE  TypeOK'
  <1> USE Holding, Capacities DEF At, outside, TypeOK, Lanes
  <1>0. TypeOK /\ JobAtWork
    BY DEF IInv
  <1>1. CASE awaitReady(g)
    BY <1>0, <1>1 DEF awaitReady
  <1>2. CASE TakeSlot(g)
    BY <1>0, <1>2 DEF TakeSlot
  <1>3. CASE ClaimSubmission(g)
    BY <1>0, <1>3 DEF ClaimSubmission, Takes
  <1>4. CASE TakeRunSlot(g)
    <2>1. faults' \in Nat
      BY <1>0, <1>4 DEF TakeRunSlot, NothingToClaim, RedisFails
    <2> QED BY <1>0, <1>4, <2>1 DEF TakeRunSlot
  <1>5. CASE ClaimRun(g)
    BY <1>0, <1>5 DEF ClaimRun, Takes
  <1>6. CASE NoRun(g)
    <2>1. faults' \in Nat /\ runSlots >= 1
      BY <1>0, <1>6 DEF NoRun, NothingToClaim, RedisFails, RunSlot
    <2> QED BY <1>0, <1>6, <2>1 DEF NoRun, RunSlotBack
  <1>7. CASE Empty(g)
    <2>1. containers >= 1
      BY <1>7 DEF Empty, Container
    <2> QED BY <1>0, <1>7, <2>1 DEF Empty
  <1>8. CASE Await(g)
    BY <1>0, <1>8 DEF Await
  <1>9. CASE ReleaseRunSlot(g)
    <2>1. lane[g] = "run" => runSlots >= 1
      BY DEF RunSlot
    <2> QED BY <1>0, <1>9, <2>1 DEF ReleaseRunSlot, AfterJob
  <1>10. CASE ReleaseContainer(g)
    <2>1. containers >= 1
      BY <1>10 DEF ReleaseContainer, Container
    <2> QED BY <1>0, <1>10, <2>1 DEF ReleaseContainer
  <1> QED BY <1>1, <1>2, <1>3, <1>4, <1>5, <1>6, <1>7, <1>8, <1>9, <1>10 DEF Claims

LEMMA ClaimsKeep ==
  ASSUME IInv, NEW g \in Goroutines, Claims(g)
  PROVE  IInv'
  <1>0. TypeOK' /\ containers \in Nat /\ runSlots \in Nat
    BY ClaimsTypes, Holding
  <1> USE DEF At, outside
  <1>i. ASSUME NEW here \in Places, NEW next \in Places, step[g] = here,
               {here, next} \cap {"work", "leave"} = {},
               step' = [step EXCEPT ![g] = next],
               UNCHANGED <<lane, arrived, finished, waiting>>,
               containers' = containers + Container(next) - Container(here),
               runSlots' = runSlots + RunSlot(next, "none") - RunSlot(here, "none")
        PROVE  IInv'
    BY <1>0, <1>i, IdleMoves
  <1>1. CASE awaitReady(g)
    <2>1. PICK next \in {"slot", "stopped"} :
            step[g] = "top" /\ step' = [step EXCEPT ![g] = next]
      BY <1>1 DEF awaitReady
    <2>2. /\ UNCHANGED <<lane, arrived, finished, waiting>>
          /\ containers' = containers + Container(next) - Container("top")
          /\ runSlots' = runSlots + RunSlot(next, "none") - RunSlot("top", "none")
      BY <1>0, <1>1 DEF awaitReady, Container, RunSlot
    <2> QED BY <1>i, <2>1, <2>2 DEF Places
  <1>2. CASE TakeSlot(g)
    <2>1. PICK next \in {"claim", "stopped"} :
            /\ step[g] = "slot" /\ step' = [step EXCEPT ![g] = next]
            /\ containers' = IF next = "claim" THEN containers + 1 ELSE containers
      BY <1>2 DEF TakeSlot
    <2>2. /\ UNCHANGED <<lane, arrived, finished, waiting>>
          /\ containers' = containers + Container(next) - Container("slot")
          /\ runSlots' = runSlots + RunSlot(next, "none") - RunSlot("slot", "none")
      BY <1>0, <1>2, <2>1 DEF TakeSlot, Container, RunSlot
    <2> QED BY <1>i, <2>1, <2>2 DEF Places
  <1>3. CASE ClaimSubmission(g)
    BY <1>0, <1>3, ClaimMoves DEF ClaimSubmission, Lanes
  <1>4. CASE TakeRunSlot(g)
    <2>1. PICK next \in {"claimRun", "empty"} :
            /\ step[g] = "claim" /\ step' = [step EXCEPT ![g] = next]
            /\ runSlots' = IF next = "claimRun" THEN runSlots + 1 ELSE runSlots
      BY <1>4 DEF TakeRunSlot
    <2>2. /\ UNCHANGED <<lane, arrived, finished, waiting>>
          /\ containers' = containers + Container(next) - Container("claim")
          /\ runSlots' = runSlots + RunSlot(next, "none") - RunSlot("claim", "none")
      BY <1>0, <1>4, <2>1 DEF TakeRunSlot, Container, RunSlot
    <2> QED BY <1>i, <2>1, <2>2 DEF Places
  <1>5. CASE ClaimRun(g)
    BY <1>0, <1>5, ClaimMoves DEF ClaimRun, Lanes
  <1>6. CASE NoRun(g)
    <2>1. /\ step[g] = "claimRun" /\ step' = [step EXCEPT ![g] = "empty"]
          /\ UNCHANGED <<lane, arrived, finished, waiting>>
          /\ containers' = containers + Container("empty") - Container("claimRun")
          /\ runSlots' = runSlots + RunSlot("empty", "none") - RunSlot("claimRun", "none")
      BY <1>0, <1>6 DEF NoRun, RunSlotBack, Container, RunSlot
    <2> QED BY <1>i, <2>1 DEF Places
  <1>7. CASE Empty(g)
    <2>1. /\ step[g] = "empty" /\ step' = [step EXCEPT ![g] = "await"]
          /\ UNCHANGED <<lane, arrived, finished, waiting>>
          /\ containers' = containers + Container("await") - Container("empty")
          /\ runSlots' = runSlots + RunSlot("await", "none") - RunSlot("empty", "none")
      BY <1>0, <1>7 DEF Empty, Container, RunSlot
    <2> QED BY <1>i, <2>1 DEF Places
  <1>8. CASE Await(g)
    <2>1. /\ step[g] = "await" /\ step' = [step EXCEPT ![g] = "top"]
          /\ UNCHANGED <<lane, arrived, finished, waiting>>
          /\ containers' = containers + Container("top") - Container("await")
          /\ runSlots' = runSlots + RunSlot("top", "none") - RunSlot("await", "none")
      BY <1>0, <1>8 DEF Await, Container, RunSlot
    <2> QED BY <1>i, <2>1 DEF Places
  <1>9. CASE ReleaseRunSlot(g)
    <2>1. /\ step[g] = "leave" /\ step' = [step EXCEPT ![g] = "release"]
          /\ lane' = [lane EXCEPT ![g] = "none"]
          /\ UNCHANGED <<arrived, finished, waiting>>
          /\ containers' = containers + Container("release") - Container(step[g])
          /\ runSlots' = runSlots + RunSlot("release", "none") - RunSlot(step[g], lane[g])
      BY <1>0, <1>9 DEF ReleaseRunSlot, AfterJob, Container, RunSlot
    <2>2. waiting'["submit"] + finished' + Submission("release", "none") =
            waiting["submit"] + finished + Submission(step[g], lane[g])
      BY <2>1 DEF Submission
    <2>3. "release" \in Places /\ "none" \in Lanes \cup {"none"}
          /\ ("none" # "none" <=> "release" \in {"work", "leave"})
      BY DEF Places
    <2> QED BY <1>0, <2>1, <2>2, <2>3, GoroutineMoves
  <1>10. CASE ReleaseContainer(g)
    <2>1. /\ step[g] = "release" /\ step' = [step EXCEPT ![g] = "top"]
          /\ UNCHANGED <<lane, arrived, finished, waiting>>
          /\ containers' = containers + Container("top") - Container("release")
          /\ runSlots' = runSlots + RunSlot("top", "none") - RunSlot("release", "none")
      BY <1>0, <1>10 DEF ReleaseContainer, Container, RunSlot
    <2> QED BY <1>i, <2>1 DEF Places
  <1> QED BY <1>1, <1>2, <1>3, <1>4, <1>5, <1>6, <1>7, <1>8, <1>9, <1>10 DEF Claims

\* Whatever becomes of a job, its submission is accounted for.
LEMMA ExecuteKeeps ==
  ASSUME IInv, NEW g \in Goroutines, execute(g)
  PROVE  IInv'
  <1> USE DEF At
  <1>1. /\ TypeOK /\ step[g] = "work" /\ lane[g] \in Lanes
        /\ step' = [step EXCEPT ![g] = "leave"] /\ lane' = lane
        /\ UNCHANGED <<containers, runSlots, arrived, docker, lms, stage>>
        /\ waiting["submit"] \in Nat /\ finished \in Nat /\ faults \in Nat
        /\ waiting \in [Lanes -> Nat]
    BY DEF IInv, JobAtWork, execute, TypeOK, Lanes
  <1>2. /\ waiting' \in [Lanes -> Nat] /\ finished' \in Nat /\ faults' \in Nat
        /\ paused' \in {paused, TRUE}
        /\ waiting'["submit"] + finished' =
              waiting["submit"] + finished + (IF lane[g] = "submit" THEN 1 ELSE 0)
    <2>1. CASE Done(g)
      BY <1>1, <2>1 DEF Done, Lanes
    <2>2. ASSUME Back(g), finished' = finished
          PROVE  /\ waiting' \in [Lanes -> Nat] /\ finished' \in Nat
                 /\ waiting'["submit"] + finished' =
                      waiting["submit"] + finished + (IF lane[g] = "submit" THEN 1 ELSE 0)
      BY <1>1, <2>2 DEF Back, Lanes
    <2>3. CASE Retries(g)
      BY <1>1, <2>2, <2>3 DEF Retries
    <2>4. CASE Requeues(g)
      BY <1>1, <2>2, <2>4 DEF Requeues
    <2>5. CASE Interrupted(g)
      BY <1>1, <2>2, <2>5 DEF Interrupted
    <2> QED BY <2>1, <2>3, <2>4, <2>5 DEF execute
  <1>3. TypeOK'
    <2>1. step' \in [Goroutines -> Places] /\ lane' \in [Goroutines -> Lanes \cup {"none"}]
      BY <1>1 DEF TypeOK, Places
    <2>2. containers' \in 0..MaxContainers /\ runSlots' \in 0..runCapacity /\ arrived' \in Nat
      BY <1>1 DEF TypeOK
    <2> QED BY <1>1, <1>2, <2>1, <2>2 DEF TypeOK, Places
  <1>4. lane' = [lane EXCEPT ![g] = lane[g]]
    BY <1>1 DEF TypeOK
  <1>5. /\ containers' = containers + Container("leave") - Container(step[g])
        /\ runSlots' = runSlots + RunSlot("leave", lane[g]) - RunSlot(step[g], lane[g])
    BY <1>1, Holding DEF Container, RunSlot
  <1>6. waiting'["submit"] + finished' + Submission("leave", lane[g]) =
          waiting["submit"] + finished + Submission(step[g], lane[g])
    BY <1>1, <1>2 DEF Submission, Lanes
  <1>7. /\ "leave" \in Places /\ lane[g] \in Lanes \cup {"none"} /\ arrived' = arrived
        /\ (lane[g] # "none" <=> "leave" \in {"work", "leave"})
    BY <1>1 DEF Places, Lanes
  <1> QED BY <1>1, <1>3, <1>4, <1>5, <1>6, <1>7, GoroutineMoves

\* No slot outlives the process, and what was in flight is back in its list.
LEMMA ReleaseKeeps == ASSUME IInv, ReleaseInFlight PROVE IInv'
  <1>0. TypeOK
    BY DEF IInv
  <1>1. \A l \in Lanes : Cardinality(InFlight(l)) \in Nat
    BY PoolAssumption, FS_Subset, FS_CardinalityType DEF InFlight
  <1>2. waiting' \in [Lanes -> Nat]
    BY <1>0, <1>1 DEF ReleaseInFlight, TypeOK
  <1>3. TypeOK'
    <2>1. /\ step' \in [Goroutines -> {"top", "slot", "claim", "claimRun", "empty", "await",
                                        "work", "leave", "release", "stopped"}]
          /\ lane' \in [Goroutines -> Lanes \cup {"none"}]
      BY DEF ReleaseInFlight
    <2>2. containers' \in 0..MaxContainers /\ runSlots' \in 0..runCapacity
      BY Capacities DEF ReleaseInFlight
    <2> QED BY <1>0, <1>2, <2>1, <2>2 DEF ReleaseInFlight, TypeOK
  <1>4. HasContainer' = {} /\ HasRunSlot' = {} /\ InFlight("submit")' = {}
    BY DEF ReleaseInFlight, HasContainer, HasRunSlot, InFlight
  <1>5. SlotsAccounted'
    BY <1>4, FS_EmptySet DEF ReleaseInFlight, SlotsAccounted
  <1>6. NoSubmissionLost'
    <2>1. waiting'["submit"] = waiting["submit"] + Cardinality(InFlight("submit"))
      BY DEF ReleaseInFlight, Lanes
    <2>2. waiting'["submit"] \in Nat /\ finished \in Nat /\ finished' = finished /\ arrived' = arrived
      BY <1>0, <1>2 DEF ReleaseInFlight, TypeOK, Lanes
    <2>3. Cardinality(InFlight("submit"))' = 0
      BY <1>4, FS_EmptySet
    <2>4. arrived = waiting["submit"] + Cardinality(InFlight("submit")) + finished
      BY DEF IInv, NoSubmissionLost
    <2>5. arrived' = waiting'["submit"] + 0 + finished'
      BY <2>1, <2>2, <2>4
    <2> QED BY <2>3, <2>5 DEF NoSubmissionLost
  <1>7. JobAtWork'
    BY DEF ReleaseInFlight, JobAtWork
  <1> QED BY <1>3, <1>5, <1>6, <1>7 DEF IInv

\* What happens around the goroutines moves none of them.
LEMMA OutsideKeeps ==
  ASSUME IInv,
         \/ Terminate \/ GraceEnds \/ Submit \/ Practise
         \/ DockerFails \/ DockerReturns \/ LmsFails \/ LmsReturns
  PROVE  IInv'
  <1>1. /\ TypeOK /\ waiting["submit"] \in Nat /\ arrived \in Nat /\ finished \in Nat
        /\ waiting \in [Lanes -> Nat] /\ faults \in Nat
    BY DEF IInv, TypeOK, Lanes
  <1>2. UNCHANGED <<step, lane, containers, runSlots, finished>>
    BY DEF Terminate, GraceEnds, Submit, Practise, DockerFails, DockerReturns, LmsFails,
           LmsReturns
  <1>3. /\ waiting' \in [Lanes -> Nat] /\ arrived' \in Nat /\ faults' \in Nat
        /\ arrived' - waiting'["submit"] = arrived - waiting["submit"]
        /\ stage' \in {"accept", "drain", "interrupt", "over"}
        /\ {paused', docker', lms'} \subseteq BOOLEAN
    <2>1. CASE Submit
      BY <1>1, <2>1 DEF Submit, Lanes, TypeOK
    <2>2. CASE Practise
      BY <1>1, <2>2 DEF Practise, Lanes, TypeOK
    <2>3. CASE Terminate \/ GraceEnds
      BY <1>1, <2>3 DEF Terminate, GraceEnds, TypeOK
    <2>4. CASE DockerFails \/ DockerReturns \/ LmsFails \/ LmsReturns
      <3>1. /\ UNCHANGED <<waiting, arrived, paused, stage>>
            /\ faults' \in {faults, faults + 1}
            /\ docker' \in {docker, TRUE, FALSE} /\ lms' \in {lms, TRUE, FALSE}
        BY <2>4 DEF DockerFails, DockerReturns, LmsFails, LmsReturns
      <3>2. /\ paused \in BOOLEAN /\ docker \in BOOLEAN /\ lms \in BOOLEAN
            /\ stage \in {"accept", "drain", "interrupt", "over"}
        BY <1>1 DEF TypeOK
      <3>3. docker' \in BOOLEAN /\ lms' \in BOOLEAN
        BY <3>1, <3>2, Zenon
      <3>7. faults' \in Nat
        <4>1. faults' \in {faults, faults + 1} /\ faults \in Nat
          BY <1>1, <3>1
        <4> QED BY <4>1
      <3>4. {paused', docker', lms'} \subseteq BOOLEAN
        BY <3>1, <3>2, <3>3
      <3>5. stage' \in {"accept", "drain", "interrupt", "over"}
        BY <3>1, <3>2
      <3>6. waiting' = waiting /\ arrived' = arrived
        BY <3>1
      <3> QED BY <1>1, <3>4, <3>5, <3>6, <3>7
    <2> QED BY <2>1, <2>2, <2>3, <2>4
  <1>4. TypeOK'
    BY <1>1, <1>2, <1>3 DEF TypeOK
  <1>5. /\ HasContainer' = HasContainer /\ HasRunSlot' = HasRunSlot
        /\ InFlight("submit")' = InFlight("submit")
    BY <1>2 DEF HasContainer, HasRunSlot, InFlight
  <1>6. SlotsAccounted'
    BY <1>2, <1>5 DEF IInv, SlotsAccounted
  <1>7. NoSubmissionLost'
    <2>0. InFlight("submit") \subseteq Goroutines
      BY DEF InFlight
    <2>a. Cardinality(InFlight("submit")) \in Nat
      BY <2>0, PoolAssumption, FS_Subset, FS_CardinalityType
    <2>1. Cardinality(InFlight("submit")) \in Nat /\ waiting'["submit"] \in Nat
      BY <1>3, <2>a DEF Lanes
    <2>2. arrived = waiting["submit"] + Cardinality(InFlight("submit")) + finished
      BY DEF IInv, NoSubmissionLost
    <2>b. /\ arrived' - waiting'["submit"] = arrived - waiting["submit"]
          /\ arrived' \in Nat /\ waiting'["submit"] \in Nat
          /\ arrived \in Nat /\ waiting["submit"] \in Nat /\ finished \in Nat
      BY <1>1, <1>3, <2>1
    <2>3. arrived' = waiting'["submit"] + Cardinality(InFlight("submit")) + finished
      <3>1. \A a, b, c, d, e, f \in Int :
              a - b = c - d /\ c = d + e + f => a = b + e + f
        OBVIOUS
      <3> QED BY <2>a, <2>b, <2>2, <3>1
    <2>4. Cardinality(InFlight("submit"))' = Cardinality(InFlight("submit"))
      BY <1>5
    <2>5. finished' = finished
      BY <1>2
    <2> QED BY <2>3, <2>4, <2>5 DEF NoSubmissionLost
  <1>8. JobAtWork'
    BY <1>2 DEF IInv, JobAtWork
  <1> QED BY <1>4, <1>6, <1>7, <1>8 DEF IInv

LEMMA NextKeeps == IInv /\ [Next]_vars => IInv'
  <1> SUFFICES ASSUME IInv, [Next]_vars PROVE IInv'
    OBVIOUS
  <1>1. CASE UNCHANGED vars
    BY <1>1 DEF vars, IInv, TypeOK, JobAtWork, SlotsAccounted, NoSubmissionLost,
                HasContainer, HasRunSlot, InFlight
  <1>2. CASE Next
    BY <1>2, ClaimsKeep, ExecuteKeeps, ReleaseKeeps, OutsideKeeps DEF Next
  <1> QED BY <1>1, <1>2

------------------------------------------------------------------------------
(* The theorems.                                                            *)

\* The invariant: the semaphores are as full as the sets of goroutines that
\* hold a token, and every submission is somewhere.
THEOREM PoolInvariant == Spec => []IInv
  BY InitIInv, NextKeeps, PTL DEF Spec, SafeSpec

\* The semaphores stay within their capacities: no path of `loop` gives back
\* a token it does not hold.
THEOREM TypeCorrect == Spec => []TypeOK
  <1>1. IInv => TypeOK
    BY DEF IInv
  <1> QED BY <1>1, PoolInvariant, PTL

\* No path through `loop` and `execute` leaks a slot or returns one twice.
THEOREM NoSlotLeaks == Spec => []SlotsAccounted
  <1>1. IInv => SlotsAccounted
    BY DEF IInv
  <1> QED BY <1>1, PoolInvariant, PTL

\* Runs never take the slots reserved for submissions, and there are never
\* more containers than allowed, for any configuration that validates.
THEOREM RunsLeaveTheReserve == Spec => []ReserveKept
  <1>1. IInv => ReserveKept
    <2> SUFFICES ASSUME IInv PROVE ReserveKept
      OBVIOUS
    <2> DEFINE executing(l) == {g \in Goroutines : step[g] = "work" /\ lane[g] = l}
    <2>1. /\ executing("run") \subseteq HasRunSlot
          /\ executing("run") \cup executing("submit") \subseteq HasContainer
      BY DEF HasRunSlot, HasContainer
    <2>2. IsFiniteSet(HasRunSlot) /\ IsFiniteSet(HasContainer)
      BY PoolAssumption, FS_Subset DEF HasRunSlot, HasContainer
    <2>3. /\ Cardinality(executing("run")) <= Cardinality(HasRunSlot)
          /\ Cardinality(executing("run") \cup executing("submit")) <= Cardinality(HasContainer)
      BY <2>1, <2>2, FS_Subset
    <2>4. /\ Cardinality(executing("run")) \in Nat
          /\ Cardinality(executing("run") \cup executing("submit")) \in Nat
      BY <2>1, <2>2, FS_Subset, FS_CardinalityType
    <2>5. /\ Cardinality(HasRunSlot) \in 0..runCapacity
          /\ Cardinality(HasContainer) \in 0..MaxContainers
      BY DEF IInv, TypeOK, SlotsAccounted
    <2> QED BY <2>3, <2>4, <2>5, Capacities DEF ReserveKept
  <1> QED BY <1>1, PoolInvariant, PTL

\* A submission is never lost by a claim, a failure, a requeue or a shutdown.
THEOREM SubmissionsAreKept == Spec => []NoSubmissionLost
  <1>1. IInv => NoSubmissionLost
    BY DEF IInv
  <1> QED BY <1>1, PoolInvariant, PTL
==============================================================================
