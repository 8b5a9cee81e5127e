------------------------ MODULE AttemptLifecycle_proofs ------------------------
(***************************************************************************)
(* Proofs about AttemptLifecycle, for any number of Coders, tabs, callers, *)
(* Architects and attempts, any kinds of session and any bound on crashes. *)
(***************************************************************************)
EXTENDS AttemptLifecycle, TLAPS

-------------------------------------------------------------------------------
(* Rows stay rows, whichever of their columns a statement writes. *)

LEMMA StatusUpdate ==
  ASSUME NEW row \in Attempt, NEW s \in Status
  PROVE  [row EXCEPT !.status = s] \in Attempt
BY DEF Attempt

LEMMA ClockUpdate ==
  ASSUME NEW row \in Attempt, NEW k \in Clock
  PROVE  [row EXCEPT !.clock = k] \in Attempt
BY DEF Attempt

LEMMA OfficialUpdate ==
  ASSUME NEW row \in Attempt, NEW o \in BOOLEAN
  PROVE  [row EXCEPT !.official = o] \in Attempt
BY DEF Attempt

LEMMA NoRowIsRow == NoRow \in Attempt
BY DEF Attempt, NoRow, Status, Clock

LEMMA StartWriteRows ==
  ASSUME TypeOK, NEW t \in Tabs, StartWrite(t)
  PROVE  attempts' \in [AttemptIds -> Attempt]
<1> DEFINE n == req[t].att[2]
           a == <<Owner[t], IF n = 0 THEN 1 ELSE n>>
           row(r) == [r EXCEPT !.status = "IN_PROGRESS", !.clock = "running",
                               !.official = @ \/ n = 0]
<1>1. attempts \in [AttemptIds -> Attempt]
      BY DEF TypeOK
<1>2. ASSUME NEW r \in Attempt PROVE row(r) \in Attempt
  <2>1. [[r EXCEPT !.status = "IN_PROGRESS"] EXCEPT !.clock = "running"] \in Attempt
        BY StatusUpdate, ClockUpdate DEF Status, Clock
  <2>2. [[[r EXCEPT !.status = "IN_PROGRESS"] EXCEPT !.clock = "running"]
           EXCEPT !.official = r.official \/ n = 0] \in Attempt
        BY <2>1, OfficialUpdate
  <2> QED
      BY <2>2 DEF Attempt
<1>3. attempts' = attempts \/ attempts' = [attempts EXCEPT ![a] = row(attempts[a])]
      BY <1>1 DEF StartWrite, Attempt
<1> HIDE DEF row
<1> QED
    BY <1>1, <1>2, <1>3

LEMMA CloseCommitRows ==
  ASSUME TypeOK, NEW p \in Procs, CloseCommit(p), req[p].att \in AttemptIds
  PROVE  attempts' \in [AttemptIds -> Attempt]
<1> DEFINE a == req[p].att
           c == req[p].claim
           expired == [attempts[a] EXCEPT !.status = "EXPIRED"]
           submitted == [[attempts[a] EXCEPT !.status = "SUBMITTED"]
                           EXCEPT !.official = attempts[a].official \/ c]
<1>1. attempts \in [AttemptIds -> Attempt]
      BY DEF TypeOK
<1>2. expired \in Attempt
      BY <1>1, StatusUpdate DEF Status
<1>3. [attempts[a] EXCEPT !.status = "SUBMITTED"] \in Attempt
      BY <1>1, StatusUpdate DEF Status
<1>4. submitted \in Attempt
      BY <1>3, OfficialUpdate
<1>5. \/ attempts' = [attempts EXCEPT ![a] = submitted]
      \/ attempts' = [attempts EXCEPT ![a] = expired]
      BY <1>1 DEF CloseCommit, Attempt
<1> HIDE DEF expired, submitted
<1> QED
    BY <1>1, <1>2, <1>4, <1>5

LEMMA CreateNoShowRows ==
  ASSUME TypeOK, NEW c \in Coders, CreateNoShow(c)
  PROVE  attempts' \in [AttemptIds -> Attempt]
<1> DEFINE row == [NoRow EXCEPT !.status = "EXPIRED", !.official = TRUE]
<1>1. row \in Attempt
      BY DEF NoRow, Attempt, Status, Clock
<1>2. attempts \in [AttemptIds -> Attempt]
      BY DEF TypeOK
<1>3. attempts' = attempts \/ attempts' = [attempts EXCEPT ![<<c, 1>>] = row]
      BY DEF CreateNoShow
<1> HIDE DEF row
<1> QED
    BY <1>1, <1>2, <1>3

LEMMA AfterResetRows ==
  ASSUME TypeOK, NEW a \in AttemptIds, NEW n, NEW g \in BOOLEAN
  PROVE  AfterReset(a, n, g) \in [AttemptIds -> Attempt]
<1>1. attempts \in [AttemptIds -> Attempt]
      BY DEF TypeOK
<1>2. [NoRow EXCEPT !.status = "NOT_STARTED", !.granted = g] \in Attempt
      BY DEF NoRow, Attempt, Status, Clock
<1>3. ASSUME NEW b \in AttemptIds
      PROVE  [attempts[b] EXCEPT !.status = IF b = a THEN "RESET" ELSE @,
                                 !.official = @ /\ b[1] # a[1]] \in Attempt
  <2> DEFINE s == IF b = a THEN "RESET" ELSE attempts[b].status
             o == attempts[b].official /\ b[1] # a[1]
  <2>1. attempts[b] \in Attempt /\ s \in Status
        BY <1>1 DEF Attempt, Status
  <2>2. o \in BOOLEAN
        OBVIOUS
  <2> HIDE DEF s, o
  <2>3. [[attempts[b] EXCEPT !.status = s] EXCEPT !.official = o] \in Attempt
        BY <2>1, <2>2, StatusUpdate, OfficialUpdate
  <2> QED
      BY <2>3 DEF s, o, Attempt
<1> QED
    BY <1>2, <1>3 DEF AfterReset

LEMMA OfficialRows ==
  ASSUME TypeOK, NEW a \in AttemptIds, SetOfficial(a) \/ UnsetOfficial(a)
  PROVE  attempts' \in [AttemptIds -> Attempt]
<1>1. attempts \in [AttemptIds -> Attempt]
      BY DEF TypeOK
<1>2. CASE SetOfficial(a)
  <2>1. \A b \in AttemptIds : [attempts[b] EXCEPT !.official = (b = a)] \in Attempt
        BY <1>1, OfficialUpdate
  <2> QED
      BY <1>1, <1>2, <2>1 DEF SetOfficial
<1>3. CASE UnsetOfficial(a)
  <2>1. [attempts[a] EXCEPT !.official = FALSE] \in Attempt
        BY <1>1, OfficialUpdate
  <2> QED
      BY <1>1, <1>3, <2>1 DEF UnsetOfficial
<1> QED
    BY <1>2, <1>3

LEMMA ClockRows ==
  ASSUME TypeOK, NEW a \in AttemptIds, Pause(a) \/ Resume(a) \/ ClockRunsOut(a)
  PROVE  attempts' \in [AttemptIds -> Attempt]
<1>1. \A k \in Clock : [attempts[a] EXCEPT !.clock = k] \in Attempt
      BY ClockUpdate DEF TypeOK
<1>2. PICK k \in Clock : attempts' = [attempts EXCEPT ![a].clock = k]
      BY DEF Clock, Pause, Resume, ClockRunsOut
<1> QED
    BY <1>1, <1>2 DEF TypeOK

-------------------------------------------------------------------------------
(* Types, and what a request in the middle of a handler is about. *)

\* The attempt a request names is there to be named: a start may still have to
\* create number 1, every other request has read its row.
WellFormed ==
  \A p \in Procs :
    /\ req[p].op = "start" => req[p].att \in Coders \X (0..MaxAttempts)
    /\ req[p].op \notin {"idle", "start"} => req[p].att \in AttemptIds

\* dispatchSubmission has a Submission to dispatch.
Dispatching ==
  \A p \in Procs : req[p].op = "dispatch" => Len(subs[req[p].att]) # 0

TypeInv == TypeOK /\ WellFormed /\ Dispatching

\* What the handlers store in `req` are requests.
LEMMA IdleIsRequest == Idle \in Request
BY DEF Idle, Request, Reasons

LEMMA AskingIsRequest ==
  ASSUME NEW op \in {"idle", "start", "draft", "submit", "auto", "dispatch", "reset"},
         NEW a \in (Coders \X (0..MaxAttempts)) \cup {NoAttempt}
  PROVE  /\ Asking(op, a) \in Request
         /\ Asking(op, a).op = op
         /\ Asking(op, a).att = a
BY DEF Asking, Idle, Request, Reasons

LEMMA ClosingIsRequest ==
  ASSUME NEW op \in {"submit", "auto"}, NEW a \in AttemptIds,
         NEW s \in Sources \cup {NoSource}, NEW reason \in Reasons \cup {"none"}
  PROVE  /\ Closing(op, a, s, reason) \in Request
         /\ Closing(op, a, s, reason).op = op
         /\ Closing(op, a, s, reason).att = a
         /\ Closing(op, a, s, reason).source = s
<1>1. a \in Coders \X (0..MaxAttempts)
      BY LifecycleAssumption DEF AttemptIds, Numbers
<1>2. NoneOfficial(a[1]) \in BOOLEAN
      BY DEF NoneOfficial
<1>3. Asking(op, a) \in Request /\ Asking(op, a).op = op /\ Asking(op, a).att = a
      BY <1>1, AskingIsRequest
<1> QED
    BY <1>2, <1>3 DEF Closing, Request

LEMMA IdsAreNamed == AttemptIds \subseteq (Coders \X (0..MaxAttempts)) \cup {NoAttempt}
BY LifecycleAssumption DEF AttemptIds, Numbers

LEMMA InitTypeInv == Init => TypeInv
<1> SUFFICES ASSUME Init PROVE TypeInv
    OBVIOUS
<1> USE DEF Init
<1>1. session \in [status : {"RUNNING", "ENDED"}, kind : Kinds, due : BOOLEAN]
  <2>1. PICK k \in Kinds : session = [status |-> "RUNNING", kind |-> k, due |-> FALSE]
        OBVIOUS
  <2> QED
      BY <2>1
<1>2. /\ attempts \in [AttemptIds -> Attempt]
      /\ req \in [Procs -> Request]
      BY NoRowIsRow, IdleIsRequest
<1>3. subs \in [AttemptIds -> Seq(Submission)]
      OBVIOUS
<1>4. crashes \in 0..MaxCrashes
      BY LifecycleAssumption
<1>5. WellFormed /\ Dispatching
      BY DEF WellFormed, Dispatching, Idle
<1> QED
    BY <1>1, <1>2, <1>3, <1>4, <1>5 DEF TypeInv, TypeOK

\* Every step keeps the types and leaves the requests well formed.
LEMMA TypeInvNext == TypeInv /\ [Next]_vars => TypeInv'
<1> SUFFICES ASSUME TypeInv, [Next]_vars PROVE TypeInv'
    OBVIOUS
<1> USE LifecycleAssumption, IdleIsRequest, IdsAreNamed DEF TypeInv, TypeOK
<1>idle. Idle.op = "idle"
      BY DEF Idle
<1>1. CASE UNCHANGED vars
      BY <1>1 DEF vars, WellFormed, Dispatching
<1>2. ASSUME NEW t \in Tabs, TabStep(t) PROVE TypeInv'
  <2> t \in Procs
      BY DEF Procs
  <2>1. CASE StartRead(t)
    <3>1. PICK n \in 0..MaxAttempts : req' = [req EXCEPT ![t] = Asking("start", <<Owner[t], n>>)]
          BY <2>1 DEF StartRead
    <3>2. <<Owner[t], n>> \in Coders \X (0..MaxAttempts)
          OBVIOUS
    <3>3. /\ Asking("start", <<Owner[t], n>>) \in Request
          /\ Asking("start", <<Owner[t], n>>).op = "start"
          /\ Asking("start", <<Owner[t], n>>).att = <<Owner[t], n>>
          BY <3>2, AskingIsRequest
    <3> QED
        BY <2>1, <3>1, <3>2, <3>3 DEF StartRead, WellFormed, Dispatching
  <2>2. CASE StartWrite(t)
    <3>1. attempts' \in [AttemptIds -> Attempt]
          BY <2>2, StartWriteRows
    <3> QED
        BY <2>2, <3>1, <1>idle DEF StartWrite, WellFormed, Dispatching
  <2>3. CASE DraftWrite(t)
    <3>1. draft' \in [AttemptIds -> Sources \cup {NoSource}]
          BY <2>3 DEF DraftWrite, Request
    <3> QED
        BY <2>3, <3>1, <1>idle DEF DraftWrite, WellFormed, Dispatching
  <2>4. ASSUME NEW a \in AttemptIds, NEW s \in Sources, DraftRead(t, a, s) PROVE TypeInv'
    <3>1. /\ Asking("draft", a) \in Request
          /\ Asking("draft", a).op = "draft"
          /\ Asking("draft", a).att = a
          BY AskingIsRequest
    <3>2. /\ [Asking("draft", a) EXCEPT !.source = s] \in Request
          /\ [Asking("draft", a) EXCEPT !.source = s].op = "draft"
          /\ [Asking("draft", a) EXCEPT !.source = s].att = a
          BY <3>1 DEF Request
    <3> QED
        BY <2>4, <3>2 DEF DraftRead, WellFormed, Dispatching
  <2>5. ASSUME NEW a \in AttemptIds, NEW s \in Sources, SubmitLock(t, a, s) PROVE TypeInv'
    <3>1. /\ Closing("submit", a, s, "none") \in Request
          /\ Closing("submit", a, s, "none").op = "submit"
          /\ Closing("submit", a, s, "none").att = a
          BY ClosingIsRequest
    <3> QED
        BY <2>5, <3>1 DEF SubmitLock, WellFormed, Dispatching
  <2> QED
      BY <1>2, <2>1, <2>2, <2>3, <2>4, <2>5 DEF TabStep
<1>3. ASSUME NEW p \in Procs, NEW a \in AttemptIds, NEW reason \in Reasons,
             AutoLock(p, a, reason),
             closing' \in [step : {"off", "listing", "closing", "noShows", "done", "failed"},
                            todo : SUBSET AttemptIds, missing : SUBSET Coders]
      PROVE  TypeInv'
  <2>0. draft[a] \in Sources \cup {NoSource} /\ reason \in Reasons \cup {"none"}
        OBVIOUS
  <2>1. /\ Closing("auto", a, draft[a], reason) \in Request
        /\ Closing("auto", a, draft[a], reason).op = "auto"
        /\ Closing("auto", a, draft[a], reason).att = a
        BY <2>0, ClosingIsRequest
  <2> QED
      BY <1>3, <2>1 DEF AutoLock, WellFormed, Dispatching
<1>4. ASSUME NEW p \in Callers, CallerStep(p) PROVE TypeInv'
      BY <1>3, <1>4 DEF CallerStep, CallerLock, Procs, Closers
<1>5. ASSUME NEW p \in Procs, CloseCommit(p) PROVE TypeInv'
  <2> DEFINE r == req[p]
  <2>1. r \in Request /\ r.att \in AttemptIds
        BY <1>5 DEF CloseCommit, WellFormed
  <2>2. CASE HasCode(r)
    <3>1. r.source \in Sources
          BY <2>1, <2>2 DEF HasCode, Request
    <3>2. [source |-> r.source, auto |-> r.op = "auto", status |-> "QUEUED"] \in Submission
          BY <3>1 DEF Submission
    <3>3. /\ subs' = [subs EXCEPT ![r.att] = Append(@,
                        [source |-> r.source, auto |-> r.op = "auto", status |-> "QUEUED"])]
          /\ attempts' = [attempts EXCEPT ![r.att].status = "SUBMITTED",
                                          ![r.att].official = @ \/ r.claim]
          /\ req' = [req EXCEPT ![p] = Asking("dispatch", r.att)]
          BY <1>5, <2>2 DEF CloseCommit
    <3>4. subs' \in [AttemptIds -> Seq(Submission)]
          BY <2>1, <3>2, <3>3
    <3>5. attempts' \in [AttemptIds -> Attempt]
          BY <1>5, <2>1, CloseCommitRows
    <3>6. /\ Asking("dispatch", r.att) \in Request
          /\ Asking("dispatch", r.att).op = "dispatch"
          /\ Asking("dispatch", r.att).att = r.att
          BY <2>1, AskingIsRequest
    <3>7. \A q \in Procs : req[q].op = "dispatch" => req[q].att \in AttemptIds
          BY DEF WellFormed
    <3>8. \A a \in AttemptIds : Len(subs[a]) # 0 => Len(subs'[a]) # 0
          BY <2>1, <3>2, <3>3
    <3>9. Len(subs'[r.att]) # 0
          BY <2>1, <3>2, <3>3
    <3> QED
        BY <1>5, <2>1, <3>3, <3>4, <3>5, <3>6, <3>7, <3>8, <3>9
           DEF CloseCommit, WellFormed, Dispatching
  <2>3. CASE ~HasCode(r)
    <3>1. attempts' \in [AttemptIds -> Attempt]
          BY <1>5, <2>1, CloseCommitRows
    <3>2. /\ req' = [req EXCEPT ![p] = Idle]
          /\ UNCHANGED <<session, draft, subs, jobs, closing, crashes>>
          BY <1>5, <2>3 DEF CloseCommit
    <3> QED
        BY <3>1, <3>2, <1>idle DEF WellFormed, Dispatching
  <2> QED
      BY <2>2, <2>3
<1>6. ASSUME NEW p \in Procs, Dispatch(p) PROVE TypeInv'
  <2> DEFINE a == req[p].att
  <2>1. a \in AttemptIds /\ Len(subs[a]) # 0
        BY <1>6 DEF Dispatch, WellFormed, Dispatching
  <2>2. Failed(a) \in [AttemptIds -> Seq(Submission)]
    <3> DEFINE n == Len(subs[a])
    <3>1. n \in DOMAIN subs[a] /\ subs[a] \in Seq(Submission) /\ n \in 1..n
          BY <2>1
    <3>0. subs[a][n] \in Submission
          BY <3>1
    <3>2. [subs[a][n] EXCEPT !.status = "SYSTEM_ERROR"] \in Submission
          BY <3>0 DEF Submission
    <3>3. [subs[a] EXCEPT ![n] = [@ EXCEPT !.status = "SYSTEM_ERROR"]] \in Seq(Submission)
          BY <3>1, <3>2
    <3> QED
        BY <2>1, <3>3 DEF Failed
  <2>3. \A b \in AttemptIds : Len(Failed(a)[b]) = Len(subs[b])
        BY <2>1 DEF Failed
  <2>4. subs' \in [AttemptIds -> Seq(Submission)] /\ jobs' \subseteq AttemptIds
        BY <1>6, <2>1, <2>2 DEF Dispatch
  <2>5. \A b \in AttemptIds : Len(subs'[b]) = Len(subs[b])
        BY <1>6, <2>3 DEF Dispatch
  <2> QED
      BY <1>6, <2>4, <2>5, <1>idle DEF Dispatch, WellFormed, Dispatching
<1>7. ASSUME NEW p \in Procs, Crash(p) PROVE TypeInv'
  <2>1. crashes' \in 0..MaxCrashes
        BY <1>7 DEF Crash
  <2>2. closing' \in [step : {"off", "listing", "closing", "noShows", "done", "failed"},
                        todo : SUBSET AttemptIds, missing : SUBSET Coders]
        BY <1>7 DEF Crash
  <2>3. req' \in [Procs -> Request]
        BY <1>7 DEF Crash
  <2>4. WellFormed' /\ Dispatching'
        BY <1>7, <1>idle DEF Crash, WellFormed, Dispatching
  <2> QED
      BY <1>7, <2>1, <2>2, <2>3, <2>4 DEF Crash
<1>8. CASE CloseLoop
  <2> Ender \in Procs
      BY DEF Procs, Closers
  <2>1. CASE EndSession \/ ExpireSession
        BY <2>1 DEF EndSession, ExpireSession, FlipEnded, WellFormed, Dispatching
  <2>2. CASE ListOpen
        BY <2>2 DEF ListOpen, WellFormed, Dispatching
  <2>3. CASE ListNoShows
        BY <2>3 DEF ListNoShows, WellFormed, Dispatching
  <2>4. CASE CloseDone
        BY <2>4 DEF CloseDone, WellFormed, Dispatching
  <2>5. ASSUME NEW a \in AttemptIds, EnderLock(a) PROVE TypeInv'
        BY <1>3, <2>5 DEF EnderLock, Reasons
  <2>6. ASSUME NEW a \in AttemptIds, EnderSkip(a) PROVE TypeInv'
        BY <2>6 DEF EnderSkip, WellFormed, Dispatching
  <2>7. ASSUME NEW c \in Coders, CreateNoShow(c) PROVE TypeInv'
    <3>1. attempts' \in [AttemptIds -> Attempt]
          BY <2>7, CreateNoShowRows
    <3> QED
        BY <2>7, <3>1 DEF CreateNoShow, WellFormed, Dispatching
  <2> QED
      BY <1>8, <2>1, <2>2, <2>3, <2>4, <2>5, <2>6, <2>7 DEF CloseLoop
<1>9. CASE ArchitectStep
  <2>1. ASSUME NEW r \in Architects, NEW a \in AttemptIds, ResetRead(r, a) PROVE TypeInv'
    <3> DEFINE q == [Asking("reset", a) EXCEPT !.granted = session.status # "RUNNING"]
    <3>1. /\ Asking("reset", a) \in Request
          /\ Asking("reset", a).op = "reset"
          /\ Asking("reset", a).att = a
          BY AskingIsRequest
    <3>2. q \in Request /\ q.op = "reset" /\ q.att = a
          BY <3>1 DEF Request
    <3>3. req' = [req EXCEPT ![r] = q] /\ r \in Procs
          BY <2>1 DEF ResetRead, Procs
    <3> QED
        BY <2>1, <3>2, <3>3 DEF ResetRead, WellFormed, Dispatching
  <2>2. ASSUME NEW r \in Architects, ResetWrite(r) PROVE TypeInv'
    <3>1. r \in Procs /\ req[r].granted \in BOOLEAN /\ req[r].att \in AttemptIds
          BY <2>2 DEF Procs, ResetWrite, WellFormed, Request
    <3>2. attempts' \in [AttemptIds -> Attempt]
          BY <2>2, <3>1, AfterResetRows DEF ResetWrite
    <3> QED
        BY <2>2, <3>1, <3>2, <1>idle DEF ResetWrite, WellFormed, Dispatching
  <2>3. ASSUME NEW a \in AttemptIds, SetOfficial(a) \/ UnsetOfficial(a) PROVE TypeInv'
    <3>1. attempts' \in [AttemptIds -> Attempt]
          BY <2>3, OfficialRows
    <3> QED
        BY <2>3, <3>1 DEF SetOfficial, UnsetOfficial, WellFormed, Dispatching
  <2> QED
      BY <1>9, <2>1, <2>2, <2>3 DEF ArchitectStep
<1>10. CASE ClockStep
  <2>1. CASE SessionComesDue
        BY <2>1 DEF SessionComesDue, WellFormed, Dispatching
  <2>2. ASSUME NEW a \in AttemptIds, Pause(a) \/ Resume(a) \/ ClockRunsOut(a) PROVE TypeInv'
    <3>1. attempts' \in [AttemptIds -> Attempt]
          BY <2>2, ClockRows
    <3> QED
        BY <2>2, <3>1 DEF Pause, Resume, ClockRunsOut, WellFormed, Dispatching
  <2> QED
      BY <1>10, <2>1, <2>2 DEF ClockStep
<1> QED
    BY <1>1, <1>2, <1>4, <1>5, <1>6, <1>7, <1>8, <1>9, <1>10 DEF Next

\* Every variable keeps its type, on every instance.
THEOREM TypeCorrect == SafeSpec => []TypeOK
<1>1. TypeInv => TypeOK
      BY DEF TypeInv
<1> QED
    BY <1>1, InitTypeInv, TypeInvNext, PTL DEF SafeSpec

-------------------------------------------------------------------------------
(* What each statement that writes attempt rows can do to any one of them. *)

LEMMA StartWriteEffect ==
  ASSUME TypeOK, NEW t \in Tabs, StartWrite(t), NEW b \in AttemptIds
  PROVE  \/ attempts'[b] = attempts[b]
         \/ /\ attempts[b].status \in {"none", "NOT_STARTED"}
            /\ attempts'[b].status = "IN_PROGRESS"
            /\ ~RowLocked(b)
<1> DEFINE n == req[t].att[2]
           a == <<Owner[t], IF n = 0 THEN 1 ELSE n>>
<1>1. attempts \in [AttemptIds -> Attempt]
      BY DEF TypeOK
<1>2. CASE ~StillAsRead(a, n)
      BY <1>2 DEF StartWrite
<1>3. CASE StillAsRead(a, n)
  <2>1. attempts' = [attempts EXCEPT ![a].status = "IN_PROGRESS",
                                     ![a].clock = "running",
                                     ![a].official = @ \/ n = 0]
        BY <1>3 DEF StartWrite
  <2> HIDE DEF a, n
  <2>2. CASE b = a
    <3>1. attempts'[b].status = "IN_PROGRESS"
          BY <1>1, <2>1, <2>2 DEF Attempt
    <3>2. attempts[b].status \in {"none", "NOT_STARTED"}
          BY <1>3, <2>2 DEF StillAsRead
    <3>3. ~RowLocked(b)
          BY <1>3, <2>2 DEF StartWrite, a, n
    <3> QED
        BY <3>1, <3>2, <3>3
  <2>3. CASE b # a
        BY <1>1, <2>1, <2>3
  <2> QED
      BY <2>2, <2>3
<1> QED
    BY <1>2, <1>3

LEMMA CloseCommitEffect ==
  ASSUME TypeOK, NEW p \in Procs, CloseCommit(p), req[p].att \in AttemptIds
  PROVE  /\ \A b \in AttemptIds : b # req[p].att => attempts'[b] = attempts[b]
         /\ attempts'[req[p].att].status = IF HasCode(req[p]) THEN "SUBMITTED" ELSE "EXPIRED"
BY DEF CloseCommit, TypeOK, Attempt

LEMMA CreateNoShowEffect ==
  ASSUME TypeOK, NEW c \in Coders, CreateNoShow(c), NEW b \in AttemptIds
  PROVE  \/ attempts'[b] = attempts[b]
         \/ attempts[b].status = "none" /\ attempts'[b].status = "EXPIRED"
<1> DEFINE row == [NoRow EXCEPT !.status = "EXPIRED", !.official = TRUE]
<1>1. row.status = "EXPIRED"
      BY DEF NoRow
<1>2. attempts \in [AttemptIds -> Attempt]
      BY DEF TypeOK
<1>3. \/ attempts' = attempts
      \/ attempts[<<c, 1>>].status = "none" /\ attempts' = [attempts EXCEPT ![<<c, 1>>] = row]
      BY DEF CreateNoShow, Exists
<1> HIDE DEF row
<1> QED
    BY <1>1, <1>2, <1>3

LEMMA ResetWriteEffect ==
  ASSUME TypeOK, NEW r \in Architects, ResetWrite(r), req[r].att \in AttemptIds,
         NEW b \in AttemptIds
  PROVE  \/ attempts'[b].status = attempts[b].status /\ attempts'[b].clock = attempts[b].clock
         \/ attempts[b].status = "none" /\ attempts'[b].status = "NOT_STARTED"
         \/ attempts'[b].status = "RESET" /\ ~RowLocked(b)
<1> DEFINE a == req[r].att
<1>1. PICK n \in 1..(MaxAttempts - 1) :
        IsLatest(a[1], n) /\ attempts' = AfterReset(a, n, req[r].granted)
      BY DEF ResetWrite
<1>2. attempts \in [AttemptIds -> Attempt]
      BY DEF TypeOK
<1>3. CASE b = <<a[1], n + 1>>
  <2>1. n + 1 \in Numbers /\ n + 1 > n
        BY LifecycleAssumption DEF Numbers
  <2>2. attempts[b].status = "none"
        BY <1>1, <1>3, <2>1 DEF IsLatest, Exists
  <2>3. attempts'[b].status = "NOT_STARTED"
        BY <1>1, <1>3 DEF AfterReset, NoRow
  <2> QED
      BY <2>2, <2>3
<1>4. CASE b # <<a[1], n + 1>> /\ b = a
  <2>1. attempts'[b].status = "RESET"
        BY <1>1, <1>2, <1>4 DEF AfterReset, Attempt
  <2>2. b \in Siblings(a[1])
        BY <1>4 DEF Siblings
  <2> QED
      BY <2>1, <2>2 DEF ResetWrite, RecordUnlocked
<1>5. CASE b # <<a[1], n + 1>> /\ b # a
      BY <1>1, <1>2, <1>5 DEF AfterReset, Attempt
<1> QED
    BY <1>3, <1>4, <1>5

LEMMA MarkEffect ==
  ASSUME TypeOK, NEW a \in AttemptIds, SetOfficial(a) \/ UnsetOfficial(a),
         NEW b \in AttemptIds
  PROVE  attempts'[b].status = attempts[b].status /\ attempts'[b].clock = attempts[b].clock
<1>1. CASE SetOfficial(a)
      BY <1>1 DEF SetOfficial, TypeOK, Attempt
<1>2. CASE UnsetOfficial(a)
      BY <1>2 DEF UnsetOfficial, TypeOK, Attempt
<1> QED
    BY <1>1, <1>2

LEMMA ClockEffect ==
  ASSUME TypeOK, NEW a \in AttemptIds, Pause(a) \/ Resume(a) \/ ClockRunsOut(a),
         NEW b \in AttemptIds
  PROVE  /\ attempts'[b].status = attempts[b].status
         /\ attempts[b].clock = "out" /\ RowLocked(b) => attempts'[b].clock = "out"
<1>1. attempts \in [AttemptIds -> Attempt]
      BY DEF TypeOK
<1>2. PICK k \in Clock : attempts' = [attempts EXCEPT ![a].clock = k]
      BY DEF Clock, Pause, Resume, ClockRunsOut
<1>3. RowLocked(a) => attempts[a].clock = "running"
      BY DEF Pause, Resume, ClockRunsOut
<1>4. CASE b = a
      BY <1>1, <1>2, <1>3, <1>4 DEF Attempt
<1>5. CASE b # a
      BY <1>1, <1>2, <1>5
<1> QED
    BY <1>4, <1>5

-------------------------------------------------------------------------------
(* The row lock.  A process inside the closing transaction holds its row      *)
(* alone, the row is still open, and a deadline that justified the closing     *)
(* has not been moved away.  This is what makes OneFormalSubmission inductive. *)

Holds(p) == req[p].op \in {"submit", "auto"}

HoldersOpen == \A p \in Procs : Holds(p) => Open(req[p].att)

OneHolder ==
  \A p, q \in Procs : Holds(p) /\ Holds(q) /\ req[p].att = req[q].att => p = q

DuePersists ==
  \A p \in Procs :
    req[p].op = "auto" /\ req[p].reason = "DEADLINE" => Overdue(req[p].att)

LockInv == HoldersOpen /\ OneHolder /\ DuePersists /\ OneFormalSubmission

LEMMA InitLockInv == Init => LockInv
BY DEF Init, LockInv, HoldersOpen, OneHolder, DuePersists, OneFormalSubmission, Holds,
       Idle, NoRow

\* A step that takes no lock, closes nothing and moves no clock of a locked row.
LEMMA LockInvKept ==
  ASSUME TypeInv, LockInv,
         session'.kind = session.kind, session.due => session'.due,
         subs' = subs,
         \A p \in Procs : req'[p] = req[p] \/ req'[p].op \notin {"submit", "auto"},
         \A b \in AttemptIds :
           \/ /\ attempts'[b].status = attempts[b].status
              /\ attempts[b].clock = "out" /\ RowLocked(b) => attempts'[b].clock = "out"
           \/ /\ attempts[b].status \in {"none", "NOT_STARTED"}
              /\ attempts'[b].status \in {"NOT_STARTED", "IN_PROGRESS", "EXPIRED"}
           \/ attempts'[b].status = "RESET" /\ ~RowLocked(b)
  PROVE  LockInv'
<1>1. ASSUME NEW p \in Procs, Holds(p)'
      PROVE  /\ req'[p] = req[p] /\ Holds(p)
             /\ req[p].att \in AttemptIds /\ RowLocked(req[p].att)
             /\ Open(req[p].att)
      BY <1>1 DEF Holds, TypeInv, WellFormed, RowLocked, LockInv, HoldersOpen
<1>2. HoldersOpen'
      BY <1>1 DEF HoldersOpen, Open
<1>3. OneHolder'
      BY <1>1 DEF LockInv, OneHolder
<1>4. DuePersists'
  <2> SUFFICES ASSUME NEW p \in Procs, req'[p].op = "auto", req'[p].reason = "DEADLINE"
               PROVE  Overdue(req[p].att)' /\ req'[p] = req[p]
      BY DEF DuePersists
  <2>1. req'[p] = req[p] /\ req[p].att \in AttemptIds /\ RowLocked(req[p].att)
        /\ Open(req[p].att)
        BY <1>1 DEF Holds
  <2>2. Overdue(req[p].att)
        BY <2>1 DEF LockInv, DuePersists
  <2>3. attempts[req[p].att].clock = "out" => attempts'[req[p].att].clock = "out"
        BY <2>1 DEF Open
  <2> QED
      BY <2>1, <2>2, <2>3 DEF Overdue
<1>5. OneFormalSubmission'
      BY DEF LockInv, OneFormalSubmission, TypeInv, TypeOK
<1> QED
    BY <1>2, <1>3, <1>4, <1>5 DEF LockInv

LEMMA LockInvNext == TypeInv /\ LockInv /\ [Next]_vars => LockInv'
<1> SUFFICES ASSUME TypeInv, LockInv, [Next]_vars PROVE LockInv'
    OBVIOUS
<1>0. TypeOK /\ req \in [Procs -> Request]
      BY DEF TypeInv, TypeOK
<1>idle. Idle.op = "idle"
      BY DEF Idle
<1>att. \A p \in Procs : req[p].op \notin {"idle", "start"} => req[p].att \in AttemptIds
      BY DEF TypeInv, WellFormed
<1>1. CASE UNCHANGED vars
      BY <1>1, LockInvKept DEF vars
<1>2. ASSUME NEW t \in Tabs, StartRead(t) PROVE LockInv'
  <2>1. PICK n \in 0..MaxAttempts : req' = [req EXCEPT ![t] = Asking("start", <<Owner[t], n>>)]
        BY <1>2 DEF StartRead
  <2>2. Asking("start", <<Owner[t], n>>).op = "start"
        BY DEF Asking, Idle
  <2>3. \A p \in Procs : req'[p] = req[p] \/ req'[p].op \notin {"submit", "auto"}
        BY <1>0, <2>1, <2>2, Zenon
  <2> QED
      BY <1>2, <2>3, LockInvKept DEF StartRead
<1>3. ASSUME NEW t \in Tabs, StartWrite(t) PROVE LockInv'
  <2>1. \A p \in Procs : req'[p] = req[p] \/ req'[p].op \notin {"submit", "auto"}
    <3>1. req' = [req EXCEPT ![t] = Idle]
          BY <1>3 DEF StartWrite
    <3> QED
        BY <1>0, <1>idle, <3>1
  <2> QED
      BY <1>0, <1>3, <2>1, StartWriteEffect, LockInvKept, Zenon DEF StartWrite
<1>4. ASSUME NEW t \in Tabs, DraftWrite(t) PROVE LockInv'
  <2>1. \A p \in Procs : req'[p] = req[p] \/ req'[p].op \notin {"submit", "auto"}
    <3>1. req' = [req EXCEPT ![t] = Idle]
          BY <1>4 DEF DraftWrite
    <3> QED
        BY <1>0, <1>idle, <3>1
  <2> QED
      BY <1>4, <2>1, LockInvKept DEF DraftWrite
<1>5. ASSUME NEW t \in Tabs, NEW a \in AttemptIds, NEW s \in Sources, DraftRead(t, a, s)
      PROVE  LockInv'
  <2>1. [Asking("draft", a) EXCEPT !.source = s].op = "draft"
        BY DEF Asking, Idle
  <2>2. \A p \in Procs : req'[p] = req[p] \/ req'[p].op \notin {"submit", "auto"}
        BY <1>0, <1>5, <2>1 DEF DraftRead
  <2> QED
      BY <1>5, <2>2, LockInvKept DEF DraftRead
<1>6. ASSUME NEW p \in Procs, NEW a \in AttemptIds, NEW op \in {"submit", "auto"},
             NEW s \in Sources \cup {NoSource}, NEW reason \in Reasons \cup {"none"},
             req' = [req EXCEPT ![p] = Closing(op, a, s, reason)],
             ~RowLocked(a), Open(a),
             op = "auto" /\ reason = "DEADLINE" => Overdue(a),
             UNCHANGED <<session, attempts, subs>>
      PROVE  LockInv'
  <2> DEFINE r == Closing(op, a, s, reason)
  <2>1. r.op = op /\ r.att = a /\ r.reason = reason
        BY ClosingIsRequest DEF Closing, Asking, Idle
  <2>2. req'[p] = r /\ \A q \in Procs : q # p => req'[q] = req[q]
        BY <1>0, <1>6
  <2> HIDE DEF r
  <2>3. HoldersOpen'
        BY <1>6, <2>1, <2>2 DEF LockInv, HoldersOpen, Holds, Open
  <2>4. OneHolder'
        BY <1>6, <2>1, <2>2 DEF LockInv, OneHolder, Holds, RowLocked
  <2>5. DuePersists'
        BY <1>6, <2>1, <2>2 DEF LockInv, DuePersists, Overdue
  <2>6. OneFormalSubmission'
        BY <1>6 DEF LockInv, OneFormalSubmission
  <2> QED
      BY <2>3, <2>4, <2>5, <2>6 DEF LockInv
<1>7. ASSUME NEW t \in Tabs, NEW a \in AttemptIds, NEW s \in Sources, SubmitLock(t, a, s)
      PROVE  LockInv'
      BY <1>6, <1>7 DEF SubmitLock, Active, Procs
<1>8. ASSUME NEW p \in Procs, NEW a \in AttemptIds, NEW reason \in Reasons,
             AutoLock(p, a, reason)
      PROVE  LockInv'
  <2>1. draft[a] \in Sources \cup {NoSource}
        BY <1>0 DEF TypeOK
  <2>2. reason = "DEADLINE" => Overdue(a)
        BY <1>8 DEF AutoLock, Due
  <2> QED
      BY <1>6, <1>8, <2>1, <2>2 DEF AutoLock
<1>9. ASSUME NEW p \in Procs, CloseCommit(p) PROVE LockInv'
  <2> DEFINE a == req[p].att
  <2>1. Holds(p) /\ a \in AttemptIds /\ Open(a) /\ Len(subs[a]) = 0
        BY <1>9, <1>att DEF CloseCommit, Holds, LockInv, HoldersOpen, OneFormalSubmission, Open
  <2>2. /\ \A b \in AttemptIds : b # a => attempts'[b] = attempts[b]
        /\ attempts'[a].status = IF HasCode(req[p]) THEN "SUBMITTED" ELSE "EXPIRED"
        BY <1>0, <1>9, <2>1, CloseCommitEffect
  <2>3. req'[p].op \in {"idle", "dispatch"} /\ \A q \in Procs : q # p => req'[q] = req[q]
        BY <1>0, <1>9, <1>idle DEF CloseCommit, Asking, Idle
  <2>4. /\ \A b \in AttemptIds : b # a => subs'[b] = subs[b]
        /\ Len(subs'[a]) = IF HasCode(req[p]) THEN 1 ELSE 0
    <3>1. subs \in [AttemptIds -> Seq(Submission)]
          BY <1>0 DEF TypeOK
    <3>2. HasCode(req[p]) =>
            \E x : subs' = [subs EXCEPT ![a] = Append(@, x)]
          BY <1>9 DEF CloseCommit
    <3>3. \A x : Len(Append(subs[a], x)) = Len(subs[a]) + 1
          BY <2>1, <3>1
    <3>4. ~HasCode(req[p]) => subs' = subs
          BY <1>9 DEF CloseCommit
    <3> QED
        BY <2>1, <3>1, <3>2, <3>3, <3>4
  <2>5. ASSUME NEW q \in Procs, Holds(q)'
        PROVE  q # p /\ req'[q] = req[q] /\ Holds(q) /\ req[q].att # a
               /\ req[q].att \in AttemptIds
        BY <2>1, <2>3, <2>5, <1>att DEF Holds, LockInv, OneHolder
  <2>6. HoldersOpen'
        BY <2>2, <2>5 DEF HoldersOpen, LockInv, Open
  <2>7. OneHolder'
        BY <2>5 DEF OneHolder, LockInv
  <2>8. DuePersists'
    <3> SUFFICES ASSUME NEW q \in Procs, req'[q].op = "auto", req'[q].reason = "DEADLINE"
                 PROVE  Overdue(req[q].att)' /\ req'[q] = req[q]
        BY DEF DuePersists
    <3>1. req'[q] = req[q] /\ req[q].att # a /\ req[q].att \in AttemptIds
          BY <2>5 DEF Holds
    <3>2. Overdue(req[q].att)
          BY <3>1 DEF LockInv, DuePersists
    <3> QED
        BY <1>9, <2>2, <3>1, <3>2 DEF Overdue, CloseCommit
  <2>9. OneFormalSubmission'
    <3> SUFFICES ASSUME NEW b \in AttemptIds
                 PROVE  /\ Len(subs'[b]) <= 1
                        /\ attempts'[b].status = "SUBMITTED" => Len(subs'[b]) = 1
                        /\ attempts'[b].status \in
                              {"none", "NOT_STARTED", "IN_PROGRESS", "EXPIRED"}
                            => Len(subs'[b]) = 0
        BY DEF OneFormalSubmission
    <3>1. CASE b = a
      <4>1. CASE HasCode(req[p])
        <5>1. attempts'[a].status = "SUBMITTED" /\ Len(subs'[a]) = 1
              BY <2>2, <2>4, <4>1
        <5> QED
            BY <3>1, <5>1
      <4>2. CASE ~HasCode(req[p])
        <5>1. attempts'[a].status = "EXPIRED" /\ Len(subs'[a]) = 0
              BY <2>2, <2>4, <4>2
        <5> QED
            BY <3>1, <5>1
      <4> QED
          BY <4>1, <4>2
    <3>2. CASE b # a
      <4>1. attempts'[b] = attempts[b] /\ subs'[b] = subs[b]
            BY <2>2, <2>4, <3>2
      <4> QED
          BY <4>1 DEF LockInv, OneFormalSubmission
    <3> QED
        BY <3>1, <3>2
  <2> QED
      BY <2>6, <2>7, <2>8, <2>9 DEF LockInv
<1>10. ASSUME NEW p \in Procs, Dispatch(p) PROVE LockInv'
  <2> DEFINE a == req[p].att
  <2>1. \A q \in Procs : req'[q] = req[q] \/ req'[q].op \notin {"submit", "auto"}
        BY <1>0, <1>10, <1>idle DEF Dispatch
  <2>2. \A b \in AttemptIds : Len(subs'[b]) = Len(subs[b])
    <3>1. subs \in [AttemptIds -> Seq(Submission)] /\ a \in AttemptIds
          BY <1>0, <1>10, <1>att DEF TypeOK, Dispatch
    <3>2. \A b \in AttemptIds : Len(Failed(a)[b]) = Len(subs[b])
          BY <3>1 DEF Failed
    <3> QED
        BY <1>10, <3>2 DEF Dispatch
  <2>3. HoldersOpen' /\ OneHolder' /\ DuePersists'
        BY <1>10, <2>1 DEF Dispatch, LockInv, HoldersOpen, OneHolder, DuePersists, Holds,
                           Open, Overdue
  <2>4. OneFormalSubmission'
        BY <1>10, <2>2 DEF Dispatch, LockInv, OneFormalSubmission
  <2> QED
      BY <2>3, <2>4 DEF LockInv
<1>11. ASSUME NEW p \in Procs, Crash(p) PROVE LockInv'
  <2>1. \A q \in Procs : req'[q] = req[q] \/ req'[q].op \notin {"submit", "auto"}
        BY <1>0, <1>11, <1>idle DEF Crash
  <2> QED
      BY <1>11, <2>1, LockInvKept DEF Crash
<1>12. CASE EndSession \/ ExpireSession
  <2>1. session'.kind = session.kind /\ session'.due = session.due
        BY <1>0, <1>12 DEF EndSession, ExpireSession, FlipEnded, TypeOK
  <2> QED
      BY <1>12, <2>1, LockInvKept DEF EndSession, ExpireSession, FlipEnded
<1>13. CASE ListOpen \/ ListNoShows \/ CloseDone
      BY <1>13, LockInvKept DEF ListOpen, ListNoShows, CloseDone
<1>14. ASSUME NEW a \in AttemptIds, EnderLock(a) PROVE LockInv'
  <2>1. Ender \in Procs /\ "SESSION_ENDED" \in Reasons
        BY DEF Procs, Closers, Reasons
  <2> QED
      BY <1>8, <1>14, <2>1 DEF EnderLock
<1>15. ASSUME NEW a \in AttemptIds, EnderSkip(a) PROVE LockInv'
      BY <1>15, LockInvKept DEF EnderSkip
<1>16. ASSUME NEW c \in Coders, CreateNoShow(c) PROVE LockInv'
  <2>1. \A b \in AttemptIds :
          \/ attempts'[b] = attempts[b]
          \/ attempts[b].status = "none" /\ attempts'[b].status = "EXPIRED"
        BY <1>0, <1>16, CreateNoShowEffect
  <2> QED
      BY <1>16, <2>1, LockInvKept DEF CreateNoShow
<1>17. ASSUME NEW r \in Architects, NEW a \in AttemptIds, ResetRead(r, a) PROVE LockInv'
  <2> DEFINE q == [Asking("reset", a) EXCEPT !.granted = session.status # "RUNNING"]
  <2>1. q.op = "reset"
        BY DEF Asking, Idle
  <2>2. req' = [req EXCEPT ![r] = q]
        BY <1>17 DEF ResetRead
  <2> HIDE DEF q
  <2>3. \A p \in Procs : req'[p] = req[p] \/ req'[p].op \notin {"submit", "auto"}
        BY <1>0, <2>1, <2>2
  <2> QED
      BY <1>17, <2>3, LockInvKept DEF ResetRead
<1>18. ASSUME NEW r \in Architects, ResetWrite(r) PROVE LockInv'
  <2>1. req[r].att \in AttemptIds
        BY <1>18, <1>att DEF ResetWrite, Procs
  <2>2. \A b \in AttemptIds :
          \/ attempts'[b].status = attempts[b].status /\ attempts'[b].clock = attempts[b].clock
          \/ attempts[b].status = "none" /\ attempts'[b].status = "NOT_STARTED"
          \/ attempts'[b].status = "RESET" /\ ~RowLocked(b)
        BY <1>0, <1>18, <2>1, ResetWriteEffect
  <2>3. \A p \in Procs : req'[p] = req[p] \/ req'[p].op \notin {"submit", "auto"}
        BY <1>0, <1>18, <1>idle DEF ResetWrite
  <2> QED
      BY <1>18, <2>2, <2>3, LockInvKept DEF ResetWrite
<1>19. ASSUME NEW a \in AttemptIds, SetOfficial(a) \/ UnsetOfficial(a) PROVE LockInv'
  <2>1. \A b \in AttemptIds :
          attempts'[b].status = attempts[b].status /\ attempts'[b].clock = attempts[b].clock
        BY <1>0, <1>19, MarkEffect
  <2>2. UNCHANGED <<session, subs, req>>
        BY <1>19 DEF SetOfficial, UnsetOfficial
  <2> QED
      BY <2>1, <2>2, LockInvKept
<1>20. ASSUME NEW a \in AttemptIds, Pause(a) \/ Resume(a) \/ ClockRunsOut(a) PROVE LockInv'
  <2>1. \A b \in AttemptIds :
          /\ attempts'[b].status = attempts[b].status
          /\ attempts[b].clock = "out" /\ RowLocked(b) => attempts'[b].clock = "out"
        BY <1>0, <1>20, ClockEffect
  <2>2. UNCHANGED <<session, subs, req>>
        BY <1>20 DEF Pause, Resume, ClockRunsOut
  <2> QED
      BY <2>1, <2>2, LockInvKept
<1>21. CASE SessionComesDue
  <2>1. session'.kind = session.kind /\ session'.due
        BY <1>0, <1>21 DEF SessionComesDue, TypeOK
  <2> QED
      BY <1>21, <2>1, LockInvKept DEF SessionComesDue
<1>22. ASSUME NEW t \in Tabs, TabStep(t) PROVE LockInv'
      BY <1>2, <1>3, <1>4, <1>5, <1>7, <1>22 DEF TabStep
<1>23. ASSUME NEW p \in Callers, CallerStep(p) PROVE LockInv'
      BY <1>8, <1>23 DEF CallerStep, CallerLock, Procs, Closers
<1>24. CASE CloseLoop
      BY <1>12, <1>13, <1>14, <1>15, <1>16, <1>24 DEF CloseLoop
<1>25. CASE ArchitectStep
      BY <1>17, <1>18, <1>19, <1>25 DEF ArchitectStep
<1>26. CASE ClockStep
      BY <1>20, <1>21, <1>26 DEF ClockStep
<1> QED
    BY <1>1, <1>9, <1>10, <1>11, <1>22, <1>23, <1>24, <1>25, <1>26 DEF Next

\* Whatever closes it, and however many closers race, an attempt is handed in
\* once: rule 3 of attempts.ts, for any number of tabs and callers.
THEOREM AtMostOneSubmission == SafeSpec => []OneFormalSubmission
<1>1. LockInv => OneFormalSubmission
      BY DEF LockInv
<1> QED
    BY <1>1, InitTypeInv, TypeInvNext, InitLockInv, LockInvNext, PTL DEF SafeSpec

\* A deadline that was past when the row was locked is past when it closes:
\* pauses and resumes wait for the lock.
THEOREM DeadlinesAreKept == SafeSpec => NeverClosedEarly
<1>1. TypeInv /\ LockInv /\ [Next]_vars =>
        [\A p \in Procs :
           /\ req[p].op = "auto" /\ req[p].reason = "DEADLINE"
           /\ Open(req[p].att) /\ attempts'[req[p].att].status # "IN_PROGRESS"
           => Overdue(req[p].att)]_vars
      BY DEF LockInv, DuePersists
<1> QED
    BY <1>1, InitTypeInv, TypeInvNext, InitLockInv, LockInvNext, PTL
       DEF SafeSpec, NeverClosedEarly

-------------------------------------------------------------------------------
(* Closed attempts.  Each statement that could reopen one is conditional. *)

LEMMA ClosedStep ==
  ASSUME TypeInv, LockInv, [Next]_vars, NEW a \in AttemptIds, attempts[a].status \in Closed
  PROVE  attempts'[a].status \in {attempts[a].status, "RESET"}
<1> USE DEF Closed
<1>0. TypeOK
      BY DEF TypeInv
<1>1. CASE UNCHANGED attempts
      BY <1>1
<1>2. ASSUME NEW t \in Tabs, StartWrite(t)
      PROVE  attempts'[a].status \in {attempts[a].status, "RESET"}
      BY <1>0, <1>2, StartWriteEffect
<1>3. ASSUME NEW p \in Procs, CloseCommit(p)
      PROVE  attempts'[a].status \in {attempts[a].status, "RESET"}
  <2>1. req[p].att \in AttemptIds /\ attempts[req[p].att].status = "IN_PROGRESS"
        BY <1>3 DEF CloseCommit, TypeInv, WellFormed, LockInv, HoldersOpen, Holds, Open
  <2> QED
      BY <1>0, <1>3, <2>1, CloseCommitEffect
<1>4. ASSUME NEW c \in Coders, CreateNoShow(c)
      PROVE  attempts'[a].status \in {attempts[a].status, "RESET"}
      BY <1>0, <1>4, CreateNoShowEffect
<1>5. ASSUME NEW r \in Architects, ResetWrite(r)
      PROVE  attempts'[a].status \in {attempts[a].status, "RESET"}
  <2>1. req[r].att \in AttemptIds
        BY <1>5 DEF ResetWrite, TypeInv, WellFormed, Procs
  <2> QED
      BY <1>0, <1>5, <2>1, ResetWriteEffect
<1>6. ASSUME NEW b \in AttemptIds, SetOfficial(b) \/ UnsetOfficial(b)
      PROVE  attempts'[a].status \in {attempts[a].status, "RESET"}
      BY <1>0, <1>6, MarkEffect
<1>7. ASSUME NEW b \in AttemptIds, Pause(b) \/ Resume(b) \/ ClockRunsOut(b)
      PROVE  attempts'[a].status \in {attempts[a].status, "RESET"}
      BY <1>0, <1>7, ClockEffect
<1>8. ASSUME NEW t \in Tabs, TabStep(t)
      PROVE  StartWrite(t) \/ UNCHANGED attempts
      BY <1>8 DEF TabStep, StartRead, DraftRead, DraftWrite, SubmitLock
<1>9. ASSUME NEW p \in Callers, CallerStep(p) PROVE UNCHANGED attempts
      BY <1>9 DEF CallerStep, CallerLock, AutoLock
<1>10. ASSUME NEW p \in Procs, Dispatch(p) \/ Crash(p) PROVE UNCHANGED attempts
      BY <1>10 DEF Dispatch, Crash
<1>11. CASE CloseLoop
  <2>1. (\E c \in Coders : CreateNoShow(c)) \/ UNCHANGED attempts
        BY <1>11 DEF CloseLoop, EndSession, ExpireSession, FlipEnded, ListOpen, ListNoShows,
                     CloseDone, EnderLock, EnderSkip, AutoLock
  <2> QED
      BY <1>1, <1>4, <2>1
<1>12. CASE ArchitectStep
      BY <1>1, <1>5, <1>6, <1>12 DEF ArchitectStep, ResetRead
<1>13. CASE ClockStep
      BY <1>1, <1>7, <1>13 DEF ClockStep, SessionComesDue
<1> QED
    BY <1>1, <1>2, <1>3, <1>8, <1>9, <1>10, <1>11, <1>12, <1>13 DEF Next, vars

\* A closed attempt is never reopened by a start, a submit or an auto-submit
\* that was decided on what it read before the attempt closed.
THEOREM ClosedForGood == SafeSpec => ClosedStaysClosed
<1>1. TypeInv /\ LockInv /\ [Next]_vars =>
        [\A a \in AttemptIds :
           attempts[a].status \in Closed =>
             attempts'[a].status \in {attempts[a].status, "RESET"}]_vars
      BY ClosedStep
<1> QED
    BY <1>1, InitTypeInv, TypeInvNext, InitLockInv, LockInvNext, PTL
       DEF SafeSpec, ClosedStaysClosed
===============================================================================
