------------------------------ MODULE Assessments ------------------------------
(***************************************************************************)
(* What Architects do to one Assessment and its sessions, several requests *)
(* at a time: drafting, editing, starting, ending and deleting sessions,   *)
(* opening the Assessment to everybody, and writing, validating and        *)
(* removing what grades it (sessions.ts, assessments.ts,                   *)
(* script-validation.ts).                                                  *)
(*                                                                         *)
(* A request that reads, decides and later writes is a task that keeps     *)
(* what it read; its reads are one step, and its transaction or final      *)
(* statement another.  Attempts are counted only as far as these requests  *)
(* look: one that is open in a session, one that is being graded.          *)
(*                                                                         *)
(* Times are "none", "future" or "past".  A test script, its text and its  *)
(* reference solution are the numbers of the requests that wrote them; 0   *)
(* is none.                                                                *)
(***************************************************************************)
EXTENDS Naturals, FiniteSets

CONSTANTS
  Sessions,     \* session ids; each is used for at most one session
  Patches,      \* bound: the changes Architects make to a session
  MaxRequests,  \* bound: requests made
  MaxTasks      \* bound: requests under way at once

\* The statuses an Architect sets by hand.
EDITABLE_SESSION_STATUSES == {"DRAFT", "READY", "CANCELLED"}

\* What a request to update a session may carry, and what of each; a closing
\* time that is past already is refused.
UpdateSessionRequest ==
  [status |-> EDITABLE_SESSION_STATUSES, executionMode |-> {"INDIVIDUAL", "LIVE"},
   access |-> {"LISTED", "MODULE"}, closesAt |-> {"none", "future"},
   requireAllReady |-> BOOLEAN]

ASSUME AssessmentAssumption ==
  /\ {MaxRequests, MaxTasks} \subseteq Nat
  /\ \A patch \in Patches : \A f \in DOMAIN patch :
       f \in DOMAIN UpdateSessionRequest /\ patch[f] \in UpdateSessionRequest[f]

VARIABLES
  assessment,  \* isPublished, isOpenAccess, executionMode, and has test cases
  script,      \* the test script of the one language, and its validation
  solution,    \* the reference solution
  session,     \* the session rows
  listed,      \* sessions somebody is listed for
  work,        \* attempts of each session: one open, one being graded
  ready,       \* is everyone on the roster here and ready?
  tasks,       \* requests between two steps
  jobs,        \* validation jobs on their way, with what they run
  requests     \* requests made so far

vars == <<assessment, script, solution, session, listed, work, ready, tasks, jobs,
          requests>>
authored == <<assessment, script, solution, jobs>>
sessions == <<session, listed, work, ready>>

------------------------------------------------------------------------------
Absent == [status |-> "absent", isOpenAccess |-> FALSE, executionMode |-> "none",
           closesAt |-> "none", endsAt |-> "none", requireAllReady |-> FALSE,
           access |-> "LISTED"]

\* What the script was like when it was marked, and what the job that judged
\* it ran, are not in the row: they are kept for the properties.
NoScript == [id |-> 0, text |-> 0, status |-> "UNVALIDATED", job |-> 0,
             marked |-> <<0, 0>>, judged |-> <<0, 0>>]

Init ==
  /\ assessment \in [isPublished : {TRUE}, isOpenAccess : {FALSE},
                     executionMode : {"none", "INDIVIDUAL", "LIVE"}, cases : {TRUE}]
  /\ \/ script = NoScript /\ solution = 0
     \/ script = [NoScript EXCEPT !.id = 1, !.text = 1] /\ solution = 1
  /\ session = [s \in Sessions |-> Absent]
  /\ listed = {}
  /\ work = [s \in Sessions |-> {}]
  /\ ready = FALSE
  /\ tasks = {}
  /\ jobs = {}
  /\ requests = 0

------------------------------------------------------------------------------
EDITABLE_STATUSES == {"DRAFT", "READY"}
isEditable(row) == row.status \in EDITABLE_STATUSES

\* Why a session cannot be configured this way.
sessionRuleProblem(row) == row.executionMode = "LIVE" /\ row.closesAt # "none"

rosterSource(s, row) ==
  CASE row.isOpenAccess -> "NONE"
    [] ~ row.isOpenAccess /\ row.access = "MODULE" -> "MODULE"
    [] OTHER -> IF s \in listed THEN "LIST" ELSE "NONE"

Running == {s \in Sessions : session[s].status = "RUNNING"}
OpenAccess == {s \in Running : session[s].isOpenAccess}

assertNoRunningSession == Running = OpenAccess
assertNoOpenAccessAttemptInProgress ==
  \A s \in Sessions : session[s].isOpenAccess => "open" \notin work[s]

\* The number of a request, for what it writes.
Fresh == requests + 2

\* A request arrives, to be answered at once or with more steps to come.
Request == requests < MaxRequests /\ requests' = requests + 1
Numbered(t, id) == [f \in DOMAIN t \cup {"id"} |-> IF f = "id" THEN id ELSE t[f]]
Begin(t) ==
  /\ Cardinality(tasks) < MaxTasks
  /\ tasks' = tasks \cup {Numbered(t, requests')}
End(t) == tasks' = tasks \ {t}
Then(t, next) == tasks' = (tasks \ {t}) \cup {Numbered(next, t.id)}

------------------------------------------------------------------------------
(* Sessions.                                                                *)

\* Timing is the Assessment's unless overridden; an untimed one has none.
createSession(s) ==
  /\ Request
  /\ session[s].status = "absent" /\ work[s] = {}
  /\ \E row \in [status : {"DRAFT", "READY"}, isOpenAccess : {FALSE},
                 executionMode : {"none", "INDIVIDUAL", "LIVE"}, closesAt : {"none", "future"},
                 endsAt : {"none"}, requireAllReady : BOOLEAN,
                 access : {"LISTED", "MODULE"}] :
       /\ row.executionMode = "none" <=> assessment.executionMode = "none"
       /\ ~ sessionRuleProblem(row)
       /\ session' = [session EXCEPT ![s] = row]
  /\ UNCHANGED <<listed, work, ready, tasks, authored>>

\* A patch sets some of the fields of the row.
Patched(row, patch) == [f \in DOMAIN row |-> IF f \in DOMAIN patch THEN patch[f] ELSE row[f]]

\* (Variant: what was checked when the request came is not checked again.)
StillEditableAssumed(t) == session[t.session].status # "absent"

StillEditable(t) == isEditable(session[t.session])

updateSession(s, patch) ==
  /\ Request
  /\ isEditable(session[s])
  /\ "executionMode" \in DOMAIN patch => session[s].executionMode # "none"
  /\ ~ sessionRuleProblem(Patched(session[s], patch))
  /\ Begin([op |-> "update", session |-> s, patch |-> patch])
  /\ UNCHANGED <<sessions, authored>>

\* Conditional on the status: a start in between leaves it without effect.
UpdateWrites(t) ==
  /\ t.op = "update"
  /\ session' = IF StillEditable(t)
                THEN [session EXCEPT ![t.session] = Patched(@, t.patch)]
                ELSE session
  /\ End(t)
  /\ UNCHANGED <<listed, work, ready, authored, requests>>

\* (Variant: what the session's work still needs is not looked at.)
DeletableUnlessRunning(s) == session[s].status # "RUNNING"

\* The guards are in the statement that deletes.
Deletable(s) == session[s].status # "RUNNING" /\ work[s] = {}

deleteSession(s) ==
  /\ Request
  /\ session[s].status \notin {"absent", "RUNNING"}
  /\ Begin([op |-> "delete", session |-> s])
  /\ UNCHANGED <<sessions, authored>>

DeleteWrites(t) ==
  /\ t.op = "delete"
  /\ IF Deletable(t.session)
     THEN /\ session' = [session EXCEPT ![t.session] = Absent]
          /\ listed' = listed \ {t.session}
          /\ work' = [work EXCEPT ![t.session] = {}]
     ELSE UNCHANGED <<session, listed, work>>
  /\ End(t)
  /\ UNCHANGED <<ready, authored, requests>>

\* The list is replaced in a transaction that does not look at the session.
replaceParticipants(s) ==
  /\ Request
  /\ isEditable(session[s])
  /\ \E some \in BOOLEAN : Begin([op |-> "list", session |-> s, some |-> some])
  /\ UNCHANGED <<sessions, authored>>

ListWrites(t) ==
  /\ t.op = "list"
  /\ listed' = IF t.some /\ session[t.session].status # "absent"
               THEN listed \cup {t.session} ELSE listed \ {t.session}
  /\ End(t)
  /\ UNCHANGED <<session, work, ready, authored, requests>>

\* Start answers with a warning unless everybody it waits for is ready, or
\* the Architect forces it.
startSession(s, force) ==
  LET row == session[s] IN
  /\ Request
  /\ isEditable(row)
  /\ assessment.isPublished
  /\ assessment.cases \/ script.id # 0
  /\ row.closesAt # "past"
  /\ rosterSource(s, row) # "NONE"
  /\ (row.executionMode = "LIVE" \/ row.requireAllReady) => ready \/ force
  /\ Begin([op |-> "start", session |-> s,
            endsAt |-> IF row.executionMode = "LIVE" THEN "future" ELSE row.closesAt])
  /\ UNCHANGED <<sessions, authored>>

StartWrites(t) ==
  /\ t.op = "start"
  /\ session' = IF StillEditable(t)
                THEN [session EXCEPT ![t.session].status = "RUNNING",
                                     ![t.session].endsAt = t.endsAt]
                ELSE session
  /\ End(t)
  /\ UNCHANGED <<listed, work, ready, authored, requests>>

\* closeSession: the status flips first, then what is open is handed in.
Flips(s) == session' = IF session[s].status = "RUNNING"
                       THEN [session EXCEPT ![s].status = "ENDED"] ELSE session

endSession(s) ==
  /\ Request
  /\ session[s].status = "RUNNING"
  /\ Begin([op |-> "end", rest |-> {s}])
  /\ UNCHANGED <<sessions, authored>>

\* (Variant: the Architect's closing time is taken for the deadline.)
IsDueToClose(s) == session[s].status = "RUNNING" /\ session[s].closesAt = "past"

IsDue(s) == session[s].status = "RUNNING" /\ session[s].endsAt = "past"

\* The alarm asks; only a session that is due by its own row is closed.
expireSession(s) ==
  /\ IsDue(s)
  /\ requests' = requests
  /\ Begin([op |-> "end", rest |-> {s}])
  /\ UNCHANGED <<sessions, authored>>

GoesOn(t, rest) == IF rest = {} THEN End(t) ELSE Then(t, [op |-> "end", rest |-> rest])

closeSession(t) ==
  /\ t.op = "end"
  /\ \E s \in t.rest :
       /\ Flips(s)
       /\ IF session[s].status = "RUNNING"
          THEN Then(t, [op |-> "close", session |-> s, rest |-> t.rest \ {s}])
          ELSE GoesOn(t, t.rest \ {s})
  /\ UNCHANGED <<listed, work, ready, authored, requests>>

CloseAttempts(t) ==
  /\ t.op = "close"
  /\ work' = [work EXCEPT ![t.session] = IF "open" \in @ THEN {"grading"} ELSE @]
  /\ GoesOn(t, t.rest)
  /\ UNCHANGED <<session, listed, ready, authored, requests>>

------------------------------------------------------------------------------
(* The Assessment, and open access.                                         *)

AssessmentPatches ==
  [isOpenAccess : BOOLEAN] \cup [isPublished : BOOLEAN]
    \cup [executionMode : {"INDIVIDUAL", "LIVE"}]

\* A patch is checked against the Assessment as it will be.
updateAssessment(patch) ==
  LET next == Patched(assessment, patch) IN
  /\ Request
  /\ assertNoRunningSession
  /\ patch # [isOpenAccess |-> FALSE] => assertNoOpenAccessAttemptInProgress
  /\ ~ (next.isOpenAccess /\ next.executionMode = "LIVE")
  /\ Begin([op |-> "assessment", patch |-> patch, executionMode |-> next.executionMode])
  /\ UNCHANGED <<sessions, authored>>

\* The timing fields are always written, the others when they are sent.
AssessmentWrites(t) ==
  /\ t.op = "assessment"
  /\ assessment' = [Patched(assessment, t.patch) EXCEPT !.executionMode = t.executionMode]
  /\ IF "isOpenAccess" \notin DOMAIN t.patch THEN End(t)
     ELSE Then(t, [op |-> IF t.patch.isOpenAccess THEN "ensure" ELSE "shut"])
  /\ UNCHANGED <<script, solution, jobs, sessions, requests>>

\* A Coder opens the Assessment.
getAssessment ==
  /\ Request
  /\ assessment.isPublished /\ assessment.isOpenAccess
  /\ Begin([op |-> "ensure"])
  /\ UNCHANGED <<sessions, authored>>

ensureOpenAccessSession(t) ==
  /\ t.op = "ensure"
  /\ IF assessment.isOpenAccess /\ assessment.executionMode # "LIVE" /\ OpenAccess = {}
     THEN Then(t, [op |-> "open", executionMode |-> assessment.executionMode])
     ELSE End(t)
  /\ UNCHANGED <<sessions, authored, requests>>

\* (Variant: the session waits for somebody to start it.)
OpenRowReady(mode) ==
  [Absent EXCEPT !.status = "READY", !.isOpenAccess = TRUE, !.executionMode = mode,
                 !.access = "MODULE"]

\* It runs from the moment it exists.
OpenRow(mode) ==
  [Absent EXCEPT !.status = "RUNNING", !.isOpenAccess = TRUE, !.executionMode = mode,
                 !.access = "MODULE"]

OpenCreates(t) ==
  /\ t.op = "open"
  /\ \E s \in Sessions :
       /\ session[s].status = "absent" /\ work[s] = {}
       /\ session' = [session EXCEPT ![s] = OpenRow(t.executionMode)]
  /\ End(t)
  /\ UNCHANGED <<listed, work, ready, authored, requests>>

\* Every running open-access session is closed like any other, one by one.
closeOpenAccessSessions(t) ==
  /\ t.op = "shut"
  /\ GoesOn(t, OpenAccess)
  /\ UNCHANGED <<sessions, authored, requests>>

------------------------------------------------------------------------------
(* What grades it.                                                          *)

\* Test cases are added and removed while no scheduled session runs.
EditCases ==
  /\ Request
  /\ assertNoRunningSession
  /\ \E some \in BOOLEAN : Begin([op |-> "cases", some |-> some])
  /\ UNCHANGED <<sessions, authored>>

CasesWrite(t) ==
  /\ t.op = "cases"
  /\ assessment' = [assessment EXCEPT !.cases = t.some]
  /\ End(t)
  /\ UNCHANGED <<script, solution, jobs, sessions, requests>>

\* (Variant: only the job is forgotten.)
resetJob(row) == [row EXCEPT !.job = 0]

resetValidation(row) == [row EXCEPT !.status = "UNVALIDATED", !.job = 0]

\* The text that is there once more (with another weight, say), or a new one.
\* Only new content is to be validated again, and what is new is decided on
\* the row as it was read.
uploadTestScript ==
  /\ Request
  /\ assertNoRunningSession
  /\ \E text \in {script.text, Fresh} \ {0} :
       Begin([op |-> "upload", text |-> text, row |-> Fresh,
              unchanged |-> script.id # 0 /\ text = script.text])
  /\ UNCHANGED <<sessions, authored>>

\* A path that is not used, or not any more, makes a new row.
UploadWrites(t) ==
  /\ t.op = "upload"
  /\ LET row == IF t.unchanged THEN script ELSE resetValidation(script)
     IN  script' = [row EXCEPT !.text = t.text, !.id = IF @ = 0 THEN t.row ELSE @]
  /\ End(t)
  /\ UNCHANGED <<assessment, solution, jobs, sessions, requests>>

deleteTestScript ==
  /\ Request
  /\ script.id # 0
  /\ assertNoRunningSession
  /\ Begin([op |-> "remove", script |-> script.id])
  /\ UNCHANGED <<sessions, authored>>

RemoveWrites(t) ==
  /\ t.op = "remove"
  /\ script' = IF script.id = t.script THEN NoScript ELSE script
  /\ End(t)
  /\ UNCHANGED <<assessment, solution, jobs, sessions, requests>>

\* Allowed while a session runs; an empty source removes the solution.
saveReferenceSolution ==
  /\ Request
  /\ solution' \in {0, Fresh}
  /\ script' = resetValidation(script)
  /\ UNCHANGED <<assessment, jobs, sessions, tasks>>

\* The script and the solution are read here, and the job is made of them.
validateTestScripts ==
  /\ Request
  /\ script.id # 0 /\ solution # 0
  /\ Begin([op |-> "validate", job |-> Fresh, script |-> script.id,
            runs |-> <<script.text, solution>>])
  /\ UNCHANGED <<sessions, authored>>

\* The script is marked by its id, whatever it holds by now.
enqueueScriptValidation(t) ==
  /\ t.op = "validate"
  /\ script' = IF script.id # t.script THEN script
               ELSE [script EXCEPT !.status = "VALIDATING", !.job = t.job,
                                   !.marked = <<script.text, solution>>]
  /\ jobs' = jobs \cup {[job |-> t.job, runs |-> t.runs]}
  /\ End(t)
  /\ UNCHANGED <<assessment, solution, sessions, requests>>

\* A result counts for a script that still waits for this very job.
recordScriptValidation(j) ==
  /\ jobs' = jobs \ {j}
  /\ \E outcome \in {"PASSED", "FAILED"} :
       script' = IF script.status = "VALIDATING" /\ script.job = j.job
                 THEN [script EXCEPT !.status = outcome, !.judged = j.runs]
                 ELSE script
  /\ UNCHANGED <<assessment, solution, sessions, tasks, requests>>

\* A Run that cannot be delivered is dropped.
ResultLost(j) ==
  /\ jobs' = jobs \ {j}
  /\ UNCHANGED <<assessment, script, solution, sessions, tasks, requests>>

------------------------------------------------------------------------------
(* Coders, graders and the clock.                                           *)

StartAttempt(s) ==
  /\ session[s].status = "RUNNING" /\ work[s] = {}
  /\ work' = [work EXCEPT ![s] = {"open"}]
  /\ UNCHANGED <<session, listed, ready, tasks, authored, requests>>

SubmitAttempt(s) ==
  /\ "open" \in work[s]
  /\ work' = [work EXCEPT ![s] = {"grading"}]
  /\ UNCHANGED <<session, listed, ready, tasks, authored, requests>>

Graded(s) ==
  /\ "grading" \in work[s]
  /\ work' = [work EXCEPT ![s] = {}]
  /\ UNCHANGED <<session, listed, ready, tasks, authored, requests>>

Readiness ==
  /\ ready' = ~ ready
  /\ UNCHANGED <<session, listed, work, tasks, authored, requests>>

Later(time) == IF time = "future" THEN "past" ELSE time
\* A time that a request has read or brings does not pass before it is written.
TimePasses ==
  /\ \A t \in tasks : t.op \notin {"start", "update"}
  /\ session' = [s \in Sessions |->
       [session[s] EXCEPT !.closesAt = Later(@), !.endsAt = Later(@)]]
  /\ UNCHANGED <<listed, work, ready, tasks, authored, requests>>

------------------------------------------------------------------------------
Step(t) ==
  \/ UpdateWrites(t) \/ DeleteWrites(t) \/ ListWrites(t) \/ StartWrites(t)
  \/ closeSession(t) \/ CloseAttempts(t)
  \/ AssessmentWrites(t) \/ ensureOpenAccessSession(t) \/ OpenCreates(t)
  \/ closeOpenAccessSessions(t)
  \/ CasesWrite(t) \/ UploadWrites(t) \/ RemoveWrites(t)
  \/ enqueueScriptValidation(t)

Next ==
  \/ \E s \in Sessions :
       \/ createSession(s) \/ deleteSession(s) \/ replaceParticipants(s)
       \/ endSession(s) \/ expireSession(s)
       \/ \E patch \in Patches : updateSession(s, patch)
       \/ \E force \in BOOLEAN : startSession(s, force)
       \/ StartAttempt(s) \/ SubmitAttempt(s) \/ Graded(s)
  \/ \E patch \in AssessmentPatches : updateAssessment(patch)
  \/ getAssessment \/ EditCases \/ uploadTestScript \/ deleteTestScript
  \/ saveReferenceSolution
  \/ validateTestScripts
  \/ \E t \in tasks : Step(t)
  \/ \E j \in jobs : recordScriptValidation(j) \/ ResultLost(j)
  \/ Readiness \/ TimePasses

\* A request that has begun goes on; due sessions are looked for, by the
\* alarm and by the sweep that stands in for it.
Fairness ==
  /\ \A s \in Sessions : SF_vars(expireSession(s))
  /\ WF_vars(\E t \in tasks : Step(t))

Spec == Init /\ [][Next]_vars /\ Fairness

------------------------------------------------------------------------------
Times == {"none", "future", "past"}
Modes == {"none", "INDIVIDUAL", "LIVE"}
Row == [status : {"absent", "DRAFT", "READY", "RUNNING", "ENDED", "CANCELLED"},
        isOpenAccess : BOOLEAN, executionMode : Modes, closesAt : Times,
        endsAt : Times, requireAllReady : BOOLEAN, access : {"LISTED", "MODULE"}]

TypeOK ==
  /\ assessment \in [isPublished : BOOLEAN, isOpenAccess : BOOLEAN,
                     executionMode : Modes, cases : BOOLEAN]
  /\ script \in [id : Nat, text : Nat,
                 status : {"UNVALIDATED", "VALIDATING", "PASSED", "FAILED"},
                 job : Nat, marked : Nat \X Nat, judged : Nat \X Nat]
  /\ solution \in Nat
  /\ session \in [Sessions -> Row]
  /\ \A s \in Sessions : session[s].isOpenAccess => session[s].status \in {"RUNNING", "ENDED"}
  /\ listed \subseteq Sessions
  /\ work \in [Sessions -> SUBSET {"open", "grading"}]
  /\ ready \in BOOLEAN
  /\ jobs \subseteq [job : Nat, runs : Nat \X Nat]
  /\ requests \in 0 .. MaxRequests
  /\ Cardinality(tasks) <= MaxTasks

(* Safety.                                                                  *)

\* "a pass against the old solution says nothing about this one", and "only
\* new content needs validating again" (assessments.ts:622, 672-673): a script
\* that waits for a verdict, or has one, is as it was when it was marked.
JudgedAsMarked ==
  script.status # "UNVALIDATED" => script.marked = <<script.text, solution>>

\* An upload that took its text for the stored one, which it no longer is.
Overtaken(t) == t.op = "upload" /\ t.unchanged /\ t.text # script.text

\* No edit of a script or of its reference solution, however old what it read
\* and wherever the validation is, leaves a script judged or waiting as it was
\* not marked -- but an upload that another request overtook between its read
\* and its upsert (assessments.ts:617-653), which does.
OnlyOvertakenUploadsSlip ==
  [][JudgedAsMarked /\ ~ JudgedAsMarked' =>
       \E t \in tasks : Overtaken(t) /\ UploadWrites(t)]_vars

Timing(row) == [row EXCEPT !.status = "", !.closesAt = "", !.endsAt = ""]
SameTime(a, b) == b \in {a, Later(a)}

\* Whatever an Architect sent before it started and another sends after, a
\* session that runs or has run keeps its configuration and its deadline, runs
\* once, and comes to no other end than ENDED (sessions.ts:67, 377-380).
FrozenOnceStarted ==
  [][\A s \in Sessions :
       session[s].status \in {"RUNNING", "ENDED"} /\ session'[s].status # "absent" =>
         /\ session'[s].status \in {session[s].status, "ENDED"}
         /\ Timing(session'[s]) = Timing(session[s])
         /\ SameTime(session[s].closesAt, session'[s].closesAt)
         /\ SameTime(session[s].endsAt, session'[s].endsAt)]_vars

\* No session is deleted while it runs, while somebody answers it, or while
\* the worker holds what it recorded, however old the request to delete it
\* is (sessions.ts:427-437).
DeletedOnlyAtRest ==
  [][\A s \in Sessions :
       session[s].status # "absent" /\ session'[s].status = "absent" =>
         session[s].status # "RUNNING" /\ work[s] = {}]_vars

(* Liveness.                                                                *)

\* A session past its deadline ends, and what is open in it is handed in.
DueSessionsEmpty ==
  \A s \in Sessions :
    session[s].status = "RUNNING" /\ session[s].endsAt = "past" ~>
      session[s].status # "RUNNING" /\ "open" \notin work[s]

(* What the comments promise and interleavings break.                       *)

\* "exactly one long-lived session" (sessions.ts:141), "the unique-violation
\* retry is what keeps that from producing two sessions" (sessions.ts:150-151).
OneOpenAccessSession == Cardinality(OpenAccess) <= 1

\* "a late result cannot mark a script it never ran"
\* (script-validation.ts:217-218).
ValidatedIsCurrent ==
  script.status \in {"PASSED", "FAILED"} => script.judged = <<script.text, solution>>

\* "Participant lists and timing are fixed once a session starts"
\* (sessions.ts:67).
ListFixedOnceStarted ==
  [][\A s \in Sessions :
       session[s].status = "RUNNING" /\ session'[s].status = "RUNNING" =>
         (s \in listed <=> s \in listed')]_vars

\* A Live session gets a deadline when it starts and "every other mode takes
\* the Architect's closing time" (sessions.ts:611-612).
EndsAsConfigured ==
  \A s \in Sessions : session[s].status = "RUNNING" =>
    IF session[s].executionMode = "LIVE" THEN session[s].endsAt # "none"
    ELSE session[s].endsAt = session[s].closesAt

\* "switching to Live while open access is already on has to be caught"
\* (assessments.ts:411-412).
OpenAccessIsNotLive == ~ (assessment.isOpenAccess /\ assessment.executionMode = "LIVE")
==============================================================================
