-------------------------- MODULE Assessments_proofs --------------------------
(***************************************************************************)
(* Safety of Assessments for any sessions, patches and requests.           *)
(*                                                                         *)
(* Little is needed of the requests under way: what they read is stale     *)
(* whatever it is, and each statement that writes looks again -- all but   *)
(* the upload of a test script, which needs that none overtakes it.        *)
(***************************************************************************)
EXTENDS Assessments, FiniteSetTheorems, TLAPS

------------------------------------------------------------------------------
(* Sessions.                                                                *)

RowFields == {"status", "isOpenAccess", "executionMode", "closesAt", "endsAt",
              "requireAllReady", "access"}
IsRow(row) == row = [f \in RowFields |-> row[f]]
SessionRows ==
  /\ session = [s \in Sessions |-> session[s]]
  /\ \A s \in Sessions : IsRow(session[s])

LEMMA AbsentIsRow == IsRow(Absent) /\ Absent.status = "absent"
  BY DEF IsRow, RowFields, Absent

\* What one statement may make of one row: an editable one is patched, started
\* or removed, a running one ends, an absent one is made.
Changed(s, old, new) ==
  \/ new = old
  \/ isEditable(old) /\ new.status # "absent"
  \/ Deletable(s) /\ new = Absent
  \/ old.status = "RUNNING" /\ new = [old EXCEPT !.status = "ENDED"]
  \/ old.status = "absent"

\* The sessions after a step: no row changes in another way, or time passes.
LEMMA OneRow ==
  ASSUME SessionRows, NEW x, NEW new, session' = [session EXCEPT ![x] = new],
         x \in Sessions => IsRow(new) /\ Changed(x, session[x], new)
  PROVE  /\ SessionRows'
         /\ \A s \in Sessions : Changed(s, session[s], session'[s])
  BY DEF SessionRows, Changed

LEMMA PatchedRow ==
  ASSUME NEW row, IsRow(row), NEW patch \in Patches, isEditable(row)
  PROVE  IsRow(Patched(row, patch)) /\ Patched(row, patch).status # "absent"
  <1>1. DOMAIN row = RowFields
    BY DEF IsRow
  <1>2. Patched(row, patch) =
          [f \in RowFields |-> IF f \in DOMAIN patch THEN patch[f] ELSE row[f]]
    BY <1>1 DEF Patched
  <1>3. Patched(row, patch).status =
          IF "status" \in DOMAIN patch THEN patch["status"] ELSE row.status
    BY <1>2 DEF RowFields
  <1> QED BY <1>2, <1>3, AssessmentAssumption
       DEF IsRow, isEditable, EDITABLE_STATUSES, EDITABLE_SESSION_STATUSES,
           UpdateSessionRequest

\* A request to change a session carries one of the patches; an upload read as
\* unchanged carries the text that was stored.
CarriesPatch(t) == t.op = "update" => t.patch \in Patches
CarriesText(t) == t.op = "upload" /\ t.unchanged => t.text = script.text
PatchesCarried == \A t \in tasks : CarriesPatch(t)

\* What the requests that a step begins or goes on to carry.
NewTasksCarry == \A t \in tasks' \ tasks : CarriesPatch(t) /\ CarriesText(t)

SessionInv == SessionRows /\ PatchesCarried

\* Nothing is lost of a task that is given its number.
LEMMA NumberedTask ==
  ASSUME NEW n
  PROVE  /\ \A s, p : LET u == Numbered([op |-> "update", session |-> s, patch |-> p], n)
                     IN u.op = "update" /\ u.patch = p
         /\ \A x, r, b :
              LET u == Numbered([op |-> "upload", text |-> x, row |-> r, unchanged |-> b], n)
              IN u.op = "upload" /\ u.text = x /\ u.unchanged = b
         /\ \A t : "op" \in DOMAIN t => Numbered(t, n).op = t.op
  BY DEF Numbered

LEMMA InitSession == Init => SessionInv
  BY AbsentIsRow DEF Init, SessionInv, SessionRows, PatchesCarried, CarriesPatch

\* A task of another kind carries neither.
LEMMA OtherTasks ==
  ASSUME NEW o, NEW u, u.op = o, o \notin {"update", "upload"}, tasks' \subseteq tasks \cup {u}
  PROVE  NewTasksCarry
  BY DEF NewTasksCarry, CarriesPatch, CarriesText

LEMMA RequestsCarry ==
  ASSUME NEW s \in Sessions,
         \/ createSession(s) \/ deleteSession(s) \/ replaceParticipants(s)
         \/ endSession(s) \/ expireSession(s)
         \/ \E patch \in Patches : updateSession(s, patch)
         \/ \E force \in BOOLEAN : startSession(s, force)
         \/ StartAttempt(s) \/ SubmitAttempt(s) \/ Graded(s)
  PROVE  NewTasksCarry
  <1> USE NumberedTask, OtherTasks DEF Begin
  <1>1. CASE createSession(s) \/ StartAttempt(s) \/ SubmitAttempt(s) \/ Graded(s)
    BY <1>1 DEF createSession, StartAttempt, SubmitAttempt, Graded, NewTasksCarry
  <1>2. CASE deleteSession(s)
    BY <1>2 DEF deleteSession
  <1>3. CASE replaceParticipants(s)
    BY <1>3 DEF replaceParticipants
  <1>4. CASE endSession(s)
    BY <1>4 DEF endSession
  <1>5. CASE expireSession(s)
    BY <1>5 DEF expireSession
  <1>6. CASE \E patch \in Patches : updateSession(s, patch)
    BY <1>6 DEF updateSession, NewTasksCarry, CarriesPatch, CarriesText
  <1>7. CASE \E force \in BOOLEAN : startSession(s, force)
    <2>1. PICK e : tasks' = tasks \cup
                     {Numbered([op |-> "start", session |-> s, endsAt |-> e], requests')}
      BY <1>7 DEF startSession
    <2> QED BY <2>1
  <1> QED BY <1>1, <1>2, <1>3, <1>4, <1>5, <1>6, <1>7

LEMMA OtherRequestsCarry ==
  ASSUME \/ \E patch \in AssessmentPatches : updateAssessment(patch)
         \/ getAssessment \/ EditCases \/ uploadTestScript \/ deleteTestScript
         \/ saveReferenceSolution \/ validateTestScripts
  PROVE  NewTasksCarry
  <1> USE NumberedTask, OtherTasks DEF Begin
  <1>1. ASSUME NEW patch, updateAssessment(patch) PROVE NewTasksCarry
    <2>1. PICK e : tasks' = tasks \cup
                     {Numbered([op |-> "assessment", patch |-> patch, executionMode |-> e], requests')}
      BY <1>1 DEF updateAssessment
    <2> QED BY <2>1
  <1>2. CASE getAssessment
    BY <1>2 DEF getAssessment
  <1>3. CASE EditCases
    BY <1>3 DEF EditCases
  <1>4. CASE uploadTestScript
    <2>1. PICK text :
            Begin([op |-> "upload", text |-> text, row |-> Fresh,
                   unchanged |-> script.id # 0 /\ text = script.text])
      BY <1>4, Zenon DEF uploadTestScript
    <2>2. PICK u : /\ tasks' = tasks \cup {u} /\ u.op = "upload" /\ u.text = text
                   /\ u.unchanged = (script.id # 0 /\ text = script.text)
      BY <2>1
    <2> QED BY <2>2 DEF NewTasksCarry, CarriesPatch, CarriesText
  <1>5. CASE deleteTestScript
    BY <1>5 DEF deleteTestScript
  <1>6. CASE saveReferenceSolution
    BY <1>6 DEF saveReferenceSolution, NewTasksCarry
  <1>7. CASE validateTestScripts
    BY <1>7 DEF validateTestScripts
  <1> QED BY <1>1, <1>2, <1>3, <1>4, <1>5, <1>6, <1>7

LEMMA StepsCarry ==
  ASSUME NEW t \in tasks, Step(t)
  PROVE  NewTasksCarry
  <1>1. ASSUME End(t) PROVE NewTasksCarry
    BY <1>1 DEF End, NewTasksCarry
  <1>2. ASSUME NEW next, NEW o, "op" \in DOMAIN next, next.op = o, o \notin {"update", "upload"}, Then(t, next)
        PROVE  NewTasksCarry
    <2>1. Numbered(next, t.id).op = o
      BY <1>2, NumberedTask
    <2>2. tasks' \subseteq tasks \cup {Numbered(next, t.id)}
      BY <1>2 DEF Then
    <2> QED BY <1>2, <2>1, <2>2, OtherTasks
  <1>3. ASSUME NEW rest, GoesOn(t, rest) PROVE NewTasksCarry
    BY <1>1, <1>2, <1>3 DEF GoesOn
  <1>4. CASE UpdateWrites(t) \/ DeleteWrites(t) \/ ListWrites(t) \/ StartWrites(t)
               \/ OpenCreates(t) \/ CasesWrite(t) \/ UploadWrites(t) \/ RemoveWrites(t)
               \/ enqueueScriptValidation(t)
    BY <1>1, <1>4 DEF UpdateWrites, DeleteWrites, ListWrites, StartWrites, OpenCreates,
         CasesWrite, UploadWrites, RemoveWrites, enqueueScriptValidation
  <1>5. CASE closeSession(t)
    <2>1. PICK s \in t.rest :
            IF session[s].status = "RUNNING"
            THEN Then(t, [op |-> "close", session |-> s, rest |-> t.rest \ {s}])
            ELSE GoesOn(t, t.rest \ {s})
      BY <1>5 DEF closeSession
    <2> QED BY <1>2, <1>3, <2>1
  <1>6. CASE CloseAttempts(t) \/ closeOpenAccessSessions(t)
    BY <1>3, <1>6 DEF CloseAttempts, closeOpenAccessSessions
  <1>7. CASE AssessmentWrites(t)
    <2>1. CASE End(t)
      BY <1>1, <2>1
    <2>2. CASE Then(t, [op |-> IF t.patch.isOpenAccess THEN "ensure" ELSE "shut"])
      BY <1>2, <2>2
    <2> QED BY <1>7, <2>1, <2>2 DEF AssessmentWrites
  <1>8. CASE ensureOpenAccessSession(t)
    <2>1. CASE End(t)
      BY <1>1, <2>1
    <2>2. CASE Then(t, [op |-> "open", executionMode |-> assessment.executionMode])
      BY <1>2, <2>2
    <2> QED BY <1>8, <2>1, <2>2 DEF ensureOpenAccessSession
  <1> QED BY <1>4, <1>5, <1>6, <1>7, <1>8 DEF Step

LEMMA NextCarry == [Next]_vars => NewTasksCarry
  <1> SUFFICES ASSUME [Next]_vars PROVE NewTasksCarry
    OBVIOUS
  <1>1. CASE \/ \E j \in jobs : recordScriptValidation(j) \/ ResultLost(j)
             \/ Readiness \/ TimePasses \/ UNCHANGED vars
    <2>1. tasks' = tasks
      BY <1>1, Zenon DEF recordScriptValidation, ResultLost, Readiness, TimePasses, vars
    <2> QED BY <2>1 DEF NewTasksCarry
  <1> QED BY <1>1, StepsCarry, RequestsCarry, OtherRequestsCarry DEF Next

LEMMA NextPatches == SessionInv /\ [Next]_vars => PatchesCarried'
  BY NextCarry DEF SessionInv, PatchesCarried, NewTasksCarry, CarriesPatch

\* What a step may make of the sessions.
SessionStep ==
  /\ SessionRows'
  /\ \/ \A s \in Sessions : Changed(s, session[s], session'[s])
     \/ TimePasses

LEMMA StepsChange ==
  ASSUME SessionInv, NEW t \in tasks, Step(t)
  PROVE  SessionStep
  <1> USE DEF SessionInv, SessionStep
  <1>0. ASSUME session' = session PROVE SessionStep
    BY <1>0 DEF SessionRows, Changed
  <1>r. \A s \in Sessions : IsRow(session[s]) /\ DOMAIN session[s] = RowFields
    BY DEF SessionRows, IsRow
  <1>1. CASE UpdateWrites(t)
    <2>1. CASE ~ StillEditable(t)
      BY <1>0, <1>1, <2>1 DEF UpdateWrites
    <2>2. CASE StillEditable(t)
      <3>1. /\ session' = [session EXCEPT ![t.session] = Patched(session[t.session], t.patch)]
            /\ t.patch \in Patches /\ isEditable(session[t.session])
        BY <1>1, <2>2 DEF UpdateWrites, PatchesCarried, CarriesPatch, StillEditable
      <3>2. t.session \in Sessions =>
              /\ IsRow(Patched(session[t.session], t.patch))
              /\ Patched(session[t.session], t.patch).status # "absent"
        BY <1>r, <3>1, PatchedRow
      <3> QED BY <3>1, <3>2, OneRow DEF Changed
    <2> QED BY <2>1, <2>2
  <1>2. CASE DeleteWrites(t)
    BY <1>0, <1>2, OneRow, AbsentIsRow DEF DeleteWrites, Changed
  <1>3. CASE StartWrites(t)
    <2>1. CASE ~ StillEditable(t)
      BY <1>0, <1>3, <2>1 DEF StartWrites
    <2>2. CASE StillEditable(t) /\ t.session \in Sessions
      <3> DEFINE new == [session[t.session] EXCEPT !.status = "RUNNING", !.endsAt = t.endsAt]
      <3>1. session' = [session EXCEPT ![t.session] = new]
        BY <1>3, <2>2 DEF StartWrites, SessionRows
      <3>2. IsRow(new) /\ new.status = "RUNNING"
        BY <1>r, <2>2 DEF IsRow, RowFields
      <3> QED BY <2>2, <3>1, <3>2, OneRow DEF Changed, StillEditable
    <2>3. CASE t.session \notin Sessions
      BY <1>0, <1>3, <2>3 DEF StartWrites, SessionRows
    <2> QED BY <2>1, <2>2, <2>3
  <1>4. CASE closeSession(t)
    <2>1. PICK s \in t.rest : Flips(s)
      BY <1>4 DEF closeSession
    <2>2. CASE session[s].status = "RUNNING" /\ s \in Sessions
      <3> DEFINE new == [session[s] EXCEPT !.status = "ENDED"]
      <3>1. session' = [session EXCEPT ![s] = new]
        BY <2>1, <2>2 DEF Flips, SessionRows
      <3>2. IsRow(new)
        BY <1>r, <2>2 DEF IsRow, RowFields
      <3> QED BY <2>2, <3>1, <3>2, OneRow DEF Changed
    <2>3. CASE session[s].status # "RUNNING" \/ s \notin Sessions
      BY <1>0, <2>1, <2>3 DEF Flips, SessionRows
    <2> QED BY <2>2, <2>3
  <1>5. CASE OpenCreates(t)
    <2>1. PICK s \in Sessions :
            /\ session[s].status = "absent"
            /\ session' = [session EXCEPT ![s] = OpenRow(t.executionMode)]
      BY <1>5 DEF OpenCreates
    <2>2. IsRow(OpenRow(t.executionMode))
      BY DEF IsRow, RowFields, OpenRow, Absent
    <2> QED BY <2>1, <2>2, OneRow DEF Changed
  <1>6. CASE ListWrites(t) \/ CloseAttempts(t) \/ AssessmentWrites(t)
               \/ ensureOpenAccessSession(t) \/ closeOpenAccessSessions(t)
               \/ CasesWrite(t) \/ UploadWrites(t) \/ RemoveWrites(t)
               \/ enqueueScriptValidation(t)
    BY <1>0, <1>6 DEF ListWrites, CloseAttempts, AssessmentWrites, ensureOpenAccessSession,
         closeOpenAccessSessions, CasesWrite, UploadWrites, RemoveWrites,
         enqueueScriptValidation, sessions
  <1> QED BY <1>1, <1>2, <1>3, <1>4, <1>5, <1>6 DEF Step

LEMMA TimePassesRows ==
  ASSUME SessionRows, TimePasses
  PROVE  /\ SessionRows'
         /\ \A s \in Sessions :
              /\ session'[s].status = session[s].status
              /\ Timing(session'[s]) = Timing(session[s])
              /\ SameTime(session[s].closesAt, session'[s].closesAt)
              /\ SameTime(session[s].endsAt, session'[s].endsAt)
  <1>1. \A s \in Sessions : session'[s] = [session[s] EXCEPT !.closesAt = Later(@), !.endsAt = Later(@)]
    BY DEF TimePasses
  <1>2. \A s \in Sessions : session[s] = [f \in RowFields |-> session[s][f]]
    BY DEF SessionRows, IsRow
  <1>3. ASSUME NEW s \in Sessions
        PROVE  /\ IsRow(session'[s])
               /\ session'[s].status = session[s].status
               /\ Timing(session'[s]) = Timing(session[s])
               /\ SameTime(session[s].closesAt, session'[s].closesAt)
               /\ SameTime(session[s].endsAt, session'[s].endsAt)
    <2> DEFINE r == session[s]
               q == session'[s]
    <2>1. /\ r = [f \in RowFields |-> r[f]]
          /\ q = [r EXCEPT !.closesAt = Later(@), !.endsAt = Later(@)]
      BY <1>1, <1>2
    <2> HIDE DEF r, q
    <2>2. /\ q = [f \in RowFields |-> q[f]]
          /\ q.closesAt = Later(r.closesAt) /\ q.endsAt = Later(r.endsAt)
          /\ \A f \in RowFields \ {"closesAt", "endsAt"} : q[f] = r[f]
      BY <2>1 DEF RowFields
    <2>3. Timing(q) = Timing(r)
      BY <2>1, <2>2 DEF Timing, RowFields
    <2>4. IsRow(q) /\ q.status = r.status
          /\ SameTime(r.closesAt, q.closesAt) /\ SameTime(r.endsAt, q.endsAt)
      BY <2>2 DEF IsRow, RowFields, SameTime
    <2> QED BY <2>3, <2>4 DEF r, q
  <1>4. session' = [s \in Sessions |-> session'[s]]
    BY DEF TimePasses
  <1> QED BY <1>3, <1>4 DEF SessionRows

LEMMA NextChanges == SessionInv /\ [Next]_vars => SessionStep
  <1> SUFFICES ASSUME SessionInv, [Next]_vars PROVE SessionStep
    OBVIOUS
  <1> USE DEF sessions
  <1>0. ASSUME session' = session PROVE SessionStep
    BY <1>0 DEF SessionInv, SessionStep, SessionRows, Changed
  <1>1. ASSUME NEW s \in Sessions, createSession(s) PROVE SessionStep
    <2>1. PICK row \in [status : {"DRAFT", "READY"}, isOpenAccess : {FALSE},
                        executionMode : {"none", "INDIVIDUAL", "LIVE"},
                        closesAt : {"none", "future"}, endsAt : {"none"},
                        requireAllReady : BOOLEAN, access : {"LISTED", "MODULE"}] :
            session' = [session EXCEPT ![s] = row]
      BY <1>1 DEF createSession
    <2>2. IsRow(row) /\ session[s].status = "absent"
      BY <1>1 DEF createSession, IsRow, RowFields
    <2> QED BY <2>1, <2>2, OneRow DEF Changed, SessionInv, SessionStep
  <1>2. ASSUME NEW s \in Sessions,
               \/ deleteSession(s) \/ replaceParticipants(s)
               \/ endSession(s) \/ expireSession(s)
               \/ \E patch \in Patches : updateSession(s, patch)
               \/ \E force \in BOOLEAN : startSession(s, force)
               \/ StartAttempt(s) \/ SubmitAttempt(s) \/ Graded(s)
        PROVE  SessionStep
    BY <1>0, <1>2 DEF deleteSession, replaceParticipants, endSession, expireSession,
         updateSession, startSession, StartAttempt, SubmitAttempt, Graded
  <1>3. CASE \/ \E patch \in AssessmentPatches : updateAssessment(patch)
             \/ getAssessment \/ EditCases \/ uploadTestScript \/ deleteTestScript
             \/ saveReferenceSolution \/ validateTestScripts \/ Readiness
    BY <1>0, <1>3 DEF updateAssessment, getAssessment, EditCases, uploadTestScript,
         deleteTestScript, saveReferenceSolution, validateTestScripts, Readiness
  <1>4. ASSUME NEW j \in jobs, recordScriptValidation(j) \/ ResultLost(j) PROVE SessionStep
    BY <1>0, <1>4 DEF recordScriptValidation, ResultLost
  <1>5. CASE TimePasses
    BY <1>5, TimePassesRows DEF SessionInv, SessionStep
  <1>6. CASE UNCHANGED vars
    BY <1>0, <1>6 DEF vars
  <1> QED BY <1>1, <1>2, <1>3, <1>4, <1>5, <1>6, StepsChange DEF Next

\* Sessions are rows, whatever is done to them, and a change carries a patch.
THEOREM SessionInvariant == Spec => []SessionInv
  <1>1. SessionInv /\ [Next]_vars => SessionInv'
    BY NextPatches, NextChanges DEF SessionInv, SessionStep
  <1> QED BY <1>1, InitSession, PTL DEF Spec

\* A session that runs or has run keeps its configuration and its deadline,
\* and comes to no other end than ENDED, whatever was sent before it started.
THEOREM StartedSessionsAreFrozen == Spec => FrozenOnceStarted
  <1> DEFINE Frozen(s) ==
        session[s].status \in {"RUNNING", "ENDED"} /\ session'[s].status # "absent" =>
          /\ session'[s].status \in {session[s].status, "ENDED"}
          /\ Timing(session'[s]) = Timing(session[s])
          /\ SameTime(session[s].closesAt, session'[s].closesAt)
          /\ SameTime(session[s].endsAt, session'[s].endsAt)
  <1>1. ASSUME SessionInv, [Next]_vars, NEW s \in Sessions PROVE Frozen(s)
    <2>1. CASE TimePasses
      BY <1>1, <2>1, TimePassesRows DEF SessionInv
    <2>2. CASE Changed(s, session[s], session'[s])
      <3>1. CASE session[s].status = "RUNNING" /\ session'[s] = [session[s] EXCEPT !.status = "ENDED"]
        <4>1. session[s] = [f \in RowFields |-> session[s][f]]
          BY <1>1 DEF SessionInv, SessionRows, IsRow
        <4>2. Timing(session'[s]) = Timing(session[s]) /\ session'[s].status = "ENDED"
          BY <3>1, <4>1 DEF Timing, RowFields
        <4>3. session'[s].closesAt = session[s].closesAt /\ session'[s].endsAt = session[s].endsAt
          BY <3>1, <4>1 DEF RowFields
        <4> QED BY <4>2, <4>3 DEF SameTime
      <3>2. CASE session'[s] = session[s]
        BY <3>2 DEF SameTime
      <3>3. CASE session[s].status \notin {"RUNNING", "ENDED"} \/ session'[s].status = "absent"
        BY <3>3
      <3> QED BY <2>2, <3>1, <3>2, <3>3, AbsentIsRow
           DEF Changed, isEditable, EDITABLE_STATUSES
    <2> QED BY <1>1, <2>1, <2>2, NextChanges DEF SessionStep
  <1>2. SessionInv /\ [Next]_vars => [\A s \in Sessions : Frozen(s)]_vars
    BY <1>1
  <1> QED BY <1>2, SessionInvariant, PTL DEF Spec, FrozenOnceStarted

\* No session is deleted while it runs, is answered or is being graded, however
\* old the request to delete it is.
THEOREM OnlySessionsAtRestAreDeleted == Spec => DeletedOnlyAtRest
  <1> DEFINE AtRest(s) ==
        session[s].status # "absent" /\ session'[s].status = "absent" =>
          session[s].status # "RUNNING" /\ work[s] = {}
  <1>1. ASSUME SessionInv, [Next]_vars, NEW s \in Sessions PROVE AtRest(s)
    <2>1. CASE TimePasses
      BY <1>1, <2>1, TimePassesRows DEF SessionInv
    <2>2. CASE Changed(s, session[s], session'[s])
      <3>1. session[s] = [f \in RowFields |-> session[s][f]]
        BY <1>1 DEF SessionInv, SessionRows, IsRow
      <3> QED BY <2>2, <3>1 DEF Changed, Deletable, RowFields
    <2> QED BY <1>1, <2>1, <2>2, NextChanges DEF SessionStep
  <1>2. SessionInv /\ [Next]_vars => [\A s \in Sessions : AtRest(s)]_vars
    BY <1>1
  <1> QED BY <1>2, SessionInvariant, PTL DEF Spec, DeletedOnlyAtRest

------------------------------------------------------------------------------
(* Types.  What a request carries from its reads to its writes is of the    *)
(* right kind, and no more requests are under way than there may be.        *)

TaskOK(t) ==
  /\ t.op = "update" => t.patch \in Patches
  /\ t.op = "list" => t.session \in Sessions
  /\ t.op = "start" => t.endsAt \in Times
  /\ t.op = "assessment" => t.patch \in AssessmentPatches /\ t.executionMode \in Modes
  /\ t.op = "open" => t.executionMode \in Modes
  /\ t.op = "cases" => t.some \in BOOLEAN
  /\ t.op = "upload" => t.text \in Nat /\ t.row \in Nat
  /\ t.op = "validate" => t.job \in Nat /\ t.runs \in Nat \X Nat

AssessmentOK ==
  assessment \in [isPublished : BOOLEAN, isOpenAccess : BOOLEAN,
                  executionMode : Modes, cases : BOOLEAN]
Script == [id : Nat, text : Nat,
           status : {"UNVALIDATED", "VALIDATING", "PASSED", "FAILED"},
           job : Nat, marked : Nat \X Nat, judged : Nat \X Nat]
ScriptOK ==
  /\ script \in Script
  /\ solution \in Nat
  /\ jobs \subseteq [job : Nat, runs : Nat \X Nat]
SessionsOK ==
  /\ session \in [Sessions -> Row]
  /\ \A s \in Sessions : session[s].isOpenAccess => session[s].status \in {"RUNNING", "ENDED"}
PeopleOK ==
  listed \subseteq Sessions /\ work \in [Sessions -> SUBSET {"open", "grading"}]
  /\ ready \in BOOLEAN
TasksOK ==
  /\ IsFiniteSet(tasks) /\ Cardinality(tasks) <= MaxTasks
  /\ \A t \in tasks : TaskOK(t)

TypeInv ==
  /\ AssessmentOK /\ ScriptOK /\ SessionsOK /\ PeopleOK /\ TasksOK
  /\ requests \in 0 .. MaxRequests

LEMMA BeginTyped ==
  ASSUME TasksOK, NEW u, Begin(u), TaskOK(Numbered(u, requests'))
  PROVE  TasksOK'
  <1> DEFINE n == Numbered(u, requests')
  <1>1. tasks' = tasks \cup {n} /\ Cardinality(tasks) < MaxTasks
    BY DEF Begin
  <1>2. /\ IsFiniteSet(tasks \cup {n})
        /\ Cardinality(tasks \cup {n}) = IF n \in tasks THEN Cardinality(tasks)
                                         ELSE Cardinality(tasks) + 1
        /\ Cardinality(tasks) \in Nat
    BY FS_AddElement, FS_CardinalityType DEF TasksOK
  <1>3. Cardinality(tasks \cup {n}) <= MaxTasks
    BY <1>1, <1>2, AssessmentAssumption
  <1> QED BY <1>1, <1>2, <1>3 DEF TasksOK

LEMMA EndTyped ==
  ASSUME TasksOK, NEW t \in tasks, End(t)
  PROVE  TasksOK'
  <1>1. /\ IsFiniteSet(tasks \ {t}) /\ Cardinality(tasks \ {t}) = Cardinality(tasks) - 1
        /\ Cardinality(tasks) \in Nat
    BY FS_RemoveElement, FS_CardinalityType DEF TasksOK
  <1>2. Cardinality(tasks \ {t}) <= MaxTasks
    BY <1>1, AssessmentAssumption DEF TasksOK
  <1> QED BY <1>1, <1>2 DEF End, TasksOK

LEMMA ThenTyped ==
  ASSUME TasksOK, NEW t \in tasks, NEW u, Then(t, u), TaskOK(Numbered(u, t.id))
  PROVE  TasksOK'
  <1> DEFINE n == Numbered(u, t.id)
             rest == tasks \ {t}
  <1>1. /\ IsFiniteSet(rest) /\ Cardinality(rest) = Cardinality(tasks) - 1
        /\ Cardinality(tasks) \in Nat /\ Cardinality(rest) \in Nat
    BY FS_RemoveElement, FS_CardinalityType DEF TasksOK
  <1>2. /\ IsFiniteSet(rest \cup {n})
        /\ Cardinality(rest \cup {n}) = IF n \in rest THEN Cardinality(rest)
                                        ELSE Cardinality(rest) + 1
    BY <1>1, FS_AddElement
  <1>3. Cardinality(rest \cup {n}) <= MaxTasks
    BY <1>1, <1>2, AssessmentAssumption DEF TasksOK
  <1> QED BY <1>2, <1>3 DEF Then, TasksOK

LEMMA GoesOnTyped ==
  ASSUME TasksOK, NEW t \in tasks, NEW rest, GoesOn(t, rest)
  PROVE  TasksOK'
  <1>1. TaskOK(Numbered([op |-> "end", rest |-> rest], t.id))
    BY DEF Numbered, TaskOK
  <1> QED BY <1>1, EndTyped, ThenTyped DEF GoesOn

LEMMA AssessmentPatched ==
  ASSUME AssessmentOK, NEW patch \in AssessmentPatches
  PROVE  /\ Patched(assessment, patch) \in
              [isPublished : BOOLEAN, isOpenAccess : BOOLEAN, executionMode : Modes,
               cases : BOOLEAN]
         /\ "isOpenAccess" \in DOMAIN patch => patch.isOpenAccess \in BOOLEAN
  <1>1. CASE patch \in [isOpenAccess : BOOLEAN]
    BY <1>1 DEF Patched, AssessmentOK
  <1>2. CASE patch \in [isPublished : BOOLEAN]
    BY <1>2 DEF Patched, AssessmentOK
  <1>3. CASE patch \in [executionMode : {"INDIVIDUAL", "LIVE"}]
    BY <1>3 DEF Patched, AssessmentOK, Modes
  <1> QED BY <1>1, <1>2, <1>3 DEF AssessmentPatches

LEMMA PatchedTyped ==
  ASSUME NEW row \in Row, NEW patch \in Patches
  PROVE  Patched(row, patch) \in Row /\ Patched(row, patch).isOpenAccess = row.isOpenAccess
  <1> DEFINE new == [f \in RowFields |-> IF f \in DOMAIN patch THEN patch[f] ELSE row[f]]
  <1>1. Patched(row, patch) = new
    BY DEF Patched, Row, RowFields
  <1>2. \A f \in DOMAIN patch :
          f \in DOMAIN UpdateSessionRequest /\ patch[f] \in UpdateSessionRequest[f]
    BY AssessmentAssumption
  <1>3. /\ new.status \in {"absent", "DRAFT", "READY", "RUNNING", "ENDED", "CANCELLED"}
        /\ new.executionMode \in Modes /\ new.access \in {"LISTED", "MODULE"}
        /\ new.closesAt \in Times /\ new.requireAllReady \in BOOLEAN
    BY <1>2 DEF RowFields, Row, UpdateSessionRequest, EDITABLE_SESSION_STATUSES, Modes, Times
  <1>4. new.isOpenAccess = row.isOpenAccess /\ new.endsAt = row.endsAt
    BY <1>2 DEF RowFields, UpdateSessionRequest
  <1>5. new = [f \in RowFields |-> new[f]]
    OBVIOUS
  <1> HIDE DEF new
  <1>6. new \in Row
    BY <1>3, <1>4, <1>5 DEF RowFields, Row
  <1> QED BY <1>1, <1>4, <1>6

LEMMA RequestTyped ==
  ASSUME requests \in 0 .. MaxRequests, Request
  PROVE  requests' \in 0 .. MaxRequests /\ Fresh \in Nat
  BY AssessmentAssumption DEF Request, Fresh

\* A step that changes nothing but the tasks and the count of requests.
LEMMA OnlyTasks ==
  ASSUME TypeInv, UNCHANGED <<sessions, authored>>, requests' \in 0 .. MaxRequests, TasksOK'
  PROVE  TypeInv'
  BY DEF TypeInv, AssessmentOK, ScriptOK, SessionsOK, PeopleOK, sessions, authored

LEMMA SessionRequestsTyped ==
  ASSUME TypeInv, NEW s \in Sessions,
         \/ deleteSession(s) \/ replaceParticipants(s)
         \/ endSession(s) \/ expireSession(s)
         \/ \E patch \in Patches : updateSession(s, patch)
         \/ \E force \in BOOLEAN : startSession(s, force)
  PROVE  TypeInv'
  <1>0. TasksOK /\ requests \in 0 .. MaxRequests
    BY DEF TypeInv
  <1>1. CASE deleteSession(s)
    <2>1. TaskOK(Numbered([op |-> "delete", session |-> s], requests'))
      BY DEF Numbered, TaskOK
    <2> QED BY <1>0, <1>1, <2>1, BeginTyped, RequestTyped, OnlyTasks DEF deleteSession
  <1>2. CASE replaceParticipants(s)
    <2>1. PICK some \in BOOLEAN : Begin([op |-> "list", session |-> s, some |-> some])
      BY <1>2 DEF replaceParticipants
    <2>2. TaskOK(Numbered([op |-> "list", session |-> s, some |-> some], requests'))
      BY DEF Numbered, TaskOK
    <2> QED BY <1>0, <1>2, <2>1, <2>2, BeginTyped, RequestTyped, OnlyTasks
         DEF replaceParticipants
  <1>3. CASE endSession(s) \/ expireSession(s)
    <2>1. TaskOK(Numbered([op |-> "end", rest |-> {s}], requests'))
      BY DEF Numbered, TaskOK
    <2> QED BY <1>0, <1>3, <2>1, BeginTyped, RequestTyped, OnlyTasks
         DEF endSession, expireSession
  <1>4. CASE \E patch \in Patches : updateSession(s, patch)
    <2>1. PICK patch \in Patches : updateSession(s, patch)
      BY <1>4
    <2>2. TaskOK(Numbered([op |-> "update", session |-> s, patch |-> patch], requests'))
      BY DEF Numbered, TaskOK
    <2> QED BY <1>0, <2>1, <2>2, BeginTyped, RequestTyped, OnlyTasks DEF updateSession
  <1>5. CASE \E force \in BOOLEAN : startSession(s, force)
    <2>1. PICK e \in Times : Begin([op |-> "start", session |-> s, endsAt |-> e])
      BY <1>5 DEF startSession, TypeInv, SessionsOK, Row, Times
    <2>2. TaskOK(Numbered([op |-> "start", session |-> s, endsAt |-> e], requests'))
      BY DEF Numbered, TaskOK
    <2> QED BY <1>0, <1>5, <2>1, <2>2, BeginTyped, RequestTyped, OnlyTasks DEF startSession
  <1> QED BY <1>1, <1>2, <1>3, <1>4, <1>5

LEMMA OtherRequestsTyped ==
  ASSUME TypeInv,
         \/ \E patch \in AssessmentPatches : updateAssessment(patch)
         \/ getAssessment \/ EditCases \/ uploadTestScript \/ deleteTestScript
         \/ validateTestScripts
  PROVE  TypeInv'
  <1>0. TasksOK /\ requests \in 0 .. MaxRequests
    BY DEF TypeInv
  <1>1. CASE \E patch \in AssessmentPatches : updateAssessment(patch)
    <2>1. PICK patch \in AssessmentPatches : updateAssessment(patch)
      BY <1>1
    <2>2. PICK m : m = Patched(assessment, patch).executionMode
      OBVIOUS
    <2>3. m \in Modes
      BY <2>2, AssessmentPatched DEF TypeInv
    <2>4. Begin([op |-> "assessment", patch |-> patch, executionMode |-> m])
      BY <2>1, <2>2 DEF updateAssessment
    <2>5. TaskOK(Numbered([op |-> "assessment", patch |-> patch, executionMode |-> m],
                          requests'))
      BY <2>3 DEF Numbered, TaskOK
    <2> QED BY <1>0, <2>1, <2>4, <2>5, BeginTyped, RequestTyped, OnlyTasks
         DEF updateAssessment
  <1>2. CASE getAssessment
    <2>1. TaskOK(Numbered([op |-> "ensure"], requests'))
      BY DEF Numbered, TaskOK
    <2> QED BY <1>0, <1>2, <2>1, BeginTyped, RequestTyped, OnlyTasks DEF getAssessment
  <1>3. CASE EditCases
    <2>1. PICK some \in BOOLEAN : Begin([op |-> "cases", some |-> some])
      BY <1>3 DEF EditCases
    <2>2. TaskOK(Numbered([op |-> "cases", some |-> some], requests'))
      BY DEF Numbered, TaskOK
    <2> QED BY <1>0, <1>3, <2>1, <2>2, BeginTyped, RequestTyped, OnlyTasks DEF EditCases
  <1>4. CASE uploadTestScript
    <2>1. Fresh \in Nat /\ script.text \in Nat
      BY <1>0, <1>4, RequestTyped DEF uploadTestScript, TypeInv, ScriptOK, Script
    <2>2. PICK text \in Nat, unchanged \in BOOLEAN :
            Begin([op |-> "upload", text |-> text, row |-> Fresh, unchanged |-> unchanged])
      BY <1>4, <2>1 DEF uploadTestScript
    <2>3. TaskOK(Numbered([op |-> "upload", text |-> text, row |-> Fresh,
                           unchanged |-> unchanged], requests'))
      BY <2>1 DEF Numbered, TaskOK
    <2> QED BY <1>0, <1>4, <2>2, <2>3, BeginTyped, RequestTyped, OnlyTasks
         DEF uploadTestScript
  <1>5. CASE deleteTestScript
    <2>1. TaskOK(Numbered([op |-> "remove", script |-> script.id], requests'))
      BY DEF Numbered, TaskOK
    <2> QED BY <1>0, <1>5, <2>1, BeginTyped, RequestTyped, OnlyTasks DEF deleteTestScript
  <1>6. CASE validateTestScripts
    <2>1. Fresh \in Nat /\ <<script.text, solution>> \in Nat \X Nat
      BY <1>0, <1>6, RequestTyped DEF validateTestScripts, TypeInv, ScriptOK, Script
    <2>2. TaskOK(Numbered([op |-> "validate", job |-> Fresh, script |-> script.id,
                           runs |-> <<script.text, solution>>], requests'))
      BY <2>1 DEF Numbered, TaskOK
    <2> QED BY <1>0, <1>6, <2>2, BeginTyped, RequestTyped, OnlyTasks
         DEF validateTestScripts
  <1> QED BY <1>1, <1>2, <1>3, <1>4, <1>5, <1>6

LEMMA CodersTyped ==
  ASSUME TypeInv, NEW s \in Sessions,
         createSession(s) \/ StartAttempt(s) \/ SubmitAttempt(s) \/ Graded(s)
  PROVE  TypeInv'
  <1> USE DEF TypeInv, AssessmentOK, ScriptOK, PeopleOK, TasksOK, authored
  <1>1. CASE createSession(s)
    <2>1. PICK row \in [status : {"DRAFT", "READY"}, isOpenAccess : {FALSE},
                        executionMode : {"none", "INDIVIDUAL", "LIVE"},
                        closesAt : {"none", "future"}, endsAt : {"none"},
                        requireAllReady : BOOLEAN, access : {"LISTED", "MODULE"}] :
            session' = [session EXCEPT ![s] = row]
      BY <1>1 DEF createSession
    <2>2. row \in Row /\ ~ row.isOpenAccess
      BY DEF Row, Times, Modes
    <2>3. SessionsOK'
      BY <2>1, <2>2 DEF SessionsOK
    <2> QED BY <1>1, <2>3, RequestTyped DEF createSession
  <1>2. CASE StartAttempt(s) \/ SubmitAttempt(s) \/ Graded(s)
    BY <1>2 DEF StartAttempt, SubmitAttempt, Graded, SessionsOK
  <1> QED BY <1>1, <1>2

LEMMA ResetTyped ==
  ASSUME NEW old \in Script
  PROVE  [old EXCEPT !.status = "UNVALIDATED", !.job = 0] \in Script
  <1> DEFINE Pairs == Nat \X Nat
  <1>1. Script = [id : Nat, text : Nat,
           status : {"UNVALIDATED", "VALIDATING", "PASSED", "FAILED"},
           job : Nat, marked : Pairs, judged : Pairs]
    BY DEF Script
  <1> HIDE DEF Pairs
  <1> QED BY <1>1

LEMMA TextTyped ==
  ASSUME NEW old \in Script, NEW text \in Nat, NEW id \in Nat
  PROVE  [old EXCEPT !.text = text, !.id = IF old.id = 0 THEN id ELSE old.id] \in Script
  <1> DEFINE Pairs == Nat \X Nat
  <1>1. Script = [id : Nat, text : Nat,
           status : {"UNVALIDATED", "VALIDATING", "PASSED", "FAILED"},
           job : Nat, marked : Pairs, judged : Pairs]
    BY DEF Script
  <1> HIDE DEF Pairs
  <1> QED BY <1>1

LEMMA JudgedTyped ==
  ASSUME NEW old \in Script, NEW status \in {"PASSED", "FAILED"}, NEW runs \in Nat \X Nat
  PROVE  [old EXCEPT !.status = status, !.judged = runs] \in Script
  <1> DEFINE Pairs == Nat \X Nat
  <1>1. runs \in Pairs /\ Script = [id : Nat, text : Nat,
           status : {"UNVALIDATED", "VALIDATING", "PASSED", "FAILED"},
           job : Nat, marked : Pairs, judged : Pairs]
    BY DEF Script
  <1> HIDE DEF Pairs
  <1> QED BY <1>1

LEMMA MarkedTyped ==
  ASSUME NEW old \in Script, NEW job \in Nat, NEW runs \in Nat \X Nat
  PROVE  [old EXCEPT !.status = "VALIDATING", !.job = job, !.marked = runs] \in Script
  <1> DEFINE Pairs == Nat \X Nat
  <1>1. runs \in Pairs /\ Script = [id : Nat, text : Nat,
           status : {"UNVALIDATED", "VALIDATING", "PASSED", "FAILED"},
           job : Nat, marked : Pairs, judged : Pairs]
    BY DEF Script
  <1> HIDE DEF Pairs
  <1> QED BY <1>1

LEMMA ScriptsTyped ==
  ASSUME TypeInv,
         \/ saveReferenceSolution
         \/ \E j \in jobs : recordScriptValidation(j) \/ ResultLost(j)
  PROVE  TypeInv'
  <1> USE DEF TypeInv, AssessmentOK, SessionsOK, PeopleOK, TasksOK, sessions
  <1>1. CASE saveReferenceSolution
    <2>1. solution' \in Nat
      BY <1>1, RequestTyped DEF saveReferenceSolution
    <2>2. script' = [script EXCEPT !.status = "UNVALIDATED", !.job = 0]
      BY <1>1 DEF saveReferenceSolution, resetValidation
    <2>3. script' \in Script
      BY <2>2, ResetTyped DEF ScriptOK
    <2>4. ScriptOK'
      BY <1>1, <2>1, <2>3 DEF saveReferenceSolution, ScriptOK
    <2> QED BY <1>1, <2>4, RequestTyped DEF saveReferenceSolution
  <1>2. ASSUME NEW j \in jobs, recordScriptValidation(j) PROVE TypeInv'
    <2>1. j.runs \in Nat \X Nat
      BY DEF ScriptOK
    <2>2. PICK outcome \in {"PASSED", "FAILED"} :
            script' \in {script, [script EXCEPT !.status = outcome, !.judged = j.runs]}
      BY <1>2 DEF recordScriptValidation
    <2>3. [script EXCEPT !.status = outcome, !.judged = j.runs] \in Script
      BY <2>1, JudgedTyped DEF ScriptOK
    <2>4. script' \in Script
      BY <2>2, <2>3 DEF ScriptOK
    <2> QED BY <1>2, <2>4 DEF recordScriptValidation, ScriptOK
  <1>3. ASSUME NEW j \in jobs, ResultLost(j) PROVE TypeInv'
    BY <1>3 DEF ResultLost, ScriptOK
  <1> QED BY <1>1, <1>2, <1>3

\* What a statement makes of one session row, typed like the rows before.
LEMMA RowTyped ==
  ASSUME SessionsOK, NEW x, NEW new, session' = [session EXCEPT ![x] = new],
         x \in Sessions => /\ new \in Row
                           /\ new.isOpenAccess => new.status \in {"RUNNING", "ENDED"}
  PROVE  SessionsOK'
  BY DEF SessionsOK

LEMMA StartedTyped ==
  ASSUME NEW old \in Row, NEW e \in Times
  PROVE  LET new == [old EXCEPT !.status = "RUNNING", !.endsAt = e]
         IN  new \in Row /\ new.status = "RUNNING"
  BY DEF Row

LEMMA SessionStepsTyped ==
  ASSUME TypeInv, NEW t \in tasks,
         \/ UpdateWrites(t) \/ DeleteWrites(t) \/ ListWrites(t) \/ StartWrites(t)
         \/ closeSession(t) \/ CloseAttempts(t) \/ OpenCreates(t)
  PROVE  TypeInv'
  <1> USE DEF TypeInv, AssessmentOK, ScriptOK, PeopleOK, authored
  <1>0. TaskOK(t)
    BY DEF TasksOK
  <1>1. CASE UpdateWrites(t)
    <2>1. TasksOK'
      BY <1>1, EndTyped DEF UpdateWrites
    <2>2. CASE StillEditable(t)
      <3> DEFINE old == session[t.session]
      <3>1. session' = [session EXCEPT ![t.session] = Patched(old, t.patch)]
        BY <1>1, <2>2 DEF UpdateWrites
      <3>2. t.patch \in Patches
        BY <1>0, <1>1 DEF UpdateWrites, TaskOK
      <3>3. t.session \in Sessions => old \in Row /\ ~ old.isOpenAccess
        BY <2>2 DEF StillEditable, isEditable, EDITABLE_STATUSES, SessionsOK, Row
      <3>4. t.session \in Sessions => /\ Patched(old, t.patch) \in Row
                                      /\ ~ Patched(old, t.patch).isOpenAccess
        BY <3>2, <3>3, PatchedTyped
      <3>5. SessionsOK'
        BY <3>1, <3>4, RowTyped
      <3> QED BY <1>1, <2>1, <3>5 DEF UpdateWrites
    <2>3. CASE ~ StillEditable(t)
      BY <1>1, <2>1, <2>3 DEF UpdateWrites, SessionsOK
    <2> QED BY <2>2, <2>3
  <1>2. CASE DeleteWrites(t)
    <2>1. TasksOK'
      BY <1>2, EndTyped DEF DeleteWrites
    <2>2. Absent \in Row /\ ~ Absent.isOpenAccess
      BY DEF Absent, Row, Modes, Times
    <2>3. SessionsOK'
      BY <1>2, <2>2, RowTyped DEF DeleteWrites, SessionsOK
    <2> QED BY <1>2, <2>1, <2>3 DEF DeleteWrites
  <1>3. CASE ListWrites(t)
    <2>1. TasksOK' /\ t.session \in Sessions
      BY <1>0, <1>3, EndTyped DEF ListWrites, TaskOK
    <2> QED BY <1>3, <2>1 DEF ListWrites, SessionsOK
  <1>4. CASE StartWrites(t)
    <2>1. TasksOK' /\ t.endsAt \in Times
      BY <1>0, <1>4, EndTyped DEF StartWrites, TaskOK
    <2>2. CASE StillEditable(t) /\ t.session \in Sessions
      <3> DEFINE new == [session[t.session] EXCEPT !.status = "RUNNING", !.endsAt = t.endsAt]
      <3>1. session' = [session EXCEPT ![t.session] = new]
        BY <1>4, <2>2 DEF StartWrites, SessionsOK
      <3>2. new \in Row /\ new.status = "RUNNING"
        BY <2>1, <2>2, StartedTyped DEF SessionsOK
      <3>3. SessionsOK'
        BY <3>1, <3>2, RowTyped
      <3> QED BY <1>4, <2>1, <3>3 DEF StartWrites
    <2>3. CASE ~ (StillEditable(t) /\ t.session \in Sessions)
      <3>1. session' = session
        BY <1>4, <2>3 DEF StartWrites, SessionsOK
      <3> QED BY <1>4, <2>1, <3>1 DEF StartWrites, SessionsOK
    <2> QED BY <2>2, <2>3
  <1>5. CASE closeSession(t)
    <2>1. PICK s \in t.rest :
            /\ Flips(s)
            /\ IF session[s].status = "RUNNING"
               THEN Then(t, [op |-> "close", session |-> s, rest |-> t.rest \ {s}])
               ELSE GoesOn(t, t.rest \ {s})
      BY <1>5 DEF closeSession
    <2>2. TaskOK(Numbered([op |-> "close", session |-> s, rest |-> t.rest \ {s}], t.id))
      BY DEF Numbered, TaskOK
    <2>3. TasksOK'
      BY <2>1, <2>2, ThenTyped, GoesOnTyped
    <2>4. CASE session[s].status = "RUNNING" /\ s \in Sessions
      <3> DEFINE new == [session[s] EXCEPT !.status = "ENDED"]
      <3>1. session' = [session EXCEPT ![s] = new]
        BY <2>1, <2>4 DEF Flips, SessionsOK
      <3>2. new \in Row /\ new.status = "ENDED"
        BY <2>4 DEF SessionsOK, Row
      <3>3. SessionsOK'
        BY <3>1, <3>2, RowTyped
      <3> QED BY <1>5, <2>3, <3>3 DEF closeSession
    <2>5. CASE ~ (session[s].status = "RUNNING" /\ s \in Sessions)
      <3>1. session' = session
        BY <2>1, <2>5 DEF Flips, SessionsOK
      <3> QED BY <1>5, <2>3, <3>1 DEF closeSession, SessionsOK
    <2> QED BY <2>4, <2>5
  <1>6. CASE CloseAttempts(t)
    <2>1. TasksOK'
      BY <1>6, GoesOnTyped DEF CloseAttempts
    <2> QED BY <1>6, <2>1 DEF CloseAttempts, SessionsOK
  <1>7. CASE OpenCreates(t)
    <2>1. TasksOK' /\ t.executionMode \in Modes
      BY <1>0, <1>7, EndTyped DEF OpenCreates, TaskOK
    <2>2. OpenRow(t.executionMode) \in Row /\ OpenRow(t.executionMode).status = "RUNNING"
      BY <2>1 DEF OpenRow, Absent, Row, Times
    <2>3. SessionsOK'
      BY <1>7, <2>2, RowTyped DEF OpenCreates
    <2> QED BY <1>7, <2>1, <2>3 DEF OpenCreates
  <1> QED BY <1>1, <1>2, <1>3, <1>4, <1>5, <1>6, <1>7

LEMMA AssessmentStepsTyped ==
  ASSUME TypeInv, NEW t \in tasks,
         \/ AssessmentWrites(t) \/ ensureOpenAccessSession(t) \/ closeOpenAccessSessions(t)
         \/ CasesWrite(t) \/ UploadWrites(t) \/ RemoveWrites(t)
         \/ enqueueScriptValidation(t)
  PROVE  TypeInv'
  <1> USE DEF TypeInv, SessionsOK, PeopleOK, sessions
  <1>0. TaskOK(t)
    BY DEF TasksOK
  <1>1. CASE AssessmentWrites(t)
    <2>1. t.patch \in AssessmentPatches /\ t.executionMode \in Modes
      BY <1>0, <1>1 DEF AssessmentWrites, TaskOK
    <2>2. AssessmentOK'
      BY <1>1, <2>1, AssessmentPatched DEF AssessmentWrites, AssessmentOK
    <2>3. \A o \in {"ensure", "shut"} : TaskOK(Numbered([op |-> o], t.id))
      BY DEF Numbered, TaskOK
    <2>4. TasksOK'
      BY <1>1, <2>3, EndTyped, ThenTyped DEF AssessmentWrites
    <2> QED BY <1>1, <2>2, <2>4 DEF AssessmentWrites, ScriptOK
  <1>2. CASE ensureOpenAccessSession(t)
    <2>1. PICK m \in Modes : m = assessment.executionMode
      BY DEF AssessmentOK
    <2>2. TaskOK(Numbered([op |-> "open", executionMode |-> m], t.id))
      BY DEF Numbered, TaskOK
    <2>3. TasksOK'
      BY <1>2, <2>1, <2>2, EndTyped, ThenTyped DEF ensureOpenAccessSession
    <2> QED BY <1>2, <2>3, OnlyTasks DEF ensureOpenAccessSession
  <1>3. CASE closeOpenAccessSessions(t)
    <2>1. TasksOK'
      BY <1>3, GoesOnTyped DEF closeOpenAccessSessions
    <2> QED BY <1>3, <2>1, OnlyTasks DEF closeOpenAccessSessions
  <1>4. CASE CasesWrite(t)
    <2>1. TasksOK' /\ t.some \in BOOLEAN
      BY <1>0, <1>4, EndTyped DEF CasesWrite, TaskOK
    <2> QED BY <1>4, <2>1 DEF CasesWrite, AssessmentOK, ScriptOK
  <1>5. CASE UploadWrites(t)
    <2>1. TasksOK' /\ t.text \in Nat /\ t.row \in Nat
      BY <1>0, <1>5, EndTyped DEF UploadWrites, TaskOK
    <2>2. PICK row \in {script, resetValidation(script)} :
            script' = [row EXCEPT !.text = t.text, !.id = IF row.id = 0 THEN t.row ELSE row.id]
      BY <1>5 DEF UploadWrites
    <2>3. row \in Script
      BY <2>2, ResetTyped DEF resetValidation, ScriptOK
    <2>4. script' \in Script
      BY <2>1, <2>2, <2>3, TextTyped
    <2>5. ScriptOK'
      BY <1>5, <2>4 DEF UploadWrites, ScriptOK
    <2> QED BY <1>5, <2>1, <2>5 DEF UploadWrites, AssessmentOK
  <1>6. CASE RemoveWrites(t)
    <2>1. TasksOK'
      BY <1>6, EndTyped DEF RemoveWrites
    <2>2. ScriptOK'
      BY <1>6 DEF RemoveWrites, ScriptOK, Script, NoScript
    <2> QED BY <1>6, <2>1, <2>2 DEF RemoveWrites, AssessmentOK
  <1>7. CASE enqueueScriptValidation(t)
    <2>1. TasksOK' /\ t.job \in Nat /\ t.runs \in Nat \X Nat
      BY <1>0, <1>7, EndTyped DEF enqueueScriptValidation, TaskOK
    <2>2. <<script.text, solution>> \in Nat \X Nat
      BY DEF ScriptOK, Script
    <2>3. script' \in {script, [script EXCEPT !.status = "VALIDATING", !.job = t.job,
                                              !.marked = <<script.text, solution>>]}
      BY <1>7 DEF enqueueScriptValidation
    <2>r. [script EXCEPT !.status = "VALIDATING", !.job = t.job,
                         !.marked = <<script.text, solution>>] \in Script
      BY <2>1, <2>2, MarkedTyped DEF ScriptOK
    <2>4. script' \in Script
      BY <2>3, <2>r DEF ScriptOK
    <2>5. ScriptOK'
      BY <1>7, <2>1, <2>4 DEF enqueueScriptValidation, ScriptOK
    <2> QED BY <1>7, <2>1, <2>5 DEF enqueueScriptValidation, AssessmentOK
  <1> QED BY <1>1, <1>2, <1>3, <1>4, <1>5, <1>6, <1>7

LEMMA NextTypeInv == TypeInv /\ [Next]_vars => TypeInv'
  <1> SUFFICES ASSUME TypeInv, [Next]_vars PROVE TypeInv'
    OBVIOUS
  <1>1. CASE UNCHANGED vars
    BY <1>1, OnlyTasks DEF vars, sessions, authored, TypeInv, TasksOK
  <1>2. CASE Readiness
    BY <1>2 DEF Readiness, TypeInv, AssessmentOK, ScriptOK, SessionsOK, PeopleOK, TasksOK,
                authored
  <1>3. CASE TimePasses
    <2>1. \A time \in Times : Later(time) \in Times
      BY DEF Times, Later
    <2>2. ASSUME NEW s \in Sessions
          PROVE  LET new == [session[s] EXCEPT !.closesAt = Later(@), !.endsAt = Later(@)]
                 IN  /\ new \in Row /\ new.status = session[s].status
                     /\ new.isOpenAccess = session[s].isOpenAccess
      BY <2>1 DEF TypeInv, SessionsOK, Row
    <2>3. session' = [s \in Sessions |->
                       [session[s] EXCEPT !.closesAt = Later(@), !.endsAt = Later(@)]]
      BY <1>3 DEF TimePasses
    <2>4. \A s \in Sessions :
            session[s].isOpenAccess => session[s].status \in {"RUNNING", "ENDED"}
      BY DEF TypeInv, SessionsOK
    <2>5. SessionsOK'
      BY <2>2, <2>3, <2>4 DEF SessionsOK
    <2> QED BY <1>3, <2>5 DEF TimePasses, TypeInv, AssessmentOK, ScriptOK, PeopleOK, TasksOK,
                              authored
  <1> QED BY <1>1, <1>2, <1>3, SessionRequestsTyped, OtherRequestsTyped, CodersTyped,
             ScriptsTyped, SessionStepsTyped, AssessmentStepsTyped DEF Next, Step

LEMMA InitTypeInv == Init => TypeInv
  <1> SUFFICES ASSUME Init PROVE TypeInv
    OBVIOUS
  <1>1. TasksOK /\ requests \in 0 .. MaxRequests
    BY FS_EmptySet, AssessmentAssumption DEF Init, TasksOK
  <1>2. NoScript \in Script /\ [NoScript EXCEPT !.id = 1, !.text = 1] \in Script
    BY DEF NoScript, Script
  <1>3. ScriptOK
    BY <1>2 DEF Init, ScriptOK
  <1>4. SessionsOK
    BY DEF Init, SessionsOK, Absent, Row, Modes, Times
  <1> QED BY <1>1, <1>3, <1>4 DEF Init, TypeInv, AssessmentOK, PeopleOK, Modes

\* Type correctness, with any number of requests under way and whatever each
\* read before the others wrote: what an update, a start or a validation kept
\* from its reads still fits the rows it is written to, an open-access session
\* is running or over, and no more requests are under way than there may be
\* (updateSession, startSession, ensureOpenAccessSession).
THEOREM AssessmentsTypeCorrect == Spec => []TypeOK
  <1>1. TypeInv => TypeOK
    BY DEF TypeInv, TypeOK, AssessmentOK, ScriptOK, Script, SessionsOK, PeopleOK, TasksOK
  <1> QED BY <1>1, InitTypeInv, NextTypeInv, PTL DEF Spec

------------------------------------------------------------------------------
(* The test script.                                                         *)

ScriptFields == {"id", "text", "status", "job", "marked", "judged"}
ScriptIsRow == script = [f \in ScriptFields |-> script[f]]

LEMMA InitScript == Init => ScriptIsRow
  BY DEF Init, ScriptIsRow, ScriptFields, NoScript

\* An edit of the script or of the solution takes the script out of validation.
LEMMA ResetIsUnvalidated ==
  ASSUME ScriptIsRow
  PROVE  /\ resetValidation(script) = [f \in ScriptFields |-> resetValidation(script)[f]]
         /\ resetValidation(script).status = "UNVALIDATED"
  BY DEF ScriptIsRow, ScriptFields, resetValidation

\* Steps that leave both the script and the solution as they are.
ScriptKept == UNCHANGED <<script, solution>>

\* What any step does with a script: whatever its text becomes, a script that
\* waits or is judged was marked with it -- or an upload was overtaken.
ScriptStep ==
  /\ ScriptIsRow'
  /\ JudgedAsMarked => \/ JudgedAsMarked'
                       \/ \E t \in tasks : Overtaken(t) /\ UploadWrites(t)
  /\ \/ script'.text = script.text
     \/ \E t \in tasks : t.op \in {"upload", "remove"} /\ End(t)

LEMMA NextScript == ScriptIsRow /\ [Next]_vars => ScriptStep
  <1> SUFFICES ASSUME ScriptIsRow, [Next]_vars PROVE ScriptStep
    OBVIOUS
  <1> USE DEF ScriptStep
  <1>1. CASE ScriptKept
    BY <1>1 DEF ScriptKept, ScriptIsRow, JudgedAsMarked
  <1>2. CASE saveReferenceSolution
    BY <1>2, ResetIsUnvalidated
       DEF saveReferenceSolution, resetValidation, ScriptIsRow, ScriptFields, JudgedAsMarked
  <1>3. ASSUME NEW t \in tasks, UploadWrites(t) PROVE ScriptStep
    <2>1. t.op = "upload" /\ End(t) /\ solution' = solution
      BY <1>3 DEF UploadWrites
    <2>2. CASE ~ t.unchanged
      <3>1. /\ script'.status = "UNVALIDATED"
            /\ script' = [f \in ScriptFields |-> script'[f]]
        BY <1>3, <2>2, ResetIsUnvalidated DEF UploadWrites, ScriptFields
      <3> QED BY <2>1, <3>1 DEF ScriptIsRow, JudgedAsMarked
    <2>3. CASE t.unchanged
      <3>1. /\ script' = [f \in ScriptFields |-> script'[f]]
            /\ script'.text = t.text
            /\ script'.status = script.status /\ script'.marked = script.marked
        BY <1>3, <2>3 DEF UploadWrites, ScriptIsRow, ScriptFields
      <3>2. CASE Overtaken(t)
        BY <1>3, <2>1, <3>1, <3>2 DEF ScriptIsRow
      <3>3. CASE t.text = script.text
        BY <2>1, <3>1, <3>3 DEF ScriptIsRow, JudgedAsMarked
      <3> QED BY <2>1, <2>3, <3>2, <3>3 DEF Overtaken
    <2> QED BY <2>2, <2>3
  <1>4. ASSUME NEW t \in tasks, RemoveWrites(t) PROVE ScriptStep
    <2>1. /\ UNCHANGED solution /\ script' \in {script, NoScript}
          /\ t.op = "remove" /\ End(t)
      BY <1>4 DEF RemoveWrites
    <2> QED BY <2>1 DEF NoScript, ScriptIsRow, ScriptFields, JudgedAsMarked
  <1>5. ASSUME NEW t \in tasks, enqueueScriptValidation(t) PROVE ScriptStep
    <2>1. CASE script' = script
      BY <1>1, <1>5, <2>1 DEF enqueueScriptValidation, ScriptKept
    <2>2. CASE script' = [script EXCEPT !.status = "VALIDATING", !.job = t.job,
                                        !.marked = <<script.text, solution>>]
      <3>1. /\ script' = [f \in ScriptFields |-> script'[f]]
            /\ script'.marked = <<script.text, solution>> /\ script'.text = script.text
        BY <2>2 DEF ScriptIsRow, ScriptFields
      <3>2. solution' = solution
        BY <1>5 DEF enqueueScriptValidation
      <3> QED BY <3>1, <3>2 DEF ScriptIsRow, JudgedAsMarked
    <2> QED BY <1>5, <2>1, <2>2 DEF enqueueScriptValidation
  <1>6. ASSUME NEW j \in jobs, recordScriptValidation(j) PROVE ScriptStep
    <2>1. solution' = solution
      BY <1>6 DEF recordScriptValidation
    <2>2. CASE script' = script
      BY <1>1, <2>1, <2>2 DEF ScriptKept
    <2>3. ASSUME NEW outcome \in {"PASSED", "FAILED"}, script.status = "VALIDATING",
                 script' = [script EXCEPT !.status = outcome, !.judged = j.runs]
          PROVE  ScriptStep
      <3>1. /\ script' = [f \in ScriptFields |-> script'[f]]
            /\ script'.marked = script.marked /\ script'.text = script.text
        BY <2>3 DEF ScriptIsRow, ScriptFields
      <3> QED BY <2>1, <2>3, <3>1 DEF ScriptIsRow, JudgedAsMarked
    <2> QED BY <1>6, <2>2, <2>3 DEF recordScriptValidation
  <1> USE DEF authored, sessions, vars, ScriptKept
  <1>7. ASSUME NEW t \in tasks, Step(t) PROVE ScriptStep
    <2>1. CASE UploadWrites(t) \/ RemoveWrites(t) \/ enqueueScriptValidation(t)
      BY <2>1, <1>3, <1>4, <1>5
    <2>2. CASE UpdateWrites(t) \/ DeleteWrites(t) \/ ListWrites(t) \/ StartWrites(t)
                 \/ closeSession(t) \/ CloseAttempts(t)
      BY <2>2, <1>1 DEF UpdateWrites, DeleteWrites, ListWrites, StartWrites,
           closeSession, CloseAttempts
    <2>3. CASE AssessmentWrites(t) \/ ensureOpenAccessSession(t) \/ OpenCreates(t)
                 \/ closeOpenAccessSessions(t) \/ CasesWrite(t)
      BY <2>3, <1>1 DEF AssessmentWrites, ensureOpenAccessSession, OpenCreates,
           closeOpenAccessSessions, CasesWrite
    <2> QED BY <1>7, <2>1, <2>2, <2>3 DEF Step
  <1>8. ASSUME NEW s \in Sessions,
               \/ createSession(s) \/ deleteSession(s) \/ replaceParticipants(s)
               \/ endSession(s) \/ expireSession(s)
               \/ \E patch \in Patches : updateSession(s, patch)
               \/ \E force \in BOOLEAN : startSession(s, force)
               \/ StartAttempt(s) \/ SubmitAttempt(s) \/ Graded(s)
        PROVE  ScriptStep
    BY <1>8, <1>1 DEF createSession, deleteSession, replaceParticipants, endSession,
         expireSession, updateSession, startSession, StartAttempt, SubmitAttempt, Graded
  <1>9. CASE \/ \E patch \in AssessmentPatches : updateAssessment(patch)
             \/ getAssessment \/ EditCases \/ uploadTestScript \/ deleteTestScript
             \/ validateTestScripts \/ Readiness \/ TimePasses
    BY <1>9, <1>1 DEF updateAssessment, getAssessment, EditCases, uploadTestScript,
         deleteTestScript, validateTestScripts, Readiness, TimePasses
  <1>10. ASSUME NEW j \in jobs, ResultLost(j) PROVE ScriptStep
    BY <1>10, <1>1 DEF ResultLost
  <1> QED BY <1>1, <1>2, <1>6, <1>7, <1>8, <1>9, <1>10 DEF Next

LEMMA ScriptInvariant == Spec => []ScriptIsRow
  <1>1. ScriptIsRow /\ [Next]_vars => ScriptIsRow'
    BY NextScript DEF ScriptStep
  <1> QED BY <1>1, InitScript, PTL DEF Spec

\* The one way a script comes to be judged, or to wait, as it was not marked is
\* an upload that decided on a row another request has changed since; every
\* other edit of it or of its solution forgets the validation.
THEOREM EditsForgetTheVerdict == Spec => OnlyOvertakenUploadsSlip
  <1>1. ScriptIsRow /\ [Next]_vars =>
          [JudgedAsMarked /\ ~ JudgedAsMarked' =>
             \E t \in tasks : Overtaken(t) /\ UploadWrites(t)]_vars
    BY NextScript DEF ScriptStep
  <1> QED BY <1>1, ScriptInvariant, PTL DEF Spec, OnlyOvertakenUploadsSlip

\* What the upload needs and does not have: while one is between its read and
\* its upsert, no other upload or removal of the script is under way.
EditsApart ==
  \A t, u \in tasks : {t.op, u.op} \subseteq {"upload", "remove"} => t = u

NoneOvertaken == \A t \in tasks : CarriesText(t)
ApartInv == ScriptIsRow /\ JudgedAsMarked /\ NoneOvertaken

LEMMA InitApart == Init => ApartInv
  <1> SUFFICES ASSUME Init PROVE ApartInv
    OBVIOUS
  <1>1. NoScript.status = "UNVALIDATED"
    BY DEF NoScript
  <1>2. script \in {NoScript, [NoScript EXCEPT !.id = 1, !.text = 1]}
    BY DEF Init
  <1>3. [NoScript EXCEPT !.id = 1, !.text = 1].status = "UNVALIDATED"
    BY <1>1
  <1>4. script.status = "UNVALIDATED" /\ tasks = {}
    BY <1>1, <1>2, <1>3 DEF Init
  <1> QED BY <1>4, InitScript DEF ApartInv, NoneOvertaken, JudgedAsMarked

LEMMA NextApart == ApartInv /\ EditsApart /\ [Next]_vars => ApartInv'
  <1> SUFFICES ASSUME ApartInv, EditsApart, [Next]_vars PROVE ApartInv'
    OBVIOUS
  <1>1. ScriptStep /\ NewTasksCarry
    BY NextScript, NextCarry DEF ApartInv
  <1>2. \A t \in tasks : ~ Overtaken(t)
    BY DEF ApartInv, NoneOvertaken, CarriesText, Overtaken
  <1>3. ScriptIsRow' /\ JudgedAsMarked'
    BY <1>1, <1>2 DEF ScriptStep, ApartInv
  <1>4. CASE script'.text = script.text
    BY <1>1, <1>3, <1>4 DEF ApartInv, NoneOvertaken, NewTasksCarry, CarriesText
  <1>5. ASSUME NEW t \in tasks, t.op \in {"upload", "remove"}, End(t) PROVE ApartInv'
    <2>1. \A u \in tasks' : u.op # "upload"
      BY <1>5 DEF End, EditsApart
    <2> QED BY <1>3, <2>1 DEF ApartInv, NoneOvertaken, CarriesText
  <1> QED BY <1>1, <1>4, <1>5 DEF ScriptStep

\* If uploads and removals of a script did not overlap, a script that waits for
\* a verdict or has one would always be as it was when it was marked, however
\* validations and saved solutions race them.
THEOREM JudgedScriptsAreAsMarked == Spec /\ []EditsApart => []JudgedAsMarked
  <1>1. ApartInv => JudgedAsMarked
    BY DEF ApartInv
  <1> QED BY <1>1, InitApart, NextApart, PTL DEF Spec
==============================================================================
