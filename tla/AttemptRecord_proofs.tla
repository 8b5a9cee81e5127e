------------------------- MODULE AttemptRecord_proofs -------------------------
(***************************************************************************)
(* Proofs about a Coder's whole record of attempts in AttemptLifecycle: at *)
(* most one attempt counts, only the latest is alive, no hand-in is        *)
(* forgotten before the queue, and FormalAttempt is implemented.           *)
(*                                                                         *)
(* Two resets of one record that overlap break the first two: each passes  *)
(* its check, and two retakes are left.  ResetsApart excludes that and     *)
(* nothing else, for any number of Architects.                             *)
(***************************************************************************)
EXTENDS AttemptLifecycle_proofs

ResetsApart ==
  \A p, q \in Procs :
    /\ req[p].op = "reset" /\ req[q].op = "reset"
    /\ req[p].att[1] = req[q].att[1]
    => p = q

-------------------------------------------------------------------------------
(* What a step does to the status and the mark of the rows.                  *)

SameStatus(b) == attempts'[b].status = attempts[b].status
Same(b) == SameStatus(b) /\ (attempts'[b].official <=> attempts[b].official)

Quiet == \A b \in AttemptIds : Same(b)

\* The first attempt of c comes into being, begun or missed.
Opens(c) ==
  /\ attempts[<<c, 1>>].status = "none"
  /\ attempts'[<<c, 1>>].status \in {"IN_PROGRESS", "EXPIRED"}
  /\ attempts'[<<c, 1>>].official
  /\ \A b \in AttemptIds \ {<<c, 1>>} : Same(b)

Begins(a) ==
  /\ attempts[a].status = "NOT_STARTED"
  /\ attempts'[a].status = "IN_PROGRESS"
  /\ attempts'[a].official <=> attempts[a].official
  /\ \A b \in AttemptIds \ {a} : Same(b)

\* p closes the attempt it holds the lock of.
Closes(p) ==
  LET a == req[p].att IN
  /\ Holds(p)
  /\ attempts'[a].status = IF HasCode(req[p]) THEN "SUBMITTED" ELSE "EXPIRED"
  /\ attempts'[a].official <=> attempts[a].official \/ (HasCode(req[p]) /\ req[p].claim)
  /\ \A b \in AttemptIds \ {a} : Same(b)

\* r resets its attempt, and number n + 1 waits.
Resets(r, n) ==
  LET a == req[r].att IN
  /\ req[r].op = "reset" /\ RecordUnlocked(a[1]) /\ IsLatest(a[1], n)
  /\ \A b \in AttemptIds :
       /\ attempts'[b].status =
            IF b = <<a[1], n + 1>> THEN "NOT_STARTED"
            ELSE IF b = a THEN "RESET" ELSE attempts[b].status
       /\ attempts'[b].official <=> attempts[b].official /\ b[1] # a[1]

Marks(a) ==
  /\ Exists(a) /\ RecordUnlocked(a[1])
  /\ \A b \in AttemptIds :
       /\ SameStatus(b)
       /\ attempts'[b].official <=> b = a \/ (attempts[b].official /\ b[1] # a[1])

Unmarks(a) ==
  \A b \in AttemptIds :
    /\ SameStatus(b)
    /\ attempts'[b].official <=> attempts[b].official /\ b # a

LEMMA Ids ==
  /\ \A a \in AttemptIds : a = <<a[1], a[2]>> /\ a[1] \in Coders /\ a[2] \in Numbers
  /\ \A c \in Coders, n \in Numbers : <<c, n>> \in AttemptIds
  /\ \A c \in Coders : <<c, 1>> \in AttemptIds
  /\ \A a \in AttemptIds : a \in Siblings(a[1]) /\ a[2] \in Nat /\ a[2] >= 1
BY LifecycleAssumption DEF AttemptIds, Numbers, Siblings

LEMMA AskingNamed ==
  ASSUME NEW op, NEW a
  PROVE  Asking(op, a).op = op /\ Asking(op, a).att = a
BY DEF Asking, Idle

LEMMA StartWriteMoves ==
  ASSUME TypeInv, NEW t \in Tabs, StartWrite(t)
  PROVE  Quiet \/ Opens(Owner[t]) \/ \E a \in AttemptIds : Begins(a)
<1> DEFINE n == req[t].att[2]
           a == <<Owner[t], IF n = 0 THEN 1 ELSE n>>
<1>1. attempts \in [AttemptIds -> Attempt] /\ t \in Procs
      BY DEF TypeInv, TypeOK, Procs
<1>2. req[t].att \in Coders \X (0..MaxAttempts)
      BY <1>1 DEF TypeInv, WellFormed, StartWrite
<1>3. n \in 0..MaxAttempts /\ Owner[t] \in Coders
      BY <1>2, LifecycleAssumption
<1>4. a \in AttemptIds
      BY <1>3, LifecycleAssumption DEF AttemptIds, Numbers
<1>5. CASE ~StillAsRead(a, n)
      BY <1>5 DEF StartWrite, Quiet, Same, SameStatus
<1>6. CASE StillAsRead(a, n)
  <2>1. attempts' = [attempts EXCEPT ![a].status = "IN_PROGRESS",
                                     ![a].clock = "running",
                                     ![a].official = @ \/ n = 0]
        BY <1>6 DEF StartWrite
  <2>2. n = 0 => a = <<Owner[t], 1>>
        OBVIOUS
  <2> HIDE DEF a, n
  <2>3. attempts[a] \in Attempt /\ \A b \in AttemptIds \ {a} : attempts'[b] = attempts[b]
        BY <1>1, <1>4, <2>1
  <2>4. /\ attempts'[a].status = "IN_PROGRESS"
        /\ attempts'[a].official <=> (attempts[a].official \/ n = 0)
        BY <1>1, <1>4, <2>1, <2>3 DEF Attempt
  <2>5. CASE n = 0
        BY <1>6, <2>2, <2>3, <2>4, <2>5 DEF Opens, Same, SameStatus, StillAsRead
  <2>6. CASE n # 0
    <3>1. Begins(a)
          BY <1>6, <2>3, <2>4, <2>6 DEF Begins, Same, SameStatus, StillAsRead
    <3> QED
        BY <1>4, <3>1
  <2> QED
      BY <2>5, <2>6
<1> QED
    BY <1>5, <1>6

LEMMA CloseCommitMoves ==
  ASSUME TypeInv, NEW p \in Procs, CloseCommit(p)
  PROVE  Closes(p)
<1> DEFINE a == req[p].att
<1>1. attempts \in [AttemptIds -> Attempt]
      BY DEF TypeInv, TypeOK
<1>2. a \in AttemptIds /\ Holds(p) /\ attempts[a] \in Attempt
      BY <1>1 DEF TypeInv, WellFormed, CloseCommit, Holds
<1>3. CASE HasCode(req[p])
  <2>1. attempts' = [attempts EXCEPT ![a].status = "SUBMITTED",
                                     ![a].official = @ \/ req[p].claim]
        BY <1>3 DEF CloseCommit
  <2>2. /\ attempts'[a].status = "SUBMITTED"
        /\ attempts'[a].official <=> (attempts[a].official \/ req[p].claim)
        /\ \A b \in AttemptIds \ {a} : attempts'[b] = attempts[b]
        BY <1>1, <1>2, <2>1 DEF Attempt
  <2> QED
      BY <1>2, <1>3, <2>2 DEF Closes, Same, SameStatus
<1>4. CASE ~HasCode(req[p])
  <2>1. attempts' = [attempts EXCEPT ![a].status = "EXPIRED"]
        BY <1>4 DEF CloseCommit
  <2>2. /\ attempts'[a].status = "EXPIRED"
        /\ attempts'[a].official <=> attempts[a].official
        /\ \A b \in AttemptIds \ {a} : attempts'[b] = attempts[b]
        BY <1>1, <1>2, <2>1 DEF Attempt
  <2> QED
      BY <1>2, <1>4, <2>2 DEF Closes, Same, SameStatus
<1> QED
    BY <1>3, <1>4

LEMMA CreateNoShowMoves ==
  ASSUME TypeInv, NEW c \in Coders, CreateNoShow(c)
  PROVE  Quiet \/ Opens(c)
<1> DEFINE row == [NoRow EXCEPT !.status = "EXPIRED", !.official = TRUE]
<1>1. row.status = "EXPIRED" /\ row.official
      BY DEF NoRow
<1>2. attempts \in [AttemptIds -> Attempt]
      BY DEF TypeInv, TypeOK
<1>3. CASE Exists(<<c, 1>>)
      BY <1>3 DEF CreateNoShow, Quiet, Same, SameStatus
<1>4. CASE ~Exists(<<c, 1>>)
  <2>1. attempts' = [attempts EXCEPT ![<<c, 1>>] = row]
        BY <1>4 DEF CreateNoShow
  <2> HIDE DEF row
  <2> QED
      BY <1>1, <1>2, <1>4, <2>1, Ids DEF Opens, Same, SameStatus, Exists
<1> QED
    BY <1>3, <1>4

LEMMA ResetWriteMoves ==
  ASSUME TypeInv, NEW r \in Architects, ResetWrite(r)
  PROVE  \E n \in 1..(MaxAttempts - 1) : Resets(r, n)
<1> DEFINE a == req[r].att
<1>1. attempts \in [AttemptIds -> Attempt]
      BY DEF TypeInv, TypeOK
<1>2. PICK n \in 1..(MaxAttempts - 1) :
        IsLatest(a[1], n) /\ attempts' = AfterReset(a, n, req[r].granted)
      BY DEF ResetWrite
<1>3. ASSUME NEW b \in AttemptIds
      PROVE  /\ attempts'[b].status =
                  IF b = <<a[1], n + 1>> THEN "NOT_STARTED"
                  ELSE IF b = a THEN "RESET" ELSE attempts[b].status
             /\ attempts'[b].official <=> attempts[b].official /\ b[1] # a[1]
  <2>1. CASE b = <<a[1], n + 1>>
    <3>1. /\ attempts'[b].status = "NOT_STARTED"
          /\ attempts'[b].official = FALSE
          BY <1>2, <2>1 DEF AfterReset, NoRow
    <3> QED
        BY <2>1, <3>1
  <2>2. CASE b # <<a[1], n + 1>>
        BY <1>1, <1>2, <2>2 DEF AfterReset, Attempt
  <2> QED
      BY <2>1, <2>2
<1>4. Resets(r, n)
      BY <1>2, <1>3 DEF Resets, ResetWrite
<1> QED
    BY <1>4

LEMMA MarkMoves ==
  ASSUME TypeInv, NEW a \in AttemptIds
  PROVE  /\ SetOfficial(a) => Marks(a)
         /\ UnsetOfficial(a) => Unmarks(a)
<1>1. attempts \in [AttemptIds -> Attempt]
      BY DEF TypeInv, TypeOK
<1>2. ASSUME SetOfficial(a) PROVE Marks(a)
  <2>1. ASSUME NEW b \in AttemptIds
        PROVE  /\ SameStatus(b)
               /\ attempts'[b].official <=> b = a \/ (attempts[b].official /\ b[1] # a[1])
        BY <1>1, <1>2 DEF SetOfficial, Attempt, SameStatus
  <2> QED
      BY <1>2, <2>1 DEF SetOfficial, Marks
<1>3. ASSUME UnsetOfficial(a) PROVE Unmarks(a)
      BY <1>1, <1>3 DEF UnsetOfficial, Unmarks, SameStatus, Attempt
<1> QED
    BY <1>2, <1>3

LEMMA ClockMoves ==
  ASSUME TypeInv, NEW a \in AttemptIds, Pause(a) \/ Resume(a) \/ ClockRunsOut(a)
  PROVE  Quiet
<1>1. attempts \in [AttemptIds -> Attempt]
      BY DEF TypeInv, TypeOK
<1>2. PICK k \in Clock : attempts' = [attempts EXCEPT ![a].clock = k]
      BY DEF Clock, Pause, Resume, ClockRunsOut
<1> QED
    BY <1>1, <1>2 DEF Quiet, Same, SameStatus, Attempt

-------------------------------------------------------------------------------
(* The record invariant.  OnlyLatestIsLive and OneOfficial follow each other:  *)
(* the mark of a first attempt and a claim under the row lock are safe because *)
(* no older attempt is alive, and a reset keeps that true because the attempt  *)
(* it read as alive is still the latest when it writes.                        *)

OfficialExists == \A a \in AttemptIds : attempts[a].official => Exists(a)

ResetsLatest ==
  \A p \in Procs :
    req[p].op = "reset" =>
      /\ attempts[req[p].att].status \notin {"none", "RESET"}
      /\ \A b \in AttemptIds :
           b[1] = req[p].att[1] /\ b[2] > req[p].att[2] => ~Exists(b)

ClaimsHold ==
  \A p \in Procs :
    Holds(p) /\ req[p].claim =>
      \A b \in AttemptIds : b[1] = req[p].att[1] => ~attempts[b].official

RecordInv ==
  OnlyLatestIsLive /\ OneOfficial /\ OfficialExists /\ ResetsLatest /\ ClaimsHold

\* No request takes a lock or begins a reset.
NoNewClaim ==
  \A p \in Procs : req'[p] = req[p] \/ req'[p].op \notin {"submit", "auto", "reset"}

LEMMA RequestsNamed ==
  ASSUME TypeInv, NEW p \in Procs, req[p].op \notin {"idle", "start"}
  PROVE  req[p].att \in AttemptIds
BY DEF TypeInv, WellFormed

LEMMA InitRecordInv == Init => RecordInv
BY DEF Init, RecordInv, OnlyLatestIsLive, OneOfficial, OfficialExists, ResetsLatest,
       ClaimsHold, Exists, Holds, NoRow, Idle

LEMMA QuietKeeps ==
  ASSUME TypeInv, RecordInv, Quiet, NoNewClaim
  PROVE  RecordInv'
<1>1. OnlyLatestIsLive' /\ OneOfficial' /\ OfficialExists'
      BY DEF RecordInv, OnlyLatestIsLive, OneOfficial, OfficialExists, Exists, Quiet, Same,
             SameStatus
<1>2. ResetsLatest'
      BY RequestsNamed
         DEF RecordInv, ResetsLatest, NoNewClaim, Exists, Quiet, Same, SameStatus
<1>3. ClaimsHold'
      BY DEF RecordInv, ClaimsHold, NoNewClaim, Holds, Quiet, Same
<1> QED
    BY <1>1, <1>2, <1>3 DEF RecordInv

\* Where an attempt is alive, its record has none before it but reset ones, and
\* none after it.
LEMMA AliveIsLatest ==
  ASSUME RecordInv, NEW a \in AttemptIds, attempts[a].status \notin {"none", "RESET"},
         NEW b \in AttemptIds, b[1] = a[1], b # a
  PROVE  /\ b[2] < a[2] => attempts[b].status = "RESET"
         /\ b[2] > a[2] => attempts[b].status = "none"
         /\ b[2] # a[2]
         /\ <<a[1], 1>> # a => attempts[<<a[1], 1>>].status = "RESET"
<1>1. b[2] \in Nat /\ a[2] \in Nat /\ b[2] # a[2] /\ a[2] >= 1
      BY Ids
<1>2. \A d, e \in AttemptIds :
        d[1] = e[1] /\ d[2] < e[2] /\ Exists(e) => attempts[d].status = "RESET"
      BY DEF RecordInv, OnlyLatestIsLive
<1>3. b[2] < a[2] => attempts[b].status = "RESET"
      BY <1>2 DEF Exists
<1>4. b[2] > a[2] => attempts[b].status = "none"
      BY <1>2, <1>1 DEF Exists
<1>5. <<a[1], 1>> # a => attempts[<<a[1], 1>>].status = "RESET"
  <2> SUFFICES ASSUME <<a[1], 1>> # a PROVE attempts[<<a[1], 1>>].status = "RESET"
      OBVIOUS
  <2> DEFINE f == <<a[1], 1>>
  <2>1. f \in AttemptIds /\ f[1] = a[1] /\ f[2] = 1 /\ a = <<a[1], a[2]>>
        BY Ids
  <2>2. f[2] < a[2]
        BY <1>1, <2>1
  <2> HIDE DEF f
  <2>3. attempts[f].status = "RESET"
        BY <1>2, <2>1, <2>2 DEF Exists
  <2> QED
      BY <2>3 DEF f
<1> QED
    BY <1>1, <1>3, <1>4, <1>5

\* Without a first attempt a record is empty: number 1 would be reset.
LEMMA EmptyRecord ==
  ASSUME RecordInv, NEW c \in Coders, attempts[<<c, 1>>].status = "none",
         NEW b \in AttemptIds, b[1] = c
  PROVE  ~Exists(b) /\ ~attempts[b].official
<1> DEFINE f == <<c, 1>>
<1>1. b = <<b[1], b[2]>> /\ b[2] \in Nat /\ b[2] >= 1 /\ f \in AttemptIds
      BY Ids
<1>2. CASE b = f
      BY <1>2 DEF RecordInv, OfficialExists, Exists
<1>3. CASE b # f
  <2>1. f[2] < b[2] /\ f[1] = b[1]
        BY <1>1, <1>3
  <2>2. ~Exists(b)
        BY <1>1, <2>1 DEF RecordInv, OnlyLatestIsLive, Exists
  <2> QED
      BY <2>2 DEF RecordInv, OfficialExists
<1> QED
    BY <1>2, <1>3

LEMMA OpensKeeps ==
  ASSUME TypeInv, LockInv, RecordInv, NEW c \in Coders, Opens(c), NoNewClaim
  PROVE  RecordInv'
<1> DEFINE f == <<c, 1>>
<1>0. f \in AttemptIds /\ f[1] = c /\ f[2] = 1 /\ ~Exists(f)
      BY Ids DEF Opens, Exists
<1>1. ASSUME NEW b \in AttemptIds, b[1] = c
      PROVE  ~Exists(b) /\ ~attempts[b].official
      BY <1>1, EmptyRecord DEF Opens
<1>2. ASSUME NEW b \in AttemptIds, b # f
      PROVE  Same(b)
      BY <1>2 DEF Opens
<1>3. Exists(f)' /\ attempts'[f].official
      BY DEF Opens, Exists
<1> HIDE DEF f
<1>4. OnlyLatestIsLive'
  <2> SUFFICES ASSUME NEW a \in AttemptIds, NEW b \in AttemptIds,
                      a[1] = b[1], a[2] < b[2], Exists(b)'
               PROVE  attempts'[a].status = "RESET"
      BY DEF OnlyLatestIsLive
  <2>1. b # f
        BY <1>0, Ids
  <2>2. Exists(b) /\ b[1] # c
        BY <1>1, <1>2, <2>1 DEF Exists, Same, SameStatus
  <2>3. a # f
        BY <1>0, <2>2
  <2> QED
      BY <1>2, <2>2, <2>3 DEF RecordInv, OnlyLatestIsLive, Same, SameStatus
<1>5. OneOfficial'
      BY <1>0, <1>1, <1>2 DEF RecordInv, OneOfficial, Same
<1>6. OfficialExists'
      BY <1>2, <1>3 DEF RecordInv, OfficialExists, Exists, Same, SameStatus
<1>7. ResetsLatest'
  <2> SUFFICES ASSUME NEW p \in Procs, req[p].op = "reset", req'[p] = req[p]
               PROVE  /\ attempts'[req[p].att].status \notin {"none", "RESET"}
                      /\ \A b \in AttemptIds :
                           b[1] = req[p].att[1] /\ b[2] > req[p].att[2] => ~Exists(b)'
      BY DEF ResetsLatest, NoNewClaim
  <2> DEFINE a == req[p].att
  <2>1. a \in AttemptIds /\ Exists(a)
        /\ \A b \in AttemptIds : b[1] = a[1] /\ b[2] > a[2] => ~Exists(b)
        BY RequestsNamed DEF RecordInv, ResetsLatest, Exists
  <2>2. a # f /\ a[1] # c
        BY <1>0, <1>1, <2>1
  <2>3. \A b \in AttemptIds : b[1] = a[1] => Same(b)
        BY <1>0, <1>2, <2>2
  <2> QED
      BY <2>1, <2>3 DEF RecordInv, ResetsLatest, Exists, Same, SameStatus
<1>8. ClaimsHold'
  <2> SUFFICES ASSUME NEW p \in Procs, Holds(p), req[p].claim, req'[p] = req[p],
                      NEW b \in AttemptIds, b[1] = req[p].att[1]
               PROVE  ~attempts'[b].official
      BY DEF ClaimsHold, NoNewClaim, Holds
  <2>1. req[p].att \in AttemptIds /\ Open(req[p].att)
        BY RequestsNamed DEF Holds, LockInv, HoldersOpen
  <2>2. req[p].att[1] # c
        BY <1>1, <2>1 DEF Open, Exists
  <2> QED
      BY <1>0, <1>2, <2>2 DEF RecordInv, ClaimsHold, Same
<1> QED
    BY <1>4, <1>5, <1>6, <1>7, <1>8 DEF RecordInv

\* An attempt that was alive stays alive, its mark is not new, and nothing else
\* changes.
LEMMA ProgressKeeps ==
  ASSUME TypeInv, RecordInv, NEW a \in AttemptIds, NoNewClaim,
         attempts[a].status \notin {"none", "RESET"},
         attempts'[a].status \notin {"none", "RESET"},
         attempts'[a].official => attempts[a].official,
         \A b \in AttemptIds \ {a} : Same(b)
  PROVE  RecordInv'
<1>1. OnlyLatestIsLive'
      BY DEF RecordInv, OnlyLatestIsLive, Exists, Same, SameStatus
<1>2. OneOfficial' /\ OfficialExists'
      BY DEF RecordInv, OneOfficial, OfficialExists, Exists, Same, SameStatus
<1>3. ResetsLatest'
      BY RequestsNamed DEF RecordInv, ResetsLatest, NoNewClaim, Exists, Same, SameStatus
<1>4. ClaimsHold'
      BY DEF RecordInv, ClaimsHold, NoNewClaim, Holds, Same
<1> QED
    BY <1>1, <1>2, <1>3, <1>4 DEF RecordInv

LEMMA ClosesKeeps ==
  ASSUME TypeInv, LockInv, RecordInv, NEW p \in Procs, Closes(p), NoNewClaim, ~Holds(p)'
  PROVE  RecordInv'
<1> DEFINE a == req[p].att
<1>0. a \in AttemptIds /\ attempts[a].status = "IN_PROGRESS" /\ Holds(p)
      BY RequestsNamed DEF Closes, Holds, LockInv, HoldersOpen, Open
<1>1. /\ attempts'[a].status \in {"SUBMITTED", "EXPIRED"}
      /\ attempts'[a].official => attempts[a].official \/ req[p].claim
      /\ \A b \in AttemptIds \ {a} : Same(b)
      BY DEF Closes
<1>2. OnlyLatestIsLive' /\ OfficialExists'
      BY <1>0, <1>1
         DEF RecordInv, OnlyLatestIsLive, OfficialExists, Exists, Same, SameStatus
<1>3. OneOfficial'
  <2>1. req[p].claim => \A b \in AttemptIds : b[1] = a[1] => ~attempts[b].official
        BY <1>0 DEF RecordInv, ClaimsHold
  <2> QED
      BY <1>0, <1>1, <2>1 DEF RecordInv, OneOfficial, Same
<1>4. ResetsLatest'
      BY <1>0, <1>1, RequestsNamed
         DEF RecordInv, ResetsLatest, NoNewClaim, Exists, Same, SameStatus
\* Nobody else holds a row of this record: its attempt would be open too.
<1>5. ClaimsHold'
  <2> SUFFICES ASSUME NEW q \in Procs, Holds(q), req[q].claim, req'[q] = req[q], q # p,
                      NEW b \in AttemptIds, b[1] = req[q].att[1]
               PROVE  ~attempts'[b].official
      BY DEF ClaimsHold, NoNewClaim, Holds
  <2> DEFINE d == req[q].att
  <2>1. d \in AttemptIds /\ attempts[d].status = "IN_PROGRESS" /\ d # a
        BY <1>0, RequestsNamed DEF Holds, LockInv, HoldersOpen, OneHolder, Open
  <2>2. d[1] # a[1]
    <3> SUFFICES ASSUME d[1] = a[1] PROVE FALSE
        OBVIOUS
    <3>1. /\ d[2] < a[2] => attempts[d].status = "RESET"
          /\ d[2] > a[2] => attempts[d].status = "none"
          /\ d[2] # a[2]
          BY <1>0, <2>1, AliveIsLatest
    <3> QED
        BY <1>0, <2>1, <3>1, Ids
  <2>3. Same(b)
        BY <1>1, <2>2
  <2> QED
      BY <2>3 DEF RecordInv, ClaimsHold, Same
<1> QED
    BY <1>2, <1>3, <1>4, <1>5 DEF RecordInv

\* A reset finds the attempt it read to be the latest still.
LEMMA ResetIsOfLatest ==
  ASSUME TypeInv, RecordInv, NEW r \in Procs, NEW n \in 1..(MaxAttempts - 1), Resets(r, n)
  PROVE  /\ req[r].att \in AttemptIds
         /\ req[r].att = <<req[r].att[1], n>>
         /\ attempts[req[r].att].status \notin {"none", "RESET"}
         /\ <<req[r].att[1], n + 1>> \in AttemptIds
         /\ attempts[<<req[r].att[1], n + 1>>].status = "none"
<1> DEFINE a == req[r].att
           l == <<a[1], n>>
           m == <<a[1], n + 1>>
<1>1. a \in AttemptIds /\ attempts[a].status \notin {"none", "RESET"}
      /\ \A b \in AttemptIds : b[1] = a[1] /\ b[2] > a[2] => ~Exists(b)
      BY RequestsNamed DEF Resets, RecordInv, ResetsLatest
<1>2. n \in Numbers /\ n + 1 \in Numbers /\ n # 0 /\ n + 1 > n /\ n \in Nat
      BY LifecycleAssumption DEF Numbers
<1>3. l \in AttemptIds /\ m \in AttemptIds /\ l[1] = a[1] /\ l[2] = n
      BY <1>1, <1>2, Ids
<1>4. Exists(l) /\ ~Exists(m) /\ \A k \in Numbers : k > n => ~Exists(<<a[1], k>>)
      BY <1>2 DEF Resets, IsLatest
<1>5. ~(n > a[2])
      BY <1>1, <1>3, <1>4
<1>6. ~(a[2] > n)
      BY <1>1, <1>4, Ids DEF Exists
<1>7. a[2] = n
      BY <1>1, <1>2, <1>5, <1>6, Ids
<1> QED
    BY <1>1, <1>3, <1>4, <1>7, Ids DEF Exists

LEMMA ResetsKeeps ==
  ASSUME TypeInv, LockInv, RecordInv, ResetsApart, NoNewClaim,
         NEW r \in Procs, NEW n \in 1..(MaxAttempts - 1), Resets(r, n), req'[r].op # "reset"
  PROVE  RecordInv'
<1> DEFINE a == req[r].att
           m == <<a[1], n + 1>>
<1>0. /\ a \in AttemptIds /\ a = <<a[1], n>> /\ a[2] = n
      /\ m \in AttemptIds /\ m[1] = a[1] /\ m[2] = n + 1 /\ m # a
      /\ attempts[a].status \notin {"none", "RESET"} /\ ~Exists(m)
      BY ResetIsOfLatest DEF Exists
<1>1. \A b \in AttemptIds :
        attempts'[b].status = IF b = m THEN "NOT_STARTED"
                              ELSE IF b = a THEN "RESET" ELSE attempts[b].status
      BY DEF Resets
<1>2. \A b \in AttemptIds : attempts'[b].official <=> attempts[b].official /\ b[1] # a[1]
      BY DEF Resets
<1>3. RecordUnlocked(a[1]) /\ req[r].op = "reset"
      BY DEF Resets
<1> HIDE DEF m
<1>4. OnlyLatestIsLive'
  <2> SUFFICES ASSUME NEW x \in AttemptIds, NEW y \in AttemptIds,
                      x[1] = y[1], x[2] < y[2], attempts'[y].status # "none"
               PROVE  attempts'[x].status = "RESET"
      BY DEF OnlyLatestIsLive, Exists
  <2>1. CASE x[1] # a[1]
    <3>1. x # a /\ x # m /\ y # a /\ y # m
          BY <1>0, <2>1
    <3> QED
        BY <1>1, <3>1 DEF RecordInv, OnlyLatestIsLive, Exists
  <2>2. CASE x[1] = a[1]
    <3>1. y[2] <= n + 1 /\ x[2] <= n /\ x # m
      <4>1. CASE y = m
            BY <1>0, <4>1, Ids
      <4>2. CASE y # m
        <5>1. attempts[y].status # "none"
              BY <1>0, <1>1, <4>2
        <5>2. y = a \/ ~(y[2] > a[2])
              BY <1>0, <2>2, <5>1, AliveIsLatest
        <5> QED
            BY <1>0, <5>2, Ids
      <4> QED
          BY <4>1, <4>2
    <3>2. CASE x = a
          BY <1>1, <3>1, <3>2
    <3>3. CASE x # a
      <4>1. x[2] < n
            BY <1>0, <2>2, <3>1, <3>3, Ids
      <4>2. attempts[x].status = "RESET"
            BY <1>0, <2>2, <3>3, <4>1, AliveIsLatest
      <4> QED
          BY <1>1, <3>1, <3>3, <4>2
    <3> QED
        BY <3>2, <3>3
  <2> QED
      BY <2>1, <2>2
<1>5. OneOfficial' /\ OfficialExists'
  <2>1. \A b \in AttemptIds : attempts'[b].official => attempts[b].official /\ b # a /\ b # m
        BY <1>0, <1>2
  <2> QED
      BY <1>1, <2>1 DEF RecordInv, OneOfficial, OfficialExists, Exists
\* No other reset of this record is under way.
<1>6. ResetsLatest'
  <2> SUFFICES ASSUME NEW p \in Procs, req[p].op = "reset", req'[p] = req[p], p # r
               PROVE  /\ attempts'[req[p].att].status \notin {"none", "RESET"}
                      /\ \A b \in AttemptIds :
                           b[1] = req[p].att[1] /\ b[2] > req[p].att[2] => ~Exists(b)'
      BY DEF ResetsLatest, NoNewClaim
  <2>1. req[p].att[1] # a[1] /\ req[p].att \in AttemptIds
        BY <1>3, RequestsNamed DEF ResetsApart
  <2>2. \A b \in AttemptIds : b[1] = req[p].att[1] => attempts'[b].status = attempts[b].status
        BY <1>0, <1>1, <2>1
  <2> QED
      BY <2>1, <2>2 DEF RecordInv, ResetsLatest, Exists
<1>7. ClaimsHold'
      BY <1>2, RequestsNamed DEF RecordInv, ClaimsHold, NoNewClaim, Holds
<1> QED
    BY <1>4, <1>5, <1>6, <1>7 DEF RecordInv

\* The Architect's choice waits for whoever holds a row of the record.
LEMMA MarksKeeps ==
  ASSUME TypeInv, RecordInv, NoNewClaim, NEW a \in AttemptIds, Marks(a) \/ Unmarks(a)
  PROVE  RecordInv'
<1>1. \A b \in AttemptIds : SameStatus(b)
      BY DEF Marks, Unmarks
<1>2. OnlyLatestIsLive' /\ ResetsLatest'
      BY <1>1, RequestsNamed
         DEF RecordInv, OnlyLatestIsLive, ResetsLatest, NoNewClaim, Exists, SameStatus
<1>3. OneOfficial' /\ OfficialExists'
      BY <1>1 DEF RecordInv, OneOfficial, OfficialExists, Exists, SameStatus, Marks, Unmarks
<1>4. ClaimsHold'
  <2> SUFFICES ASSUME NEW p \in Procs, Holds(p), req[p].claim, req'[p] = req[p],
                      NEW b \in AttemptIds, b[1] = req[p].att[1]
               PROVE  ~attempts'[b].official
      BY DEF ClaimsHold, NoNewClaim, Holds
  <2>1. ~attempts[b].official
        BY DEF RecordInv, ClaimsHold
  <2>2. CASE Unmarks(a)
        BY <2>1, <2>2 DEF Unmarks
  <2>3. CASE Marks(a)
    <3>1. req[p].att \in AttemptIds /\ RowLocked(req[p].att)
          BY RequestsNamed DEF Holds, RowLocked
    <3>2. req[p].att[1] # a[1]
          BY <2>3, <3>1 DEF Marks, RecordUnlocked, Siblings
    <3> QED
        BY <2>1, <2>3, <3>2 DEF Marks
  <2> QED
      BY <2>2, <2>3
<1> QED
    BY <1>2, <1>3, <1>4 DEF RecordInv

-------------------------------------------------------------------------------
(* Every step of the specification is of one of these kinds.                  *)

\* p takes a row lock, or reads the attempt it is going to reset.
Claims(p) ==
  /\ Quiet
  /\ \A q \in Procs \ {p} : req'[q] = req[q]
  /\ \/ Holds(p)' /\ (req'[p].claim => NoneOfficial(req'[p].att[1]))
     \/ /\ req'[p].op = "reset" /\ p \in Architects /\ req'[p].att \in AttemptIds
        /\ attempts[req'[p].att].status \notin {"none", "RESET"}

\* The answer of p's attempt is stored, if there is one.
HandsIn(p) ==
  LET a == req[p].att IN
  IF HasCode(req[p])
  THEN \E s : /\ s.source = req[p].source
              /\ subs' = [subs EXCEPT ![a] = Append(@, s)]
  ELSE subs' = subs

StepKinds ==
  \/ answers' = answers /\ \E p \in Procs : Claims(p)
  \/ /\ answers' = answers /\ NoNewClaim
     /\ \/ Quiet
        \/ \E c \in Coders : Opens(c)
        \/ \E a \in AttemptIds : Begins(a) \/ Marks(a) \/ Unmarks(a)
        \/ \E r \in Procs, n \in 1..(MaxAttempts - 1) : Resets(r, n) /\ req'[r].op # "reset"
  \/ NoNewClaim /\ \E p \in Procs : Closes(p) /\ HandsIn(p) /\ ~Holds(p)'

LEMMA FailedKeepsAnswers ==
  ASSUME TypeInv, NEW p \in Procs, Dispatch(p)
  PROVE  answers' = answers
<1> DEFINE a == req[p].att
<1>1. subs \in [AttemptIds -> Seq(Submission)] /\ a \in AttemptIds /\ Len(subs[a]) # 0
      BY DEF TypeInv, TypeOK, WellFormed, Dispatching, Dispatch
<1>2. ASSUME NEW b \in AttemptIds
      PROVE  [i \in DOMAIN Failed(a)[b] |-> Failed(a)[b][i].source]
             = [i \in DOMAIN subs[b] |-> subs[b][i].source]
  <2>1. CASE b # a
        BY <1>1, <2>1 DEF Failed
  <2>2. CASE b = a
    <3> DEFINE n == Len(subs[a])
               new == [subs[a] EXCEPT ![n].status = "SYSTEM_ERROR"]
    <3>1. subs[a] \in Seq(Submission) /\ n \in DOMAIN subs[a]
          BY <1>1
    <3>2. Failed(a)[b] = new /\ DOMAIN new = DOMAIN subs[a]
          BY <1>1, <2>2 DEF Failed
    <3>3. \A i \in DOMAIN subs[a] : subs[a][i] \in Submission
          BY <3>1
    <3>4. \A i \in DOMAIN subs[a] : new[i].source = subs[a][i].source
          BY <3>1, <3>3 DEF Submission
    <3> QED
        BY <2>2, <3>2, <3>4
  <2> QED
      BY <2>1, <2>2
<1>3. subs' = subs \/ subs' = Failed(a)
      BY DEF Dispatch
<1> QED
    BY <1>2, <1>3 DEF answers

LEMMA LockClaims ==
  ASSUME TypeInv, NEW p \in Procs, NEW op \in {"submit", "auto"}, NEW a \in AttemptIds,
         NEW s, NEW reason,
         req' = [req EXCEPT ![p] = Closing(op, a, s, reason)], UNCHANGED attempts
  PROVE  Claims(p)
<1>1. /\ Closing(op, a, s, reason).op = op
      /\ Closing(op, a, s, reason).att = a
      /\ Closing(op, a, s, reason).claim = NoneOfficial(a[1])
      BY DEF Closing, Asking, Idle
<1>2. req \in [Procs -> Request]
      BY DEF TypeInv, TypeOK
<1>3. req'[p] = Closing(op, a, s, reason) /\ \A q \in Procs \ {p} : req'[q] = req[q]
      BY <1>2
<1> QED
    BY <1>1, <1>3 DEF Claims, Holds, Quiet, Same, SameStatus

LEMMA TabKinds ==
  ASSUME TypeInv, NEW t \in Tabs, TabStep(t)
  PROVE  StepKinds
<1>0. req \in [Procs -> Request] /\ t \in Procs /\ Idle.op = "idle"
      BY DEF TypeInv, TypeOK, Procs, Idle
<1>1. CASE StartRead(t)
  <2>1. PICK n \in 0..MaxAttempts : req' = [req EXCEPT ![t] = Asking("start", <<Owner[t], n>>)]
        BY <1>1 DEF StartRead
  <2>2. NoNewClaim
        BY <1>0, <2>1 DEF NoNewClaim, Asking, Idle
  <2> QED
      BY <1>1, <2>2 DEF StartRead, StepKinds, Quiet, Same, SameStatus, answers
<1>2. CASE StartWrite(t)
  <2>1. NoNewClaim /\ answers' = answers
        BY <1>0, <1>2 DEF StartWrite, NoNewClaim, answers
  <2>2. Owner[t] \in Coders
        BY LifecycleAssumption
  <2>3. Quiet \/ Opens(Owner[t]) \/ \E a \in AttemptIds : Begins(a)
        BY <1>2, StartWriteMoves
  <2> QED
      BY <2>1, <2>2, <2>3 DEF StepKinds
<1>3. CASE DraftWrite(t)
      BY <1>0, <1>3
         DEF DraftWrite, StepKinds, NoNewClaim, Quiet, Same, SameStatus, answers
<1>4. ASSUME NEW a \in AttemptIds, NEW s \in Sources, DraftRead(t, a, s) PROVE StepKinds
  <2>1. [Asking("draft", a) EXCEPT !.source = s].op = "draft"
        BY DEF Asking, Idle
  <2>2. NoNewClaim
        BY <1>0, <1>4, <2>1 DEF DraftRead, NoNewClaim
  <2> QED
      BY <1>4, <2>2 DEF DraftRead, StepKinds, Quiet, Same, SameStatus, answers
<1>5. ASSUME NEW a \in AttemptIds, NEW s \in Sources, SubmitLock(t, a, s) PROVE StepKinds
  <2>1. Claims(t)
        BY <1>0, <1>5, LockClaims DEF SubmitLock
  <2> QED
      BY <1>0, <1>5, <2>1 DEF SubmitLock, StepKinds, answers
<1> QED
    BY <1>1, <1>2, <1>3, <1>4, <1>5 DEF TabStep

LEMMA CloseLoopKinds ==
  ASSUME TypeInv, CloseLoop
  PROVE  StepKinds
<1>1. CASE EndSession \/ ExpireSession \/ ListOpen \/ ListNoShows \/ CloseDone
      BY <1>1 DEF EndSession, ExpireSession, FlipEnded, ListOpen, ListNoShows, CloseDone,
                  StepKinds, NoNewClaim, Quiet, Same, SameStatus, answers
<1>2. ASSUME NEW a \in AttemptIds, EnderLock(a) PROVE StepKinds
  <2>1. Ender \in Procs
        BY DEF Procs, Closers
  <2>2. Claims(Ender)
        BY <1>2, <2>1, LockClaims DEF EnderLock, AutoLock
  <2> QED
      BY <1>2, <2>1, <2>2 DEF EnderLock, AutoLock, StepKinds, answers
<1>3. ASSUME NEW a \in AttemptIds, EnderSkip(a) PROVE StepKinds
      BY <1>3 DEF EnderSkip, StepKinds, NoNewClaim, Quiet, Same, SameStatus, answers
<1>4. ASSUME NEW c \in Coders, CreateNoShow(c) PROVE StepKinds
  <2>1. NoNewClaim /\ answers' = answers
        BY <1>4 DEF CreateNoShow, NoNewClaim, answers
  <2> QED
      BY <1>4, <2>1, CreateNoShowMoves DEF StepKinds
<1> QED
    BY <1>1, <1>2, <1>3, <1>4 DEF CloseLoop

LEMMA ArchitectKinds ==
  ASSUME TypeInv, ArchitectStep
  PROVE  StepKinds
<1>0. req \in [Procs -> Request] /\ Architects \subseteq Procs /\ Idle.op = "idle"
      BY DEF TypeInv, TypeOK, Procs, Idle
<1>1. ASSUME NEW r \in Architects, NEW a \in AttemptIds, ResetRead(r, a) PROVE StepKinds
  <2> DEFINE q == [Asking("reset", a) EXCEPT !.granted = session.status # "RUNNING"]
  <2>1. q.op = "reset" /\ q.att = a
        BY DEF Asking, Idle
  <2>2. req' = [req EXCEPT ![r] = q]
        BY <1>1 DEF ResetRead
  <2> HIDE DEF q
  <2>3. Claims(r)
        BY <1>0, <1>1, <2>1, <2>2 DEF ResetRead, Claims, Quiet, Same, SameStatus
  <2> QED
      BY <1>0, <1>1, <2>3 DEF ResetRead, StepKinds, answers
<1>2. ASSUME NEW r \in Architects, ResetWrite(r) PROVE StepKinds
  <2>1. NoNewClaim /\ req'[r].op # "reset" /\ answers' = answers
        BY <1>0, <1>2 DEF ResetWrite, NoNewClaim, answers
  <2>2. \E n \in 1..(MaxAttempts - 1) : Resets(r, n)
        BY <1>2, ResetWriteMoves
  <2> QED
      BY <1>0, <2>1, <2>2 DEF StepKinds
<1>3. ASSUME NEW a \in AttemptIds, SetOfficial(a) \/ UnsetOfficial(a) PROVE StepKinds
  <2>1. NoNewClaim /\ answers' = answers
        BY <1>3 DEF SetOfficial, UnsetOfficial, NoNewClaim, answers
  <2> QED
      BY <1>3, <2>1, MarkMoves DEF StepKinds
<1> QED
    BY <1>1, <1>2, <1>3 DEF ArchitectStep

LEMMA ClockKinds ==
  ASSUME TypeInv, ClockStep
  PROVE  StepKinds
<1>1. CASE SessionComesDue
      BY <1>1 DEF SessionComesDue, StepKinds, NoNewClaim, Quiet, Same, SameStatus, answers
<1>2. ASSUME NEW a \in AttemptIds, Pause(a) \/ Resume(a) \/ ClockRunsOut(a) PROVE StepKinds
  <2>1. NoNewClaim /\ answers' = answers
        BY <1>2 DEF Pause, Resume, ClockRunsOut, NoNewClaim, answers
  <2> QED
      BY <1>2, <2>1, ClockMoves DEF StepKinds
<1> QED
    BY <1>1, <1>2 DEF ClockStep

LEMMA EveryStepIsAKind ==
  ASSUME TypeInv, [Next]_vars
  PROVE  StepKinds
<1>0. req \in [Procs -> Request] /\ Idle.op = "idle"
      BY DEF TypeInv, TypeOK, Idle
<1>1. CASE UNCHANGED vars
      BY <1>1 DEF vars, StepKinds, NoNewClaim, Quiet, Same, SameStatus, answers
<1>2. ASSUME NEW p \in Callers, CallerStep(p) PROVE StepKinds
  <2>1. PICK a \in AttemptIds, reason \in Reasons : CallerLock(p, a, reason)
        BY <1>2 DEF CallerStep
  <2>2. p \in Procs /\ Claims(p)
        BY <2>1, LockClaims DEF CallerLock, AutoLock, Procs, Closers
  <2> QED
      BY <2>1, <2>2 DEF CallerLock, AutoLock, StepKinds, answers
<1>3. ASSUME NEW p \in Procs, CloseCommit(p) PROVE StepKinds
  <2>1. /\ \A q \in Procs : q # p => req'[q] = req[q]
        /\ req'[p].op \notin {"submit", "auto", "reset"}
        BY <1>0, <1>3, AskingNamed DEF CloseCommit
  <2>2. NoNewClaim /\ ~Holds(p)'
        BY <2>1 DEF NoNewClaim, Holds
  <2>3. HandsIn(p)
        BY <1>3 DEF CloseCommit, HandsIn
  <2> QED
      BY <1>3, <2>2, <2>3, CloseCommitMoves DEF StepKinds
<1>4. ASSUME NEW p \in Procs, Dispatch(p) PROVE StepKinds
  <2>1. NoNewClaim
        BY <1>0, <1>4 DEF Dispatch, NoNewClaim
  <2> QED
      BY <1>4, <2>1, FailedKeepsAnswers DEF Dispatch, StepKinds, Quiet, Same, SameStatus
<1>5. ASSUME NEW p \in Procs, Crash(p) PROVE StepKinds
  <2>1. NoNewClaim
        BY <1>0, <1>5 DEF Crash, NoNewClaim
  <2> QED
      BY <1>5, <2>1 DEF Crash, StepKinds, Quiet, Same, SameStatus, answers
<1> QED
    BY <1>1, <1>2, <1>3, <1>4, <1>5, TabKinds, CloseLoopKinds, ArchitectKinds, ClockKinds
       DEF Next

LEMMA ClaimsKeep ==
  ASSUME TypeInv, RecordInv, NEW p \in Procs, Claims(p)
  PROVE  RecordInv'
<1>1. OnlyLatestIsLive' /\ OneOfficial' /\ OfficialExists'
      BY DEF RecordInv, OnlyLatestIsLive, OneOfficial, OfficialExists, Exists, Claims, Quiet,
             Same, SameStatus
<1>2. \A b \in AttemptIds : Same(b)
      BY DEF Claims, Quiet
<1>3. ASSUME NEW q \in Procs, req'[q].op = "reset"
      PROVE  /\ req'[q].att \in AttemptIds
             /\ attempts[req'[q].att].status \notin {"none", "RESET"}
  <2>1. CASE q = p
        BY <1>3, <2>1 DEF Claims, Holds
  <2>2. CASE q # p
        BY <1>3, <2>2, RequestsNamed DEF Claims, RecordInv, ResetsLatest
  <2> QED
      BY <2>1, <2>2
\* What is alive has nothing after it.
<1>4. ResetsLatest'
  <2> SUFFICES ASSUME NEW q \in Procs, req'[q].op = "reset",
                      NEW b \in AttemptIds, b[1] = req'[q].att[1], b[2] > req'[q].att[2]
               PROVE  ~Exists(b)
      BY <1>2, <1>3 DEF ResetsLatest, Exists, Same, SameStatus
  <2> DEFINE a == req'[q].att
  <2>1. a \in AttemptIds /\ attempts[a].status \notin {"none", "RESET"}
        BY <1>3
  <2> HIDE DEF a
  <2>2. b[1] = a[1] /\ b[2] > a[2] /\ b # a
        BY <2>1, Ids DEF a
  <2> QED
      BY <2>1, <2>2, AliveIsLatest DEF Exists
<1>5. ClaimsHold'
  <2> SUFFICES ASSUME NEW q \in Procs, Holds(q)', req'[q].claim,
                      NEW b \in AttemptIds, b[1] = req'[q].att[1]
               PROVE  ~attempts[b].official
      BY <1>2 DEF ClaimsHold, Same
  <2>1. CASE q = p
        BY <2>1 DEF Claims, Holds, NoneOfficial, Siblings
  <2>2. CASE q # p
        BY <2>2 DEF Claims, Holds, RecordInv, ClaimsHold
  <2> QED
      BY <2>1, <2>2
<1> QED
    BY <1>1, <1>4, <1>5 DEF RecordInv

LEMMA RecordInvNext ==
  TypeInv /\ LockInv /\ RecordInv /\ ResetsApart /\ [Next]_vars => RecordInv'
<1> SUFFICES ASSUME TypeInv, LockInv, RecordInv, ResetsApart, [Next]_vars
             PROVE  RecordInv'
    OBVIOUS
<1>1. ASSUME NEW p \in Procs, Claims(p) PROVE RecordInv'
      BY <1>1, ClaimsKeep
<1>2. ASSUME NoNewClaim, Quiet PROVE RecordInv'
      BY <1>2, QuietKeeps
<1>3. ASSUME NoNewClaim, NEW c \in Coders, Opens(c) PROVE RecordInv'
      BY <1>3, OpensKeeps
<1>4. ASSUME NoNewClaim, NEW a \in AttemptIds, Begins(a) PROVE RecordInv'
  <2>1. /\ attempts[a].status \notin {"none", "RESET"}
        /\ attempts'[a].status \notin {"none", "RESET"}
        /\ attempts'[a].official => attempts[a].official
        /\ \A b \in AttemptIds \ {a} : Same(b)
        BY <1>4 DEF Begins
  <2> QED
      BY <1>4, <2>1, ProgressKeeps
<1>5. ASSUME NoNewClaim, NEW p \in Procs, Closes(p), ~Holds(p)' PROVE RecordInv'
      BY <1>5, ClosesKeeps
<1>6. ASSUME NoNewClaim, NEW r \in Procs, NEW n \in 1..(MaxAttempts - 1), Resets(r, n),
             req'[r].op # "reset"
      PROVE  RecordInv'
      BY <1>6, ResetsKeeps
<1>7. ASSUME NoNewClaim, NEW a \in AttemptIds, Marks(a) \/ Unmarks(a) PROVE RecordInv'
      BY <1>7, MarksKeeps
<1>8. StepKinds
      BY EveryStepIsAKind
<1> QED
    BY <1>1, <1>2, <1>3, <1>4, <1>5, <1>6, <1>7, <1>8 DEF StepKinds

\* Where resets of one record do not overlap, at most one of its attempts is
\* official (official-score.ts), however submits, auto-submits, no-shows, resets
\* and the Architects' choices interleave.
THEOREM AtMostOneOfficial == SafeSpec /\ []ResetsApart => []OneOfficial
<1>1. RecordInv => OneOfficial
      BY DEF RecordInv
<1> QED
    BY <1>1, InitTypeInv, TypeInvNext, InitLockInv, LockInvNext, InitRecordInv, RecordInvNext,
       PTL DEF SafeSpec

\* And under the same condition a retake leaves no older attempt alive beside it.
THEOREM RecordIsAStack == SafeSpec /\ []ResetsApart => []OnlyLatestIsLive
<1>1. RecordInv => OnlyLatestIsLive
      BY DEF RecordInv
<1> QED
    BY <1>1, InitTypeInv, TypeInvNext, InitLockInv, LockInvNext, InitRecordInv, RecordInvNext,
       PTL DEF SafeSpec

-------------------------------------------------------------------------------
(* With one process serving resets, they cannot overlap. *)

ArchitectsReset == \A p \in Procs : req[p].op = "reset" => p \in Architects

LEMMA ArchitectsResetNext ==
  TypeInv /\ ArchitectsReset /\ [Next]_vars => ArchitectsReset'
<1> SUFFICES ASSUME TypeInv, ArchitectsReset, [Next]_vars, NEW p \in Procs,
                    req'[p].op = "reset"
             PROVE  p \in Architects
    BY DEF ArchitectsReset
<1>1. StepKinds
      BY EveryStepIsAKind
<1>2. CASE NoNewClaim
      BY <1>2 DEF NoNewClaim, ArchitectsReset
<1>3. ASSUME NEW q \in Procs, Claims(q) PROVE p \in Architects
      BY <1>3 DEF Claims, Holds, ArchitectsReset
<1> QED
    BY <1>1, <1>2, <1>3 DEF StepKinds

\* ResetsApart is what an owner who resets one attempt at a time provides: the
\* instance the runs check is one of these.
THEOREM OneResetAtATime ==
  ASSUME \A p, q \in Architects : p = q
  PROVE  SafeSpec => []ResetsApart
<1>1. Init => ArchitectsReset
      BY DEF Init, ArchitectsReset, Idle
<1>2. ArchitectsReset => ResetsApart
      BY DEF ArchitectsReset, ResetsApart
<1> QED
    BY <1>1, <1>2, InitTypeInv, TypeInvNext, ArchitectsResetNext, PTL DEF SafeSpec

-------------------------------------------------------------------------------
(* Between the commit of a Submission and the queue. *)

Carried(a) == a \in jobs \/ \E p \in Procs : req[p].op = "dispatch" /\ req[p].att = a

LEMMA DispatchElsewhere ==
  ASSUME TypeInv, NoSubmissionForgotten, NEW p \in Procs, Dispatch(p), crashes' = 0,
         NEW a \in AttemptIds, a # req[p].att,
         NEW i \in DOMAIN subs'[a], subs'[a][i].status = "QUEUED"
  PROVE  Carried(a)'
<1>1. /\ subs \in [AttemptIds -> Seq(Submission)] /\ req \in [Procs -> Request]
      /\ req[p].att \in AttemptIds
      BY DEF TypeInv, TypeOK, WellFormed, Dispatch
<1>2. subs'[a] = subs[a] /\ crashes' = crashes /\ jobs \subseteq jobs'
      BY <1>1 DEF Dispatch, Failed
<1>3. Carried(a)
      BY <1>2 DEF NoSubmissionForgotten, Carried
<1>4. \A q \in Procs : q # p => req'[q] = req[q]
      BY <1>1 DEF Dispatch
<1> QED
    BY <1>2, <1>3, <1>4 DEF Carried

LEMMA NoSubmissionForgottenNext ==
  TypeInv /\ LockInv /\ NoSubmissionForgotten /\ [Next]_vars => NoSubmissionForgotten'
<1> SUFFICES ASSUME TypeInv, LockInv, NoSubmissionForgotten, [Next]_vars, crashes' = 0,
                    NEW a \in AttemptIds, NEW i \in DOMAIN subs'[a],
                    subs'[a][i].status = "QUEUED"
             PROVE  Carried(a)'
    BY DEF NoSubmissionForgotten, Carried
<1>0. /\ subs \in [AttemptIds -> Seq(Submission)] /\ req \in [Procs -> Request]
      /\ crashes \in Nat
      BY DEF TypeInv, TypeOK
<1>1. ASSUME NEW p \in Procs, CloseCommit(p) PROVE Carried(a)'
  <2> DEFINE d == req[p].att
  <2>1. CASE HasCode(req[p]) /\ a = d
    <3>1. req'[p].op = "dispatch" /\ req'[p].att = a
          BY <1>0, <1>1, <2>1, AskingNamed DEF CloseCommit
    <3> QED
        BY <3>1 DEF Carried
  <2>2. CASE ~(HasCode(req[p]) /\ a = d)
    <3>1. subs'[a] = subs[a] /\ crashes' = crashes /\ jobs' = jobs
          BY <1>0, <1>1, <2>2 DEF CloseCommit
    <3>2. Carried(a)
          BY <3>1 DEF NoSubmissionForgotten, Carried
    <3>3. \A q \in Procs : req[q].op = "dispatch" => req'[q] = req[q]
          BY <1>0, <1>1 DEF CloseCommit
    <3> QED
        BY <3>1, <3>2, <3>3 DEF Carried
  <2> QED
      BY <2>1, <2>2
\* The last Submission of an attempt is its only one.
<1>2. ASSUME NEW p \in Procs, Dispatch(p) PROVE Carried(a)'
  <2> DEFINE d == req[p].att
  <2>1. d \in AttemptIds /\ Len(subs[d]) # 0 /\ Len(subs[d]) <= 1
        BY <1>2 DEF Dispatch, TypeInv, WellFormed, Dispatching, LockInv, OneFormalSubmission
  <2>2. Len(subs[d]) = 1
    <3>1. subs[d] \in Seq(Submission)
          BY <1>0, <2>1
    <3>2. Len(subs[d]) \in Nat
          BY <3>1
    <3>3. \A n \in Nat : n # 0 /\ n <= 1 => n = 1
          OBVIOUS
    <3> QED
        BY <2>1, <3>2, <3>3
  <2>3. CASE d \in jobs'
    <3>1. CASE a = d
          BY <2>3, <3>1 DEF Carried
    <3>2. CASE a # d
          BY <1>0, <1>2, <2>1, <3>2, DispatchElsewhere
    <3> QED
        BY <3>1, <3>2
  <2>4. CASE subs' = Failed(d)
    <3>1. CASE a = d
      <4>1. subs[d] \in Seq(Submission) /\ subs[d][1] \in Submission /\ DOMAIN subs[d] = {1}
            BY <1>0, <2>1, <2>2
      <4>2. subs'[d] = [subs[d] EXCEPT ![1].status = "SYSTEM_ERROR"]
            BY <1>0, <2>1, <2>2, <2>4 DEF Failed
      <4>3. i = 1 /\ subs'[d][1].status = "SYSTEM_ERROR"
            BY <3>1, <4>1, <4>2 DEF Submission
      <4> QED
          BY <3>1, <4>3
    <3>2. CASE a # d
          BY <1>0, <1>2, <2>1, <3>2, DispatchElsewhere
    <3> QED
        BY <3>1, <3>2
  <2> QED
      BY <1>2, <2>3, <2>4 DEF Dispatch
<1>3. ASSUME NEW p \in Procs, Crash(p) PROVE FALSE
      BY <1>0, <1>3 DEF Crash
<1>4. ASSUME subs' = subs, jobs' = jobs, crashes' = crashes,
             \A p \in Procs : req[p].op = "dispatch" => req'[p] = req[p]
      PROVE  Carried(a)'
      BY <1>4 DEF NoSubmissionForgotten, Carried
<1>5. ASSUME NEW t \in Tabs, TabStep(t) PROVE Carried(a)'
  <2>1. subs' = subs /\ jobs' = jobs /\ crashes' = crashes
        BY <1>5, Zenon DEF TabStep, StartRead, StartWrite, DraftRead, DraftWrite, SubmitLock
  <2>2. req[t].op \in {"idle", "start", "draft"}
        BY <1>5 DEF TabStep, StartRead, StartWrite, DraftRead, DraftWrite, SubmitLock
  <2>3. PICK r : req' = [req EXCEPT ![t] = r]
        BY <1>5, Zenon DEF TabStep, StartRead, StartWrite, DraftRead, DraftWrite, SubmitLock
  <2>4. \A p \in Procs : req[p].op = "dispatch" => req'[p] = req[p]
        BY <1>0, <2>2, <2>3
  <2> QED
      BY <1>4, <2>1, <2>4
<1>6. ASSUME NEW p \in Procs, NEW b \in AttemptIds, NEW reason \in Reasons,
             AutoLock(p, b, reason)
      PROVE  Carried(a)'
      BY <1>0, <1>4, <1>6 DEF AutoLock
<1>7. ASSUME NEW p \in Callers, CallerStep(p) PROVE Carried(a)'
      BY <1>6, <1>7 DEF CallerStep, CallerLock, Procs, Closers
<1>8. CASE CloseLoop
  <2>1. ASSUME NEW b \in AttemptIds, EnderLock(b) PROVE Carried(a)'
    <3>1. Ender \in Procs /\ "SESSION_ENDED" \in Reasons
          BY DEF Procs, Closers, Reasons
    <3> QED
        BY <1>6, <2>1, <3>1 DEF EnderLock
  <2>2. CASE UNCHANGED <<subs, jobs, req, crashes>>
        BY <1>4, <2>2
  <2> QED
      BY <1>8, <2>1, <2>2
         DEF CloseLoop, EndSession, ExpireSession, FlipEnded, ListOpen, ListNoShows, CloseDone,
             EnderSkip, CreateNoShow
<1>9. CASE ArchitectStep
  <2>1. subs' = subs /\ jobs' = jobs /\ crashes' = crashes
        BY <1>9 DEF ArchitectStep, ResetRead, ResetWrite, SetOfficial, UnsetOfficial
  <2>2. \A p \in Procs : req[p].op = "dispatch" => req'[p] = req[p]
        BY <1>0, <1>9 DEF ArchitectStep, ResetRead, ResetWrite, SetOfficial, UnsetOfficial
  <2> QED
      BY <1>4, <2>1, <2>2
<1>10. CASE ClockStep \/ UNCHANGED vars
      BY <1>4, <1>10 DEF ClockStep, SessionComesDue, Pause, Resume, ClockRunsOut, vars
<1> QED
    BY <1>1, <1>2, <1>3, <1>5, <1>7, <1>8, <1>9, <1>10 DEF Next

\* dispatchSubmission leaves nothing QUEUED that is not on the queue, as long as
\* no handler dies between its commit and its dispatch.
THEOREM NothingForgotten == SafeSpec => []NoSubmissionForgotten
<1>1. Init => NoSubmissionForgotten
      BY DEF Init, NoSubmissionForgotten
<1> QED
    BY <1>1, InitTypeInv, TypeInvNext, InitLockInv, LockInvNext, NoSubmissionForgottenNext,
       PTL DEF SafeSpec

-------------------------------------------------------------------------------
(* FormalAttempt is implemented.  What the refinement mapping shows of a       *)
(* record: the standing of each attempt, and the one that counts.              *)

OfficialShown ==
  \A c \in Coders :
    /\ NoneOfficial(c) => official[c] = NoAttempt
    /\ \A a \in Siblings(c) : attempts[a].official => official[c] = a

LEMMA ShownBy == OneOfficial => OfficialShown
<1> SUFFICES ASSUME OneOfficial, NEW c \in Coders
             PROVE  /\ NoneOfficial(c) => official[c] = NoAttempt
                    /\ \A a \in Siblings(c) : attempts[a].official => official[c] = a
    BY DEF OfficialShown
<1>1. official[c] = IF Flagged(c) = {} THEN NoAttempt ELSE CHOOSE a \in Flagged(c) : TRUE
      BY DEF official
<1>2. NoneOfficial(c) => Flagged(c) = {}
      BY DEF NoneOfficial, Flagged
<1>3. ASSUME NEW a \in Siblings(c), attempts[a].official PROVE official[c] = a
  <2>1. a \in Flagged(c) /\ \A b \in Flagged(c) : b = a
        BY <1>3 DEF Flagged, Siblings, OneOfficial
  <2>2. (CHOOSE b \in Flagged(c) : TRUE) \in Flagged(c)
        BY <2>1
  <2> QED
      BY <1>1, <2>1, <2>2
<1> QED
    BY <1>1, <1>2, <1>3

LEMMA MapsAreFunctions ==
  /\ standing = [a \in AttemptIds |-> standing[a]]
  /\ official = [c \in Coders |-> official[c]]
  /\ answers = [a \in AttemptIds |-> answers[a]]
  /\ standing' = [a \in AttemptIds |-> standing'[a]]
  /\ official' = [c \in Coders |-> official'[c]]
  /\ answers' = [a \in AttemptIds |-> answers'[a]]
BY DEF standing, official, answers

\* The standings one by one.
LEMMA Standings ==
  ASSUME NEW a \in AttemptIds
  PROVE  /\ standing[a] = Standing[attempts[a].status]
         /\ standing'[a] = Standing[attempts'[a].status]
         /\ SameStatus(a) => standing'[a] = standing[a]
BY DEF standing, SameStatus

LEMMA OfficialSame ==
  ASSUME OfficialShown, OfficialShown', NEW c \in Coders,
         \A b \in Siblings(c) : attempts'[b].official <=> attempts[b].official
  PROVE  official'[c] = official[c]
<1>1. CASE NoneOfficial(c)
  <2>1. NoneOfficial(c)'
        BY <1>1 DEF NoneOfficial, Siblings
  <2> QED
      BY <1>1, <2>1 DEF OfficialShown
<1>2. CASE ~NoneOfficial(c)
  <2>1. PICK a \in Siblings(c) : attempts[a].official
        BY <1>2 DEF NoneOfficial
  <2>2. a \in Siblings(c)' /\ attempts'[a].official
        BY <2>1 DEF Siblings
  <2> QED
      BY <2>1, <2>2 DEF OfficialShown
<1> QED
    BY <1>1, <1>2

LEMMA QuietMaps ==
  ASSUME OfficialShown, OfficialShown', Quiet, answers' = answers
  PROVE  UNCHANGED Formal!vars
<1>1. standing' = standing
      BY Standings, MapsAreFunctions DEF Quiet, Same
<1>2. official' = official
      BY OfficialSame, MapsAreFunctions DEF Quiet, Same, Siblings
<1> QED
    BY <1>1, <1>2 DEF Formal!vars

\* A step that writes the row of one attempt moves the standing of that one, and
\* the official attempt of its Coder at most.
LEMMA OneRowMaps ==
  ASSUME OfficialShown, OfficialShown', NEW a \in AttemptIds,
         \A b \in AttemptIds \ {a} : Same(b)
  PROVE  /\ standing' = [standing EXCEPT ![a] = Standing[attempts'[a].status]]
         /\ official' = [official EXCEPT ![a[1]] = official'[a[1]]]
<1>1. \A b \in AttemptIds \ {a} : standing'[b] = standing[b]
      BY Standings DEF Same
<1>2. standing'[a] = Standing[attempts'[a].status]
      BY Standings
<1>3. \A c \in Coders \ {a[1]} : official'[c] = official[c]
  <2> SUFFICES ASSUME NEW c \in Coders \ {a[1]} PROVE official'[c] = official[c]
      OBVIOUS
  <2>1. \A b \in Siblings(c) : attempts'[b].official <=> attempts[b].official
        BY DEF Siblings, Same
  <2> QED
      BY <2>1, OfficialSame
<1> QED
    BY <1>1, <1>2, <1>3, MapsAreFunctions

LEMMA OpensMaps ==
  ASSUME RecordInv, OfficialShown, OfficialShown', NEW c \in Coders, Opens(c),
         answers' = answers
  PROVE  \E how \in {"open", "lapsed"} : Formal!First(c, how)
<1> DEFINE f == <<c, 1>>
<1>1. f \in AttemptIds /\ f[1] = c
      BY Ids
<1>2. NoneOfficial(c)
      BY EmptyRecord DEF NoneOfficial, Siblings, Opens
<1>3. standing[f] = "none" /\ official[c] = NoAttempt
      BY <1>1, <1>2, Standings DEF Opens, OfficialShown, Standing
<1>4. official'[c] = f
      BY <1>1 DEF Opens, OfficialShown, Siblings
<1>5. Standing[attempts'[f].status] \in {"open", "lapsed"}
      BY DEF Opens, Standing
<1>6. /\ standing' = [standing EXCEPT ![f] = Standing[attempts'[f].status]]
      /\ official' = [official EXCEPT ![c] = f]
      BY <1>1, <1>4, OneRowMaps DEF Opens
<1> QED
    BY <1>3, <1>5, <1>6 DEF Formal!First

LEMMA BeginsMaps ==
  ASSUME OfficialShown, OfficialShown', NEW a \in AttemptIds, Begins(a), answers' = answers
  PROVE  Formal!Begin(a)
<1>1. standing[a] = "waiting" /\ Standing[attempts'[a].status] = "open"
      BY Standings DEF Begins, Standing
<1>2. standing' = [standing EXCEPT ![a] = "open"]
      BY <1>1, OneRowMaps DEF Begins
<1>3. \A b \in AttemptIds : attempts'[b].official <=> attempts[b].official
      BY DEF Begins, Same
<1>4. official' = official
      BY <1>3, OfficialSame, MapsAreFunctions DEF Siblings
<1> QED
    BY <1>1, <1>2, <1>4 DEF Formal!Begin

\* What the closing of p's attempt stores.
LEMMA AnswerStored ==
  ASSUME TypeInv, LockInv, NEW p \in Procs, Holds(p), HandsIn(p)
  PROVE  LET a == req[p].att IN
         /\ a \in AttemptIds /\ attempts[a].status = "IN_PROGRESS"
         /\ answers[a] = <<>>
         /\ answers' = IF HasCode(req[p])
                       THEN [answers EXCEPT ![a] = <<req[p].source>>]
                       ELSE answers
         /\ HasCode(req[p]) => req[p].source \in Sources
<1> DEFINE a == req[p].att
<1>1. a \in AttemptIds /\ attempts[a].status = "IN_PROGRESS"
      BY RequestsNamed DEF Holds, LockInv, HoldersOpen, Open
<1>2. subs \in [AttemptIds -> Seq(Submission)] /\ req[p] \in Request
      BY DEF TypeInv, TypeOK
<1>3. subs[a] = <<>>
  <2>1. subs[a] \in Seq(Submission) /\ Len(subs[a]) = 0
        BY <1>1, <1>2 DEF LockInv, OneFormalSubmission
  <2> QED
      BY <2>1
<1>4. answers[a] = <<>>
      BY <1>1, <1>3 DEF answers
<1>5. CASE HasCode(req[p])
  <2>1. PICK s : s.source = req[p].source /\ subs' = [subs EXCEPT ![a] = Append(@, s)]
        BY <1>5 DEF HandsIn
  <2>2. subs'[a] = <<s>> /\ \A b \in AttemptIds \ {a} : subs'[b] = subs[b]
        BY <1>1, <1>2, <1>3, <2>1
  <2>3. answers'[a] = <<req[p].source>>
        BY <1>1, <2>1, <2>2 DEF answers
  <2>4. \A b \in AttemptIds \ {a} : answers'[b] = answers[b]
        BY <2>2 DEF answers
  <2>5. answers' = [answers EXCEPT ![a] = <<req[p].source>>]
        BY <1>1, <2>3, <2>4, MapsAreFunctions
  <2>6. req[p].source \in Sources
        BY <1>2, <1>5 DEF HasCode, Request
  <2> QED
      BY <1>1, <1>4, <1>5, <2>5, <2>6
<1>6. CASE ~HasCode(req[p])
  <2>1. answers' = answers
        BY <1>6 DEF HandsIn, answers
  <2> QED
      BY <1>1, <1>4, <1>6, <2>1
<1> QED
    BY <1>5, <1>6

LEMMA ClosesMaps ==
  ASSUME TypeInv, LockInv, RecordInv, OfficialShown, OfficialShown',
         NEW p \in Procs, Closes(p), HandsIn(p)
  PROVE  \/ Formal!Lapse(req[p].att)
         \/ \E s \in Sources : Formal!HandIn(req[p].att, s)
<1> DEFINE a == req[p].att
<1>1. /\ a \in AttemptIds /\ attempts[a].status = "IN_PROGRESS"
      /\ answers[a] = <<>>
      /\ answers' = IF HasCode(req[p]) THEN [answers EXCEPT ![a] = <<req[p].source>>]
                    ELSE answers
      /\ HasCode(req[p]) => req[p].source \in Sources
      BY AnswerStored DEF Closes
<1>2. standing[a] = "open"
      BY <1>1, Standings DEF Standing
<1>3. /\ standing' = [standing EXCEPT ![a] = Standing[attempts'[a].status]]
      /\ official' = [official EXCEPT ![a[1]] = official'[a[1]]]
      BY <1>1, OneRowMaps DEF Closes
<1>to. attempts'[a].status = IF HasCode(req[p]) THEN "SUBMITTED" ELSE "EXPIRED"
      BY DEF Closes
<1>shown. Standing["SUBMITTED"] = "handedIn" /\ Standing["EXPIRED"] = "lapsed"
      BY DEF Standing
<1>4. CASE ~HasCode(req[p])
  <2>1. standing' = [standing EXCEPT ![a] = "lapsed"]
        BY <1>3, <1>4, <1>to, <1>shown
  <2>2. \A b \in AttemptIds : attempts'[b].official <=> attempts[b].official
        BY <1>4 DEF Closes, Same
  <2>3. official' = official
        BY <2>2, OfficialSame, MapsAreFunctions DEF Siblings
  <2> QED
      BY <1>1, <1>2, <1>4, <2>1, <2>3 DEF Formal!Lapse
<1>5. CASE HasCode(req[p])
  <2>1. standing' = [standing EXCEPT ![a] = "handedIn"]
        BY <1>3, <1>5, <1>to, <1>shown
\* The count under the lock: what was claimed was nobody else's.
  <2>2. \/ official' = official
        \/ /\ official[a[1]] = NoAttempt
           /\ official' = [official EXCEPT ![a[1]] = a]
    <3>1. CASE attempts'[a].official /\ ~attempts[a].official
      <4>1. req[p].claim
            BY <3>1 DEF Closes
      <4>2. NoneOfficial(a[1])
            BY <4>1 DEF RecordInv, ClaimsHold, Closes, NoneOfficial, Siblings
      <4>3. official[a[1]] = NoAttempt /\ official'[a[1]] = a
            BY <1>1, <3>1, <4>2, Ids DEF OfficialShown, Siblings
      <4> QED
          BY <1>3, <4>3
    <3>2. CASE ~(attempts'[a].official /\ ~attempts[a].official)
      <4>1. \A b \in AttemptIds : attempts'[b].official <=> attempts[b].official
            BY <3>2 DEF Closes, Same
      <4>2. official' = official
            BY <4>1, OfficialSame, MapsAreFunctions DEF Siblings
      <4> QED
          BY <4>2
    <3> QED
        BY <3>1, <3>2
  <2>3. Formal!HandIn(a, req[p].source)
        BY <1>1, <1>2, <1>5, <2>1, <2>2 DEF Formal!HandIn
  <2> QED
      BY <1>1, <1>5, <2>3
<1> QED
    BY <1>4, <1>5

LEMMA ResetsMaps ==
  ASSUME TypeInv, RecordInv, OfficialShown, OfficialShown',
         NEW r \in Procs, NEW n \in 1..(MaxAttempts - 1), Resets(r, n), answers' = answers
  PROVE  req[r].att[1] \in Coders /\ Formal!Retake(req[r].att[1], n)
<1> DEFINE a == req[r].att
           c == a[1]
           m == <<c, n + 1>>
<1>1. /\ a \in AttemptIds /\ a = <<c, n>> /\ m \in AttemptIds /\ c \in Coders
      /\ attempts[a].status \notin {"none", "RESET"} /\ attempts[m].status = "none"
      BY ResetIsOfLatest, Ids
<1>2. m # a
      BY <1>1
<1> HIDE DEF m
<1>3. \A b \in AttemptIds :
        attempts'[b].status = IF b = m THEN "NOT_STARTED"
                              ELSE IF b = a THEN "RESET" ELSE attempts[b].status
      BY DEF Resets, m
<1>4. standing[a] \notin {"none", "void"} /\ standing[m] = "none"
  <2>1. attempts[a].status \in Status
        BY <1>1 DEF TypeInv, TypeOK, Attempt
  <2>2. Standing[attempts[a].status] \notin {"none", "void"}
        BY <1>1, <2>1 DEF Status, Standing
  <2> QED
      BY <1>1, <2>2, Standings DEF Standing
<1>5. standing' = [standing EXCEPT ![a] = "void", ![m] = "waiting"]
  <2>1. standing'[a] = "void" /\ standing'[m] = "waiting"
        BY <1>1, <1>2, <1>3, Standings DEF Standing
  <2>2. \A b \in AttemptIds \ {a, m} : standing'[b] = standing[b]
        BY <1>3, Standings DEF SameStatus
  <2> QED
      BY <1>1, <1>2, <2>1, <2>2, MapsAreFunctions
<1>6. official' = [official EXCEPT ![c] = NoAttempt]
  <2>1. \A b \in AttemptIds : attempts'[b].official <=> attempts[b].official /\ b[1] # c
        BY DEF Resets
  <2>2. official'[c] = NoAttempt
        BY <1>1, <2>1 DEF OfficialShown, NoneOfficial, Siblings
  <2>3. ASSUME NEW d \in Coders, d # c PROVE official'[d] = official[d]
        BY <2>1, <2>3, OfficialSame DEF Siblings
  <2> QED
      BY <1>1, <2>2, <2>3, MapsAreFunctions
<1> QED
    BY <1>1, <1>4, <1>5, <1>6 DEF Formal!Retake, m

LEMMA MarksMaps ==
  ASSUME TypeInv, RecordInv, OfficialShown, OfficialShown', NEW a \in AttemptIds,
         answers' = answers
  PROVE  /\ Marks(a) => Formal!Choose(a[1], a)
         /\ Unmarks(a) => Formal!Choose(a[1], NoAttempt) \/ UNCHANGED Formal!vars
<1>1. a[1] \in Coders /\ a \in Siblings(a[1])
      BY Ids
<1>2. ASSUME Marks(a) PROVE Formal!Choose(a[1], a)
  <2>1. standing' = standing
        BY <1>2, Standings, MapsAreFunctions DEF Marks
  <2>2. standing[a] # "none"
    <3>1. attempts[a].status \in Status \ {"none"}
          BY <1>2 DEF Marks, Exists, TypeInv, TypeOK, Attempt
    <3>2. Standing[attempts[a].status] # "none"
          BY <3>1 DEF Status, Standing
    <3> QED
        BY <3>2, Standings
  <2>3. \A b \in AttemptIds :
          attempts'[b].official <=> b = a \/ (attempts[b].official /\ b[1] # a[1])
        BY <1>2 DEF Marks
  <2>4. official'[a[1]] = a
        BY <1>1, <2>3 DEF OfficialShown, Siblings
  <2>5. ASSUME NEW d \in Coders, d # a[1] PROVE official'[d] = official[d]
        BY <2>3, <2>5, OfficialSame DEF Siblings
  <2>6. official' = [official EXCEPT ![a[1]] = a]
        BY <1>1, <2>4, <2>5, MapsAreFunctions
  <2> QED
      BY <1>1, <2>1, <2>2, <2>6 DEF Formal!Choose
<1>3. ASSUME Unmarks(a) PROVE Formal!Choose(a[1], NoAttempt) \/ UNCHANGED Formal!vars
  <2>1. standing' = standing
        BY <1>3, Standings, MapsAreFunctions DEF Unmarks
  <2>2. \A b \in AttemptIds : attempts'[b].official <=> attempts[b].official /\ b # a
        BY <1>3 DEF Unmarks
  <2>3. CASE attempts[a].official
\* The mark taken off was the record's only one.
    <3>1. \A b \in Siblings(a[1]) : ~attempts'[b].official
          BY <2>2, <2>3 DEF RecordInv, OneOfficial, Siblings
    <3>2. official'[a[1]] = NoAttempt
          BY <1>1, <3>1 DEF OfficialShown, NoneOfficial, Siblings
    <3>3. ASSUME NEW d \in Coders, d # a[1] PROVE official'[d] = official[d]
          BY <2>2, <3>3, OfficialSame DEF Siblings
    <3>4. official' = [official EXCEPT ![a[1]] = NoAttempt]
          BY <1>1, <3>2, <3>3, MapsAreFunctions
    <3> QED
        BY <2>1, <3>4 DEF Formal!Choose
  <2>4. CASE ~attempts[a].official
    <3>1. official' = official
          BY <2>2, <2>4, OfficialSame, MapsAreFunctions DEF Siblings
    <3> QED
        BY <2>1, <3>1 DEF Formal!vars
  <2> QED
      BY <2>3, <2>4
<1> QED
    BY <1>2, <1>3

LEMMA InitMaps == Init => Formal!Init
<1> SUFFICES ASSUME Init PROVE Formal!Init
    OBVIOUS
<1>1. standing = [a \in AttemptIds |-> "none"]
      BY DEF Init, standing, Standing, NoRow
<1>2. answers = [a \in AttemptIds |-> <<>>]
      BY DEF Init, answers
<1>3. \A c \in Coders : Flagged(c) = {}
      BY DEF Init, Flagged, Siblings, NoRow
<1>4. official = [c \in Coders |-> NoAttempt]
      BY <1>3 DEF official
<1> QED
    BY <1>1, <1>2, <1>4 DEF Formal!Init, Formal!Attempts, AttemptIds, Numbers

LEMMA StepMaps ==
  TypeInv /\ LockInv /\ RecordInv /\ RecordInv' /\ [Next]_vars => [Formal!Next]_(Formal!vars)
<1> SUFFICES ASSUME TypeInv, LockInv, RecordInv, RecordInv', [Next]_vars
             PROVE  Formal!Next \/ UNCHANGED Formal!vars
    OBVIOUS
<1>1. OfficialShown
      BY ShownBy DEF RecordInv
<1>2. OfficialShown'
  <2>1. OneOfficial'
        BY DEF RecordInv
  <2>2. OneOfficial' => OfficialShown'
        BY ShownBy, PTL
  <2> QED
      BY <2>1, <2>2
<1>3. Formal!Attempts = AttemptIds
      BY DEF Formal!Attempts, AttemptIds, Numbers
<1>4. ASSUME answers' = answers, Quiet \/ \E p \in Procs : Claims(p)
      PROVE  UNCHANGED Formal!vars
      BY <1>1, <1>2, <1>4, QuietMaps DEF Claims
<1>5. ASSUME answers' = answers, NEW c \in Coders, Opens(c) PROVE Formal!Next
      BY <1>1, <1>2, <1>5, OpensMaps DEF Formal!Next
<1>6. ASSUME answers' = answers, NEW a \in AttemptIds, Begins(a) PROVE Formal!Next
      BY <1>1, <1>2, <1>3, <1>6, BeginsMaps DEF Formal!Next
<1>7. ASSUME NEW p \in Procs, Closes(p), HandsIn(p) PROVE Formal!Next
  <2>1. req[p].att \in Formal!Attempts
        BY <1>3, <1>7, RequestsNamed DEF Closes, Holds
  <2> QED
      BY <1>1, <1>2, <1>7, <2>1, ClosesMaps DEF Formal!Next
<1>8. ASSUME answers' = answers, NEW r \in Procs, NEW n \in 1..(MaxAttempts - 1), Resets(r, n)
      PROVE  Formal!Next
      BY <1>1, <1>2, <1>8, ResetsMaps DEF Formal!Next
<1>9. ASSUME answers' = answers, NEW a \in AttemptIds, Marks(a) \/ Unmarks(a)
      PROVE  Formal!Next \/ UNCHANGED Formal!vars
      BY <1>1, <1>2, <1>3, <1>9, MarksMaps, Ids DEF Formal!Next
<1>10. StepKinds
      BY EveryStepIsAKind
<1> QED
    BY <1>4, <1>5, <1>6, <1>7, <1>8, <1>9, <1>10 DEF StepKinds

\* Handlers of two steps, row locks and all, keep the promise a Coder is made
\* (FormalAttempt), where resets of one record do not overlap: to the Coders it
\* is as if one request at a time were served.
THEOREM FormalAttemptKept == SafeSpec /\ []ResetsApart => KeepsFormalAttempt
<1> QED
    BY InitTypeInv, TypeInvNext, InitLockInv, LockInvNext, InitRecordInv, RecordInvNext,
       InitMaps, StepMaps, PTL DEF SafeSpec, KeepsFormalAttempt, Formal!Spec

-------------------------------------------------------------------------------
(* What was handed in is never replaced, taken back or added to: not by a      *)
(* second closer, not by a reset, not by a dispatch that fails.                *)

AnswersAreFinal ==
  [][\A a \in AttemptIds : answers[a] # <<>> => answers'[a] = answers[a]]_vars

\* The sourceCode of a Submission is written once, by the close (attempts.ts), and every
\* later status of its Submission and of the attempt leaves it alone.
THEOREM HandedInForGood == SafeSpec => AnswersAreFinal
<1>1. TypeInv /\ LockInv /\ [Next]_vars =>
        [\A a \in AttemptIds : answers[a] # <<>> => answers'[a] = answers[a]]_vars
  <2> SUFFICES ASSUME TypeInv, LockInv, [Next]_vars, NEW a \in AttemptIds, answers[a] # <<>>
               PROVE  answers'[a] = answers[a]
      OBVIOUS
  <2>1. ASSUME NEW p \in Procs, Closes(p), HandsIn(p) PROVE answers'[a] = answers[a]
    <3> DEFINE d == req[p].att
    <3>1. /\ d \in AttemptIds /\ answers[d] = <<>>
          /\ answers' = IF HasCode(req[p]) THEN [answers EXCEPT ![d] = <<req[p].source>>]
                        ELSE answers
          BY <2>1, AnswerStored DEF Closes
    <3>2. a # d
          BY <3>1
    <3> QED
        BY <3>1, <3>2, MapsAreFunctions
  <2>2. StepKinds
        BY EveryStepIsAKind
  <2> QED
      BY <2>1, <2>2 DEF StepKinds
<1> QED
    BY <1>1, InitTypeInv, TypeInvNext, InitLockInv, LockInvNext, PTL
       DEF SafeSpec, AnswersAreFinal
===============================================================================
