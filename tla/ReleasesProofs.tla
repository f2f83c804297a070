--------------------------- MODULE ReleasesProofs ---------------------------
(***************************************************************************)
(* Proofs about Releases, for any number of deployments, clients and       *)
(* images and any bound on the revisions.                                  *)
(***************************************************************************)
EXTENDS Releases, TLAPS

-----------------------------------------------------------------------------
(* The maximum of an initial segment *)

\* max(revision) of revisions numbered from 1 without gaps is their number.
LEMMA MaxOfSegment == ASSUME NEW n \in 0 .. MaxRevision PROVE MaxOf(1 .. n) = n
<1> DEFINE IsMax(k) == k \in (1 .. n) \union {0} /\ \A m \in 1 .. n : m <= k
<1>1. n \in Nat /\ MaxRevision \in Nat
  BY ReleasesAssumption
<1>2. IsMax(n)
  BY <1>1
<1>3. \A k \in 0 .. MaxRevision : IsMax(k) => k = n
  BY <1>1
<1>4. MaxOf(1 .. n) = CHOOSE k \in 0 .. MaxRevision : IsMax(k)
  BY DEF MaxOf
<1> HIDE DEF IsMax
<1> QED
  BY <1>2, <1>3, <1>4

\* Without its newest revision a log without gaps is still one.
LEMMA SegmentWithoutItsEnd ==
    ASSUME NEW n \in Nat \ {0} PROVE (1 .. n) \ {n} = 1 .. (n - 1)
  OBVIOUS

-----------------------------------------------------------------------------
(* Type correctness *)

\* The revisions of a deployment are numbered from 1 without gaps.
Contiguous == \A d \in Deployment : \E n \in 0 .. MaxRevision : Saved(d) = 1 .. n

\* A call that works on a deployment names one, what it is about to save is an
\* image, and the number it was given is at most one past the last.
JobFits(step, j) ==
    /\ step \notin {"idle", "plan.app", "plan.insert"} => j.dep \in Deployment
    /\ step \in {"save.app", "save.max", "save.insert"} => j.img \in Image
    /\ step = "save.insert" => /\ j.next \in Revision
                               /\ j.next - 1 \in Saved(j.dep) \union {0}
JobsFit == \A c \in Client : JobFits(pc[c], job[c])

\* What holds of the rows and the calls whatever they interleave with.
Sound == TypeOK /\ Contiguous /\ JobsFit

\* The part of TypeOK about the rows.
RowsAreTyped ==
    /\ live \in BOOLEAN
    /\ hasSpec \in BOOLEAN
    /\ state \in [Deployment -> {"none", "AWAITING_APPROVAL", "PLANNED"}]
    /\ expired \subseteq Deployment
    /\ newest \in Deployment \union {0}
    /\ image \in [Deployment -> [Revision -> Image \union {NoImage}]]
    /\ sent \subseteq Deployment

\* A row of deployment_revisions holds an image.
LEMMA SavedAreImages ==
    ASSUME TypeOK, NEW d \in Deployment, NEW n \in Saved(d)
    PROVE  n \in Revision /\ image[d][n] \in Image
<1>1. n \in Revision /\ image[d][n] # NoImage
  BY DEF Saved
<1>2. image[d] \in [Revision -> Image \union {NoImage}]
  BY DEF TypeOK
<1> QED
  BY <1>1, <1>2

\* The newest revision of a deployment with n revisions is n.
LEMMA SegmentEnds ==
    ASSUME TypeOK, NEW d \in Deployment, NEW n \in 0 .. MaxRevision, Saved(d) = 1 .. n
    PROVE  Newest(d) = n
  BY MaxOfSegment DEF Newest

\* A call that goes on, and leaves the revisions as they are.
LEMMA ProceedIsSound ==
    ASSUME Sound, NEW c \in Client, NEW step \in Steps, NEW j \in Jobs,
           Proceed(c, step, j), JobFits(step, j), RowsAreTyped', UNCHANGED image
    PROVE  Sound'
<1>1. TypeOK'
  BY DEF Sound, TypeOK, RowsAreTyped, Proceed, Goto, NoAnswer, Answer, Answers, Replies
<1> QED
  BY <1>1 DEF Sound, TypeOK, Contiguous, JobsFit, JobFits, Saved, Proceed, Goto

\* A call that ends, and leaves the revisions as they are.
LEMMA ReturnIsSound ==
    ASSUME Sound, NEW c \in Client, NEW answer \in Replies, Return(c, answer),
           RowsAreTyped', UNCHANGED image
    PROVE  Sound'
<1>1. TypeOK'
  BY DEF Sound, TypeOK, RowsAreTyped, Return, Goto, NoJob, Jobs, Ways, Steps
<1> QED
  BY <1>1 DEF Sound, TypeOK, Contiguous, JobsFit, JobFits, Saved, Return, Goto

\* A call that ends with a bare answer, and leaves the revisions as they are.
LEMMA EndIsSound ==
    ASSUME Sound, NEW c \in Client, NEW what \in Answers, End(c, what),
           RowsAreTyped', UNCHANGED image
    PROVE  Sound'
<1>1. Answer(what, 0, 0, 0) \in Replies
  BY DEF Answer, Replies
<1> QED
  BY <1>1, ReturnIsSound DEF End

\* The second-newest revision exists if any but the newest does.
LEMMA SecondIsSaved ==
    ASSUME Sound, NEW d \in Deployment, Saved(d) \ {Newest(d)} # {}
    PROVE  SecondNewest(d) \in Saved(d) /\ SecondNewest(d) + 1 \in Saved(d)
<1>1. PICK n \in 0 .. MaxRevision : Saved(d) = 1 .. n
  BY DEF Sound, Contiguous
<1>2. Newest(d) = n
  BY <1>1, SegmentEnds DEF Sound
<1>3. n \in Nat /\ n >= 2 /\ n - 1 \in 0 .. MaxRevision
  BY <1>1, <1>2, ReleasesAssumption
<1>4. Saved(d) \ {Newest(d)} = 1 .. (n - 1)
  BY <1>1, <1>2, <1>3, SegmentWithoutItsEnd
<1>5. SecondNewest(d) = n - 1
  BY <1>3, <1>4, MaxOfSegment DEF SecondNewest
<1> QED
  BY <1>1, <1>3, <1>5

\* The number SaveRevision was given is the next one, if it is still free.
LEMMA FreeIsNext ==
    ASSUME Sound, NEW c \in Client, At(c, "save.insert"),
           image[job[c].dep][job[c].next] = NoImage
    PROVE  /\ job[c].dep \in Deployment
           /\ job[c].next \in Revision
           /\ Saved(job[c].dep) = 1 .. (job[c].next - 1)
<1> DEFINE d == job[c].dep
           n == job[c].next
<1>1. d \in Deployment /\ n \in Revision /\ n - 1 \in Saved(d) \union {0}
  BY DEF Sound, JobsFit, JobFits, At
<1>2. PICK k \in 0 .. MaxRevision : Saved(d) = 1 .. k
  BY <1>1 DEF Sound, Contiguous
<1>3. n \notin Saved(d)
  BY DEF Saved
<1>4. k = n - 1
  BY <1>1, <1>2, <1>3, ReleasesAssumption DEF Revision
<1> QED
  BY <1>1, <1>2, <1>4

\* SaveRevision's INSERT, when it succeeds, appends to the log of its deployment.
LEMMA InsertAppends ==
    ASSUME Sound, NEW c \in Client, SaveInsert(c),
           image[job[c].dep][job[c].next] = NoImage
    PROVE  \E d \in Deployment, n \in Revision :
             /\ d = job[c].dep /\ n = job[c].next
             /\ job[c].img \in Image
             /\ Saved(d) = 1 .. (n - 1)
             /\ image' = [image EXCEPT ![d][n] = job[c].img]
             /\ \A e \in Deployment : Saved(e)' = IF e = d THEN 1 .. n ELSE Saved(e)
<1>1. PICK d \in Deployment, n \in Revision :
        d = job[c].dep /\ n = job[c].next /\ Saved(d) = 1 .. (n - 1)
  BY FreeIsNext DEF SaveInsert
<1>2. job[c].img \in Image /\ job[c].img # NoImage
  BY ReleasesAssumption DEF Sound, JobsFit, JobFits, SaveInsert, At
<1>3. image' = [image EXCEPT ![d][n] = job[c].img]
  BY <1>1 DEF SaveInsert
<1>4. \A e \in Deployment : Saved(e)' = IF e = d THEN Saved(e) \union {n} ELSE Saved(e)
  <2>1. \A e \in Deployment, m \in Revision :
          image'[e][m] = IF e = d /\ m = n THEN job[c].img ELSE image[e][m]
    BY <1>3 DEF Sound, TypeOK
  <2> QED
    BY <2>1, <1>2 DEF Saved
<1>5. (1 .. (n - 1)) \union {n} = 1 .. n
  BY ReleasesAssumption DEF Revision
<1>6. \A e \in Deployment : Saved(e)' = IF e = d THEN 1 .. n ELSE Saved(e)
  BY <1>1, <1>4, <1>5
<1> QED
  BY <1>1, <1>2, <1>3, <1>6, Zenon

\* SaveRevision's INSERT, refused or not, leaves no gap.
LEMMA SaveInsertIsSound == ASSUME Sound, NEW c \in Client, SaveInsert(c) PROVE Sound'
<1> USE ReleasesAssumption DEF Answers
<1>1. CASE image[job[c].dep][job[c].next] # NoImage
  <2>1. RowsAreTyped' /\ UNCHANGED image /\ End(c, "INTERNAL")
    BY <1>1 DEF SaveInsert, app, plans, RowsAreTyped, Sound, TypeOK
  <2> QED
    BY <2>1, EndIsSound
<1>2. CASE image[job[c].dep][job[c].next] = NoImage
  <2>1. PICK d \in Deployment, n \in Revision :
          /\ d = job[c].dep /\ n = job[c].next
          /\ job[c].img \in Image
          /\ image' = [image EXCEPT ![d][n] = job[c].img]
          /\ \A e \in Deployment : Saved(e)' = IF e = d THEN 1 .. n ELSE Saved(e)
          /\ Saved(d) = 1 .. (n - 1)
    BY <1>2, InsertAppends
  <2>2. job[c] \in Jobs
    BY DEF Sound, TypeOK
  <2>3. n \in 0 .. MaxRevision
    BY <2>1 DEF Revision
  <2>4. Contiguous'
    BY <2>1, <2>3 DEF Contiguous, Sound
  <2>5. PICK answer \in Replies : Return(c, answer)
    BY <1>2, <2>1, <2>2 DEF SaveInsert, End, Answer, Replies, Jobs
  <2>6. TypeOK'
    BY <2>1, <2>5
       DEF SaveInsert, Return, Goto, app, plans, Sound, TypeOK, NoJob, Jobs, Ways, Steps
  <2>7. \A e \in Deployment : \A m \in Saved(e) \union {0} : m \in Saved(e)' \union {0}
    BY <2>1 DEF Revision
  <2>8. JobsFit'
    <3>1. pc'[c] = "idle" /\ \A o \in Client \ {c} : pc'[o] = pc[o] /\ job'[o] = job[o]
      BY <2>5 DEF Return, Goto, Sound, TypeOK
    <3>2. JobFits(pc[c], job[c])'
      BY <3>1 DEF JobFits
    <3>3. ASSUME NEW o \in Client \ {c} PROVE JobFits(pc[o], job[o])'
      <4>1. JobFits(pc[o], job[o]) /\ pc'[o] = pc[o] /\ job'[o] = job[o]
        BY <3>1 DEF Sound, JobsFit
      <4> QED
        BY <4>1, <2>7 DEF JobFits
    <3> QED
      BY <3>1, <3>2, <3>3 DEF JobsFit
  <2> QED
    BY <2>4, <2>6, <2>8 DEF Sound
<1> QED
  BY <1>1, <1>2

\* Type correctness of the rows and the calls, and that the revisions of a
\* deployment have no gaps (SaveRevision's max + 1 under the UNIQUE constraint).
THEOREM Typing == Spec => []Sound
<1> USE ReleasesAssumption
<1> NoJob \in Jobs /\ NoAnswer \in Replies
  BY DEF NoJob, Jobs, Ways, NoAnswer, Answer, Answers, Replies
<1>1. Init => Sound
  <2> SUFFICES ASSUME Init PROVE Sound
    OBVIOUS
  <2>1. TypeOK
    BY DEF Init, TypeOK, Steps
  <2>2. \A d \in Deployment : Saved(d) = {}
    BY DEF Init, Saved
  <2>3. 0 \in 0 .. MaxRevision /\ 1 .. 0 = {}
    OBVIOUS
  <2>4. Contiguous
    BY <2>2, <2>3 DEF Contiguous
  <2>5. JobsFit
    BY DEF Init, JobsFit, JobFits
  <2> QED
    BY <2>1, <2>4, <2>5 DEF Sound
<1>2. Sound /\ [Next]_vars => Sound'
  <2> SUFFICES ASSUME Sound, [Next]_vars PROVE Sound'
    OBVIOUS
  <2>r. UNCHANGED rows => RowsAreTyped' /\ UNCHANGED image
    BY DEF rows, app, plans, RowsAreTyped, Sound, TypeOK
  <2>j. \A c \in Client : job[c] \in Jobs /\ JobFits(pc[c], job[c])
    BY DEF Sound, TypeOK, JobsFit
  <2> USE DEF Steps, Answers, Idle, At
  <2>1. ASSUME NEW c \in Client, PlanSelect(c) PROVE Sound'
    BY <2>1, <2>r, ProceedIsSound, EndIsSound DEF PlanSelect, JobFits
  <2>2. ASSUME NEW c \in Client, PlanEnsure(c) PROVE Sound'
    BY <2>2, <2>r, ProceedIsSound, EndIsSound DEF PlanEnsure, JobFits
  <2>3. ASSUME NEW c \in Client, PlanInsert(c) PROVE Sound'
    <3>1. RowsAreTyped' /\ UNCHANGED image /\ End(c, "planned")
      BY <2>3 DEF PlanInsert, app, RowsAreTyped, Sound, TypeOK
    <3> QED
      BY <3>1, EndIsSound
  <2>4. ASSUME NEW c \in Client, NEW d \in Deployment, NEW way \in Ways,
               DeploySelect(c, d, way)
        PROVE  Sound'
    <3> DEFINE j == [NoJob EXCEPT !.dep = d, !.way = way]
    <3>1. j \in Jobs /\ JobFits("approve", j)
      BY DEF Jobs, JobFits, NoJob
    <3> QED
      BY <2>4, <2>r, <3>1, ProceedIsSound, EndIsSound DEF DeploySelect
  <2>5. ASSUME NEW c \in Client, DeployUpdate(c) PROVE Sound'
    <3>1. RowsAreTyped' /\ UNCHANGED image /\ Proceed(c, "bridge.app", job[c])
      BY <2>5 DEF DeployUpdate, app, RowsAreTyped, Sound, TypeOK
    <3>2. JobFits("bridge.app", job[c])
      BY <2>5, <2>j DEF DeployUpdate, JobFits
    <3> QED
      BY <3>1, <3>2, <2>j, ProceedIsSound
  <2>6. ASSUME NEW c \in Client, BridgeGetApp(c) PROVE Sound'
    BY <2>6, <2>r, <2>j, ProceedIsSound, EndIsSound DEF BridgeGetApp, JobFits
  <2>7. ASSUME NEW c \in Client, BridgeApply(c) PROVE Sound'
    <3> DEFINE answer == Answer("accepted", job[c].dep, 0, 0)
    <3>1. job[c].dep \in Deployment /\ answer \in Replies
      BY <2>7, <2>j DEF BridgeApply, JobFits, Answer, Replies
    <3>2. RowsAreTyped' /\ UNCHANGED image /\ Return(c, answer)
      BY <2>7, <3>1 DEF BridgeApply, app, plans, RowsAreTyped, Sound, TypeOK
    <3> QED
      BY <3>1, <3>2, ReturnIsSound
  <2>8. ASSUME NEW c \in Client, RollbackSelect(c) PROVE Sound'
    <3>1. ASSUME NEW d \in Deployment
          PROVE  [NoJob EXCEPT !.dep = d] \in Jobs
                   /\ JobFits("rollback.target", [NoJob EXCEPT !.dep = d])
      BY DEF Jobs, JobFits, NoJob
    <3> QED
      BY <2>8, <2>r, <3>1, ProceedIsSound, EndIsSound DEF RollbackSelect, Made
  <2>9. ASSUME NEW c \in Client, RollbackTarget(c) PROVE Sound'
    <3> DEFINE d == job[c].dep
               j == [job[c] EXCEPT !.to = SecondNewest(d), !.img = image[d][SecondNewest(d)]]
    <3>1. d \in Deployment
      BY <2>9, <2>j DEF RollbackTarget, JobFits
    <3>2. CASE Saved(d) \ {Newest(d)} = {}
      BY <2>9, <2>r, <3>2, EndIsSound DEF RollbackTarget
    <3>3. CASE Saved(d) \ {Newest(d)} # {}
      <4>1. SecondNewest(d) \in Saved(d)
        BY <3>1, <3>3, SecondIsSaved DEF Sound
      <4>2. SecondNewest(d) \in Revision /\ image[d][SecondNewest(d)] \in Image
        BY <4>1, <3>1, SavedAreImages DEF Sound
      <4>4. j \in Jobs
        BY <4>2, <2>j DEF Jobs
      <4>5. j.dep = d /\ j.img = image[d][SecondNewest(d)]
        BY <2>j DEF Jobs
      <4>6. JobFits("save.app", j)
        BY <4>2, <4>5, <3>1 DEF JobFits
      <4>3. Proceed(c, "save.app", j) /\ UNCHANGED rows
        BY <2>9, <3>3 DEF RollbackTarget
      <4> QED
        BY <4>3, <4>4, <4>6, <2>r, ProceedIsSound
    <3> QED
      BY <3>2, <3>3
  <2>10. ASSUME NEW c \in Client, NEW d \in Deployment, NEW i \in Image,
                SaveRelease(c, d, i)
         PROVE  Sound'
    <3> DEFINE j == [NoJob EXCEPT !.dep = d, !.img = i]
    <3>1. j \in Jobs /\ JobFits("save.max", j)
      BY DEF Jobs, JobFits, NoJob
    <3> QED
      BY <2>10, <2>r, <3>1, ProceedIsSound, EndIsSound DEF SaveRelease
  <2>11. ASSUME NEW c \in Client, SaveGetApp(c) PROVE Sound'
    BY <2>11, <2>r, <2>j, ProceedIsSound, EndIsSound DEF SaveGetApp, JobFits
  <2>12. ASSUME NEW c \in Client, SaveMax(c) PROVE Sound'
    <3> DEFINE n == Newest(job[c].dep)
               j == [job[c] EXCEPT !.next = n + 1]
    <3>1. job[c].dep \in Deployment /\ job[c].img \in Image
      BY <2>12, <2>j DEF SaveMax, JobFits
    <3>2. PICK k \in 0 .. MaxRevision : Saved(job[c].dep) = 1 .. k
      BY <3>1 DEF Sound, Contiguous
    <3>3. n = k
      BY <3>1, <3>2, SegmentEnds DEF Sound
    <3>4. CASE n < MaxRevision
      <4>1. j \in Jobs /\ JobFits("save.insert", j)
        BY <3>1, <3>2, <3>3, <3>4, <2>j DEF Jobs, JobFits, Revision
      <4> QED
        BY <2>12, <3>4, <4>1, <2>r, ProceedIsSound DEF SaveMax
    <3> QED
      BY <2>12, <3>4, <2>r, EndIsSound DEF SaveMax
  <2>13. ASSUME NEW c \in Client, SaveInsert(c) PROVE Sound'
    BY <2>13, SaveInsertIsSound
  <2>14. ASSUME NEW c \in Client, Fails(c) PROVE Sound'
    BY <2>14, <2>r, EndIsSound DEF Fails
  <2>15. ASSUME Delete \/ PutSpec \/ (\E d \in Deployment : Expire(d)) \/ UNCHANGED vars
         PROVE  Sound'
    <3>1. TypeOK'
      BY <2>15 DEF Delete, PutSpec, Expire, vars, app, plans, Sound, TypeOK, Made
    <3>2. UNCHANGED <<image, pc, job>>
      BY <2>15 DEF Delete, PutSpec, Expire, vars
    <3>3. Contiguous'
      BY <3>2 DEF Sound, Contiguous, Saved
    <3>4. JobsFit'
      BY <3>2 DEF Sound, JobsFit, JobFits, Saved
    <3> QED
      BY <3>1, <3>3, <3>4 DEF Sound
  <2> QED
    BY <2>1, <2>2, <2>3, <2>4, <2>5, <2>6, <2>7, <2>8, <2>9, <2>10, <2>11, <2>12, <2>13,
       <2>14, <2>15 DEF Next, Continue
<1> QED
  BY <1>1, <1>2, PTL DEF Spec

\* The rows and the local variables of the calls keep their types; a row holds
\* PLANNED or AWAITING_APPROVAL, never the CREATED of the schema's default.
COROLLARY TypeCorrect == Spec => []TypeOK
<1>1. Sound => TypeOK
  BY DEF Sound
<1> QED
  BY <1>1, Typing, PTL

-----------------------------------------------------------------------------
(* What a call knows stays true while others run *)

\* Approvals and revisions are never taken back.
RowsGrow ==
    \A d \in Deployment :
        /\ state[d] = "PLANNED" => state'[d] = "PLANNED"
        /\ \A n \in Saved(d) : n \in Saved(d)' /\ image'[d][n] = image[d][n]

\* No statement takes an approval or a revision back.
LEMMA StepsGrow == Sound /\ [Next]_vars => RowsGrow
<1> SUFFICES ASSUME Sound, [Next]_vars PROVE RowsGrow
  OBVIOUS
<1>1. ASSUME UNCHANGED <<state, image>> PROVE RowsGrow
  BY <1>1 DEF RowsGrow, Saved
<1>2. ASSUME NEW c \in Client, PlanInsert(c) PROVE RowsGrow
  BY <1>2 DEF PlanInsert, RowsGrow, Saved, Made, Sound, TypeOK
<1>3. ASSUME NEW c \in Client, DeployUpdate(c) PROVE RowsGrow
  BY <1>3 DEF DeployUpdate, RowsGrow, Saved, Sound, TypeOK
<1>4. ASSUME NEW c \in Client, SaveInsert(c) PROVE RowsGrow
  <2>1. CASE image[job[c].dep][job[c].next] # NoImage
    BY <1>4, <2>1, <1>1 DEF SaveInsert, plans
  <2>2. CASE image[job[c].dep][job[c].next] = NoImage
    <3>1. PICK d \in Deployment, n \in Revision :
            /\ image' = [image EXCEPT ![d][n] = job[c].img]
            /\ \A e \in Deployment : Saved(e)' = IF e = d THEN 1 .. n ELSE Saved(e)
            /\ Saved(d) = 1 .. (n - 1)
      BY <1>4, <2>2, InsertAppends
    <3>2. \A e \in Deployment : \A m \in Saved(e) : m \in Saved(e)'
      BY <3>1, ReleasesAssumption DEF Revision
    <3>3. n \notin Saved(d)
      BY <3>1, ReleasesAssumption DEF Revision
    <3>4. \A e \in Deployment : \A m \in Saved(e) : image'[e][m] = image[e][m]
      BY <3>1, <3>3 DEF Sound, TypeOK, Saved
    <3>5. UNCHANGED state
      BY <1>4 DEF SaveInsert, plans
    <3> QED
      BY <3>2, <3>4, <3>5 DEF RowsGrow
  <2> QED
    BY <2>1, <2>2
<1>5. UNCHANGED <<state, image>>
        \/ \E c \in Client : PlanInsert(c) \/ DeployUpdate(c) \/ SaveInsert(c)
  <2>1. ASSUME NEW c \in Client,
               \/ PlanEnsure(c) \/ BridgeGetApp(c) \/ BridgeApply(c)
               \/ RollbackTarget(c) \/ SaveGetApp(c) \/ SaveMax(c)
        PROVE  UNCHANGED <<state, image>>
    BY <2>1 DEF PlanEnsure, BridgeGetApp, BridgeApply, RollbackTarget, SaveGetApp, SaveMax,
                rows, plans
  <2>2. (\E c \in Client : Continue(c)) =>
            \/ UNCHANGED <<state, image>>
            \/ \E c \in Client : PlanInsert(c) \/ DeployUpdate(c) \/ SaveInsert(c)
    BY <2>1 DEF Continue
  <2> QED
    BY <2>2 DEF Next, vars, PlanSelect, RollbackSelect, Fails, DeploySelect, SaveRelease,
                Delete, PutSpec, Expire, rows, plans
<1> QED
  BY <1>1, <1>2, <1>3, <1>4, <1>5

\* A running call has not answered; one that is at the bridge has an approved
\* plan; one that rolls back carries a copy of a revision that is not the last.
Knows(c) ==
    /\ pc[c] # "idle" => reply[c] = NoAnswer
    /\ pc[c] \in {"bridge.app", "bridge.apply"} => state[job[c].dep] = "PLANNED"
    /\ pc[c] \in {"save.app", "save.max", "save.insert"} /\ job[c].to # 0 =>
         /\ job[c].to \in Saved(job[c].dep)
         /\ job[c].to + 1 \in Saved(job[c].dep)
         /\ image[job[c].dep][job[c].to] = job[c].img
CallsKnow == \A c \in Client : Knows(c)

\* The calls other than c's know what they knew.
LEMMA OthersKnow ==
    ASSUME Sound, CallsKnow, RowsGrow, NEW c \in Client, NEW q \in Client, q # c,
           pc'[q] = pc[q], job'[q] = job[q], reply'[q] = reply[q]
    PROVE  Knows(q)'
<1>1. JobFits(pc[q], job[q]) /\ Knows(q)
  BY DEF Sound, JobsFit, CallsKnow
<1> QED
  BY <1>1 DEF Knows, JobFits, RowsGrow

\* A call that goes on with what it is to know.
LEMMA ProceedKnows ==
    ASSUME Sound, CallsKnow, RowsGrow, NEW c \in Client, NEW step, NEW j,
           Proceed(c, step, j),
           step \in {"bridge.app", "bridge.apply"} => state'[j.dep] = "PLANNED",
           step \in {"save.app", "save.max", "save.insert"} /\ j.to # 0 =>
             /\ j.to \in Saved(j.dep)'
             /\ j.to + 1 \in Saved(j.dep)'
             /\ image'[j.dep][j.to] = j.img
    PROVE  CallsKnow'
<1>1. pc'[c] = step /\ job'[c] = j /\ reply'[c] = NoAnswer
  BY DEF Proceed, Goto, Sound, TypeOK
<1>2. Knows(c)'
  BY <1>1 DEF Knows, Saved
<1>3. \A q \in Client \ {c} : pc'[q] = pc[q] /\ job'[q] = job[q] /\ reply'[q] = reply[q]
  BY DEF Proceed, Goto, Sound, TypeOK
<1> QED
  BY <1>2, <1>3, OthersKnow DEF CallsKnow

\* A call that ends knows nothing.
LEMMA ReturnKnows ==
    ASSUME Sound, CallsKnow, RowsGrow, NEW c \in Client, NEW answer, Return(c, answer)
    PROVE  CallsKnow'
<1>1. pc'[c] = "idle"
  BY DEF Return, Goto, Sound, TypeOK
<1>2. Knows(c)'
  BY <1>1 DEF Knows
<1>3. \A q \in Client \ {c} : pc'[q] = pc[q] /\ job'[q] = job[q] /\ reply'[q] = reply[q]
  BY DEF Return, Goto, Sound, TypeOK
<1> QED
  BY <1>2, <1>3, OthersKnow DEF CallsKnow

\* No statement, of any call, falsifies what a call knows.
LEMMA StepKnows == Sound /\ CallsKnow /\ [Next]_vars => CallsKnow'
<1> SUFFICES ASSUME Sound, CallsKnow, [Next]_vars PROVE CallsKnow'
  OBVIOUS
<1>g. RowsGrow
  BY StepsGrow
<1>j. \A c \in Client : job[c] \in Jobs /\ JobFits(pc[c], job[c]) /\ Knows(c)
  BY DEF Sound, TypeOK, JobsFit, CallsKnow
<1>e. ASSUME NEW c \in Client, NEW what, End(c, what) PROVE CallsKnow'
  BY <1>e, <1>g, ReturnKnows DEF End
<1> USE DEF At
<1>1. ASSUME NEW c \in Client, PlanSelect(c) PROVE CallsKnow'
  BY <1>1, <1>e, <1>g, ProceedKnows DEF PlanSelect
<1>2. ASSUME NEW c \in Client, PlanEnsure(c) PROVE CallsKnow'
  BY <1>2, <1>e, <1>g, ProceedKnows DEF PlanEnsure
<1>3. ASSUME NEW c \in Client, PlanInsert(c) PROVE CallsKnow'
  BY <1>3, <1>e DEF PlanInsert
<1>4. ASSUME NEW c \in Client, NEW d \in Deployment, NEW way \in Ways,
             DeploySelect(c, d, way)
      PROVE  CallsKnow'
  BY <1>4, <1>e, <1>g, ProceedKnows DEF DeploySelect
<1>5. ASSUME NEW c \in Client, DeployUpdate(c) PROVE CallsKnow'
  <2>1. job[c].dep \in Deployment
    BY <1>5, <1>j DEF DeployUpdate, JobFits
  <2>2. state'[job[c].dep] = "PLANNED" /\ Proceed(c, "bridge.app", job[c])
    BY <1>5, <2>1 DEF DeployUpdate, Sound, TypeOK
  <2> QED
    BY <2>2, <1>g, ProceedKnows
<1>6. ASSUME NEW c \in Client, BridgeGetApp(c) PROVE CallsKnow'
  <2>1. state'[job[c].dep] = "PLANNED"
    BY <1>6, <1>j DEF BridgeGetApp, Knows, rows, plans
  <2> QED
    BY <1>6, <2>1, <1>e, <1>g, ProceedKnows DEF BridgeGetApp
<1>7. ASSUME NEW c \in Client, BridgeApply(c) PROVE CallsKnow'
  BY <1>7, <1>g, ReturnKnows DEF BridgeApply
<1>8. ASSUME NEW c \in Client, RollbackSelect(c) PROVE CallsKnow'
  BY <1>8, <1>e, <1>g, ProceedKnows DEF RollbackSelect
<1>9. ASSUME NEW c \in Client, RollbackTarget(c) PROVE CallsKnow'
  <2>1. PICK d \in Deployment : d = job[c].dep
    BY <1>9, <1>j DEF RollbackTarget, JobFits
  <2>2. CASE Saved(d) \ {Newest(d)} = {}
    BY <1>9, <2>1, <2>2, <1>e DEF RollbackTarget
  <2>3. CASE Saved(d) \ {Newest(d)} # {}
    <3>1. PICK n : n = SecondNewest(d)
      OBVIOUS
    <3>2. n \in Saved(d) /\ n + 1 \in Saved(d)
      BY <2>3, <3>1, SecondIsSaved
    <3>3. PICK j : j = [job[c] EXCEPT !.to = n, !.img = image[d][n]]
      OBVIOUS
    <3>4. j.dep = d /\ j.to = n /\ j.img = image[d][n]
      BY <2>1, <3>3, <1>j DEF Jobs
    <3>5. Proceed(c, "save.app", j) /\ image' = image
      BY <1>9, <2>1, <2>3, <3>1, <3>3 DEF RollbackTarget, rows
    <3>6. n \in Saved(d)' /\ n + 1 \in Saved(d)' /\ image'[d][n] = image[d][n]
      BY <3>2, <3>5 DEF Saved
    <3> QED
      BY <3>4, <3>5, <3>6, <1>g, ProceedKnows
  <2> QED
    BY <2>2, <2>3
<1>10. ASSUME NEW c \in Client, NEW d \in Deployment, NEW i \in Image, SaveRelease(c, d, i)
       PROVE  CallsKnow'
  <2> DEFINE j == [NoJob EXCEPT !.dep = d, !.img = i]
  <2>1. j.to = 0
    BY DEF NoJob
  <2> QED
    BY <1>10, <2>1, <1>e, <1>g, ProceedKnows DEF SaveRelease
<1>11. ASSUME NEW c \in Client, SaveGetApp(c) PROVE CallsKnow'
  <2>1. PICK j : j = job[c]
    OBVIOUS
  <2>2. j.to # 0 => j.to \in Saved(j.dep)' /\ j.to + 1 \in Saved(j.dep)'
                      /\ image'[j.dep][j.to] = j.img
    BY <1>11, <2>1, <1>j DEF SaveGetApp, Knows, rows, Saved
  <2> QED
    BY <1>11, <2>1, <2>2, <1>e, <1>g, ProceedKnows DEF SaveGetApp
<1>12. ASSUME NEW c \in Client, SaveMax(c) PROVE CallsKnow'
  <2>1. PICK j : j = [job[c] EXCEPT !.next = Newest(job[c].dep) + 1]
    OBVIOUS
  <2>2. j.dep = job[c].dep /\ j.to = job[c].to /\ j.img = job[c].img
    BY <2>1, <1>j DEF Jobs
  <2>3. j.to # 0 => j.to \in Saved(j.dep)' /\ j.to + 1 \in Saved(j.dep)'
                      /\ image'[j.dep][j.to] = j.img
    BY <1>12, <2>2, <1>j DEF SaveMax, Knows, rows, Saved
  <2> QED
    BY <1>12, <2>1, <2>3, <1>e, <1>g, ProceedKnows DEF SaveMax
<1>13. ASSUME NEW c \in Client, SaveInsert(c) PROVE CallsKnow'
  BY <1>13, <1>e, <1>g, ReturnKnows DEF SaveInsert
<1>14. ASSUME NEW c \in Client, Fails(c) PROVE CallsKnow'
  BY <1>14, <1>e DEF Fails
<1>15. ASSUME Delete \/ PutSpec \/ (\E d \in Deployment : Expire(d)) \/ UNCHANGED vars
       PROVE  CallsKnow'
  BY <1>15 DEF Delete, PutSpec, Expire, vars, plans, CallsKnow, Knows, Saved
<1> QED
  BY <1>1, <1>2, <1>3, <1>4, <1>5, <1>6, <1>7, <1>8, <1>9, <1>10, <1>11, <1>12, <1>13,
     <1>14, <1>15 DEF Next, Continue

\* What a call has read before an interleaving still holds when it uses it: a
\* plan approved stays approved, the copy a rollback carries stays that of an
\* entry below the end (ApprovePlan, RollbackTarget, SaveRevision).
THEOREM Knowing == Spec => []CallsKnow
<1>1. Init => CallsKnow
  BY DEF Init, CallsKnow, Knows
<1> QED
  BY <1>1, StepKnows, Typing, PTL DEF Spec

-----------------------------------------------------------------------------
(* Nothing is sent before it is approved *)

\* Nothing reaches the cluster before the plan it comes from is approved, and
\* what is approved stays so (handleDeploy: ApprovePlan, then the bridge).
THEOREM ApprovedFirst == Spec => []OnlyApprovedIsSent
<1>1. Init => OnlyApprovedIsSent
  BY DEF Init, OnlyApprovedIsSent
<1>2. Sound /\ CallsKnow /\ OnlyApprovedIsSent /\ [Next]_vars => OnlyApprovedIsSent'
  <2> SUFFICES ASSUME Sound, CallsKnow, OnlyApprovedIsSent, [Next]_vars
               PROVE  OnlyApprovedIsSent'
    OBVIOUS
  <2>1. RowsGrow /\ sent \subseteq Deployment
    BY StepsGrow DEF Sound, TypeOK
  <2>2. UNCHANGED sent => OnlyApprovedIsSent'
    BY <2>1 DEF OnlyApprovedIsSent, RowsGrow
  <2>3. ASSUME NEW c \in Client, BridgeApply(c) PROVE OnlyApprovedIsSent'
    <3>1. state[job[c].dep] = "PLANNED" /\ UNCHANGED state
      BY <2>3 DEF BridgeApply, At, CallsKnow, Knows, plans
    <3>2. sent' = sent \/ sent' = sent \union {job[c].dep}
      BY <2>3 DEF BridgeApply
    <3> QED
      BY <3>1, <3>2 DEF OnlyApprovedIsSent
  <2>4. UNCHANGED sent \/ \E c \in Client : BridgeApply(c)
    BY DEF Next, vars, Continue, PlanSelect, RollbackSelect, Fails, DeploySelect,
       SaveRelease, PlanEnsure, PlanInsert, DeployUpdate, BridgeGetApp, RollbackTarget,
       SaveGetApp, SaveMax, SaveInsert, Delete, PutSpec, Expire, rows
  <2> QED
    BY <2>2, <2>3, <2>4
<1> QED
  BY <1>1, <1>2, Typing, Knowing, PTL DEF Spec

-----------------------------------------------------------------------------
(* The revisions are a log *)

\* A call that neither saves nor ends a rollback is a step of the log in which
\* at most its client has something else to do.
LEMMA OtherAnswersForget ==
    ASSUME Sound, NEW c \in Client, NEW answer, answer.what # "rolled back",
           reply' = [reply EXCEPT ![c] = answer], UNCHANGED image
    PROVE  [Log!Next]_(Log!vars)
<1>1. Told' = [Told EXCEPT ![c] = Untold]
  BY DEF Told, Sound, TypeOK
<1>2. UNCHANGED Length
  BY DEF Length, Newest, Saved
<1>3. Log!Forget(c)
  BY <1>1, <1>2 DEF Log!Forget, Log!Untold, Log!logs, Untold
<1> QED
  BY <1>3 DEF Log!Next

\* Proceed and End answer nothing of the kind.
LEMMA ProceedForgets ==
    ASSUME Sound, NEW c \in Client, NEW step, NEW j, Proceed(c, step, j), UNCHANGED image
    PROVE  [Log!Next]_(Log!vars)
  BY OtherAnswersForget DEF Proceed, NoAnswer, Answer

\* A call that ends without a rollback leaves the log as it is.
LEMMA EndForgets ==
    ASSUME Sound, NEW c \in Client, NEW what, what # "rolled back", End(c, what),
           UNCHANGED image
    PROVE  [Log!Next]_(Log!vars)
  BY OtherAnswersForget DEF End, Return, Answer

\* SaveRevision's INSERT writes at the end of the log, and is a rollback to an
\* entry below it when RollbackLatest has asked for it.
LEMMA InsertIsLogged ==
    ASSUME Sound, CallsKnow, NEW c \in Client, SaveInsert(c)
    PROVE  [Log!Next]_(Log!vars)
<1>1. CASE image[job[c].dep][job[c].next] # NoImage
  BY <1>1, EndForgets DEF SaveInsert
<1>2. CASE image[job[c].dep][job[c].next] = NoImage
  <2>1. PICK d \in Deployment, n \in Revision :
          /\ d = job[c].dep /\ n = job[c].next
          /\ job[c].img \in Image
          /\ Saved(d) = 1 .. (n - 1)
          /\ image' = [image EXCEPT ![d][n] = job[c].img]
          /\ \A e \in Deployment : Saved(e)' = IF e = d THEN 1 .. n ELSE Saved(e)
    BY <1>2, InsertAppends
  <2>2. n \in Nat /\ n >= 1 /\ n <= MaxRevision /\ n - 1 \in 0 .. MaxRevision
          /\ n \in 0 .. MaxRevision
    BY <2>1, ReleasesAssumption DEF Revision
  <2>3. Length[d] = n - 1
    BY <2>1, <2>2, MaxOfSegment DEF Length, Newest
  <2>4. Newest(d)' = n /\ \A e \in Deployment \ {d} : Newest(e)' = Newest(e)
    BY <2>1, <2>2, MaxOfSegment DEF Newest
  <2>5. Length' = [Length EXCEPT ![d] = n]
    BY <2>4 DEF Length
  <2>6. Log!Write(d, job[c].img)
    <3>1. Length[d] < MaxRevision /\ Length[d] + 1 = n
      BY <2>2, <2>3, ReleasesAssumption
    <3> QED
      BY <2>1, <2>5, <3>1 DEF Log!Write
  <2>7. pc[c] = "save.insert" /\ Knows(c)
    BY DEF SaveInsert, At, CallsKnow
  <2>8. CASE job[c].to = 0
    <3>1. reply' = [reply EXCEPT ![c] = Answer("saved", 0, 0, 0)]
      BY <1>2, <2>8 DEF SaveInsert, End, Return
    <3>2. reply[c].what = "none"
      BY <2>7 DEF Knows, NoAnswer, Answer
    <3>3. UNCHANGED Told
      BY <3>1, <3>2 DEF Told, Answer, Sound, TypeOK
    <3>4. Log!Release(d)
      BY <2>1, <2>6, <3>3 DEF Log!Release
    <3> QED
      BY <3>4 DEF Log!Next
  <2>9. CASE job[c].to # 0
    <3>1. PICK to : to = job[c].to
      OBVIOUS
    <3>2. to \in 1 .. (n - 1) /\ to + 1 \in 1 .. (n - 1) /\ image[d][to] = job[c].img
      BY <2>1, <2>7, <2>9, <3>1 DEF Knows
    <3>3. to \in 1 .. MaxRevision /\ to < Length[d]
      BY <3>2, <2>2, <2>3, ReleasesAssumption
    <3>4. reply' = [reply EXCEPT ![c] = Answer("rolled back", d, to, n)]
      BY <1>2, <2>1, <2>9, <3>1 DEF SaveInsert, Return
    <3>5. Told' = [Told EXCEPT ![c] = [of |-> d, to |-> to, as |-> n]]
      BY <3>4 DEF Told, Answer, Sound, TypeOK
    <3>6. n = Length[d] + 1
      BY <2>2, <2>3, ReleasesAssumption
    <3>7. Log!Rollback(c, d, to)
      BY <2>6, <3>2, <3>3, <3>5, <3>6 DEF Log!Rollback
    <3> QED
      BY <3>3, <3>7 DEF Log!Next
  <2> QED
    BY <2>8, <2>9
<1> QED
  BY <1>1, <1>2

\* The revisions of a deployment are a log that only grows at its end, and a
\* rollback appends a copy of an entry that was not the last, whatever saves
\* and rollbacks race for the next number (SaveRevision, RollbackLatest).
THEOREM Refinement == Spec => KeepsLog
<1>1. Init => Log!Init
  <2> SUFFICES ASSUME Init PROVE Log!Init
    OBVIOUS
  <2>1. \A d \in Deployment : Saved(d) = {}
    BY DEF Init, Saved
  <2>e. 0 \in 0 .. MaxRevision /\ 1 .. 0 = {}
    BY ReleasesAssumption
  <2>m. MaxOf({}) = 0
    BY <2>e, MaxOfSegment
  <2>2. \A d \in Deployment : Newest(d) = 0
    BY <2>1, <2>m DEF Newest
  <2>3. Length = [d \in Deployment |-> 0]
    BY <2>2 DEF Length
  <2>4. Told = [c \in Client |-> Untold]
    BY DEF Init, Told, NoAnswer, Answer
  <2> QED
    BY <2>3, <2>4 DEF Init, Log!Init, Log!Untold, Untold, Revision
<1>2. Sound /\ CallsKnow /\ [Next]_vars => [Log!Next]_(Log!vars)
  <2> SUFFICES ASSUME Sound, CallsKnow, [Next]_vars PROVE [Log!Next]_(Log!vars)
    OBVIOUS
  <2>r. UNCHANGED rows => UNCHANGED image
    BY DEF rows
  <2>1. ASSUME NEW c \in Client,
               \/ PlanSelect(c) \/ PlanEnsure(c) \/ RollbackSelect(c) \/ RollbackTarget(c)
               \/ SaveGetApp(c) \/ SaveMax(c) \/ BridgeGetApp(c) \/ Fails(c)
        PROVE  [Log!Next]_(Log!vars)
    BY <2>1, <2>r, ProceedForgets, EndForgets
       DEF PlanSelect, PlanEnsure, RollbackSelect, RollbackTarget, SaveGetApp, SaveMax,
           BridgeGetApp, Fails
  <2>2. ASSUME NEW c \in Client, NEW d \in Deployment,
               \/ \E way \in Ways : DeploySelect(c, d, way)
               \/ \E i \in Image : SaveRelease(c, d, i)
        PROVE  [Log!Next]_(Log!vars)
    BY <2>2, <2>r, ProceedForgets, EndForgets DEF DeploySelect, SaveRelease
  <2>3. ASSUME NEW c \in Client, PlanInsert(c) \/ DeployUpdate(c)
        PROVE  [Log!Next]_(Log!vars)
    BY <2>3, ProceedForgets, EndForgets DEF PlanInsert, DeployUpdate
  <2>4. ASSUME NEW c \in Client, BridgeApply(c) PROVE [Log!Next]_(Log!vars)
    <3>1. PICK answer : answer = Answer("accepted", job[c].dep, 0, 0)
      OBVIOUS
    <3>2. reply' = [reply EXCEPT ![c] = answer] /\ UNCHANGED image
      BY <2>4, <3>1 DEF BridgeApply, Return
    <3> QED
      BY <3>1, <3>2, OtherAnswersForget DEF Answer
  <2>5. ASSUME NEW c \in Client, SaveInsert(c) PROVE [Log!Next]_(Log!vars)
    BY <2>5, InsertIsLogged
  <2>6. ASSUME Delete \/ PutSpec \/ (\E d \in Deployment : Expire(d)) \/ UNCHANGED vars
        PROVE  [Log!Next]_(Log!vars)
    <3>1. UNCHANGED <<image, reply>>
      BY <2>6 DEF Delete, PutSpec, Expire, vars
    <3>2. UNCHANGED <<image, Length, Told>>
      BY <3>1 DEF Length, Newest, Saved, Told
    <3> QED
      BY <3>2 DEF Log!vars
  <2> QED
    BY <2>1, <2>2, <2>3, <2>4, <2>5, <2>6 DEF Next, Continue
<1> QED
  BY <1>1, <1>2, Typing, Knowing, PTL DEF Spec, KeepsLog, Log!Spec
=============================================================================
