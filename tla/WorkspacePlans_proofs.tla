------------------------ MODULE WorkspacePlans_proofs ------------------------
(***************************************************************************)
(* How far checks without a lock let a workspace and an instance pass      *)
(* their ceilings, for every number of requests in flight and every        *)
(* ceiling: the inductive invariant PlansInv of WorkspacePlans.            *)
(***************************************************************************)
EXTENDS WorkspacePlans, FiniteSetTheorems, TLAPS

-----------------------------------------------------------------------------
(* A ceiling is a positive number or none, and one that the workspace      *)
(* lifted is none.                                                         *)
LEMMA WorkspaceCeilings ==
    ASSUME PlanShape, NEW k \in {"seats", "boards"}
    PROVE  /\ resolveWorkspacePlanLimits(k) \in (Nat \ {0}) \cup {NoCeiling}
           /\ stored[k] \in {Null, 0} => resolveWorkspacePlanLimits(k) = NoCeiling
           /\ stored[k] \in Nat \ {0} => resolveWorkspacePlanLimits(k) = stored[k]
           /\ stored[k] \in {Absent, Malformed} =>
                 resolveWorkspacePlanLimits(k) = IF env[k] = 0 THEN NoCeiling ELSE env[k]
<1>1. env[k] \in Nat /\ stored[k] \in Nat \cup {Absent, Null, Malformed}
  BY PlansAssumption DEF PlanShape, RowShape, CeilingKinds
<1> DEFINE own == parseOverrideValue(stored[k])
<1>2. CASE stored[k] = Null
  <2>1. own = NoCeiling
    BY <1>2 DEF parseOverrideValue
  <2> QED BY <1>2, <2>1, PlansAssumption DEF resolveWorkspacePlanLimits
<1>3. CASE stored[k] \in {Absent, Malformed}
  <2>1. own = Absent
    BY <1>3, PlansAssumption DEF parseOverrideValue
  <2>2. resolveWorkspacePlanLimits(k) = readCeiling(env[k])
    BY <2>1 DEF resolveWorkspacePlanLimits
  <2> QED BY <1>1, <1>3, <2>2, PlansAssumption DEF readCeiling
<1>4. CASE stored[k] \in Nat
  <2>1. stored[k] # Null /\ stored[k] # Absent /\ stored[k] # Malformed
    BY <1>4, PlansAssumption
  <2>2. own = readCeiling(stored[k])
    BY <2>1 DEF parseOverrideValue
  <2>3. own # Absent
    BY <1>4, <2>2, PlansAssumption DEF readCeiling
  <2>4. resolveWorkspacePlanLimits(k) = readCeiling(stored[k])
    BY <2>2, <2>3 DEF resolveWorkspacePlanLimits
  <2> QED BY <1>4, <2>1, <2>4, PlansAssumption DEF readCeiling
<1> QED BY <1>1, <1>2, <1>3, <1>4

(* The same of the ceilings of the instance.                               *)
LEMMA InstanceCeilings ==
    ASSUME PlanShape, NEW k \in CeilingKinds
    PROVE  /\ instanceLimits(k) \in (Nat \ {0}) \cup {NoCeiling}
           /\ env[k] # 0 => instanceLimits(k) = env[k]
           /\ env[k] \in Nat
BY PlansAssumption DEF PlanShape, RowShape, instanceLimits, readCeiling

(* The bound of the invariant is the one the properties state.             *)
LEMMA BoundsMeet ==
    ASSUME PlanShape, NEW n \in Nat
    PROVE  /\ \A k \in {"seats", "boards"} :
                 Bounded(n, resolveWorkspacePlanLimits(k)) => WithinOverride(k, n)
           /\ \A k \in CeilingKinds : Bounded(n, instanceLimits(k)) => WithinInstance(k, n)
<1>1. ASSUME NEW k \in {"seats", "boards"}, Bounded(n, resolveWorkspacePlanLimits(k))
      PROVE  WithinOverride(k, n)
  <2>1. env[k] \in Nat /\ stored[k] \in Nat \cup {Absent, Null, Malformed}
    BY PlansAssumption DEF PlanShape, RowShape, CeilingKinds
  <2> QED BY <1>1, <2>1, WorkspaceCeilings, PlansAssumption DEF Bounded, WithinOverride
<1>2. ASSUME NEW k \in CeilingKinds, Bounded(n, instanceLimits(k))
      PROVE  WithinInstance(k, n)
  BY <1>2, InstanceCeilings, PlansAssumption DEF Bounded, WithinInstance
<1> QED BY <1>1, <1>2

-----------------------------------------------------------------------------
(* Counting.                                                               *)

(* A step that writes nothing and lets nobody new through, one that finds   *)
(* room, and one that writes what was let through keep the bound.           *)
LEMMA CountingStep ==
    ASSUME NEW n \in Nat, NEW m \in Nat, NEW S \in SUBSET Procs, NEW T \in SUBSET Procs,
           NEW c \in (Nat \ {0}) \cup {NoCeiling},
           Bounded(n + Cardinality(S), c),
           \/ m <= n /\ T \subseteq S
           \/ c = NoCeiling \/ m < c
           \/ \E p \in S : m <= n + 1 /\ T \subseteq S \ {p}
    PROVE  Bounded(m + Cardinality(T), c)
<1>1. /\ IsFiniteSet(S) /\ IsFiniteSet(T)
      /\ Cardinality(S) \in Nat /\ Cardinality(T) \in Nat
      /\ Cardinality(Procs) \in Nat /\ Cardinality(T) <= Cardinality(Procs)
  BY PoolAssumption, FS_Subset, FS_CardinalityType
<1>2. CASE c = NoCeiling
  BY <1>2 DEF Bounded
<1>3. CASE c # NoCeiling /\ m <= n /\ T \subseteq S
  <2>1. Cardinality(T) <= Cardinality(S)
    BY <1>1, <1>3, FS_Subset
  <2> QED BY <1>1, <1>3, <2>1 DEF Bounded
<1>4. CASE c # NoCeiling /\ m < c
  BY <1>1, <1>4 DEF Bounded
<1>5. ASSUME c # NoCeiling, NEW p \in S, m <= n + 1, T \subseteq S \ {p}
      PROVE  Bounded(m + Cardinality(T), c)
  <2>1. /\ IsFiniteSet(S \ {p}) /\ Cardinality(S \ {p}) = Cardinality(S) - 1
    BY <1>1, FS_RemoveElement
  <2>2. Cardinality(T) <= Cardinality(S) - 1
    BY <1>5, <2>1, FS_Subset
  <2> QED BY <1>1, <1>5, <2>2 DEF Bounded
<1> QED BY <1>2, <1>3, <1>4, <1>5

-----------------------------------------------------------------------------
(* Shape.                                                                  *)

(* A job that waits for its first request.                                 *)
LEMMA IdleJobFits == IdleJob \in Job /\ InputsFit(IdleJob) /\ IdleJob.seen = {} /\ IdleJob.got = 0
BY PlansAssumption DEF IdleJob, Job, InputsFit, Ops, Steps, Answers

(* At first nobody is served, and one owner has one workspace.             *)
LEMMA InitShape == PlansInit => PlanShape
<1> SUFFICES ASSUME PlansInit PROVE PlanShape
  OBVIOUS
<1>2. (CHOOSE s \in Slugs : TRUE) \in Slugs
  BY PlansAssumption
<1>3. RowShape
  <2>1. accounts \subseteq Users /\ members \subseteq Workspaces \X Users
    BY PlansAssumption DEF PlansInit
  <2>2. /\ wsSlug \in [Workspaces -> Slugs \cup {NoSlug, Absent}]
        /\ wsSlug[FirstWs] # NoSlug
    <3> DEFINE slug == CHOOSE s \in Slugs : TRUE
    <3>1. wsSlug = [w \in Workspaces |-> IF w = FirstWs THEN slug ELSE NoSlug]
      BY DEF PlansInit
    <3>2. slug \in Slugs
      BY <1>2
    <3> HIDE DEF slug
    <3> QED BY <3>1, <3>2, PlansAssumption
  <2>3. invites \in Seq(Invitation) /\ boards \in Seq(Names \cup {Absent})
    BY DEF PlansInit
  <2> QED BY <2>1, <2>2, <2>3 DEF PlansInit, RowShape
<1> QED BY <1>3, IdleJobFits DEF PlansInit, PlanShape, RowShape

(* A request goes on: its new job fits the rows as they are now.           *)
LEMMA ShapeStep ==
    ASSUME PlanShape, RowShape', NEW p \in Procs, NEW job \in Job, InputsFit(job),
           planJob' = [planJob EXCEPT ![p] = job], Len(invites) <= Len(invites'),
           job.seen \subseteq DOMAIN invites', job.got \in 0 .. Len(invites')
    PROVE  PlanShape'
<1>1. /\ DOMAIN invites = 1 .. Len(invites) /\ DOMAIN invites' = 1 .. Len(invites')
      /\ Len(invites) \in Nat /\ Len(invites') \in Nat
  BY DEF PlanShape, RowShape
<1>2. planJob' \in [Procs -> Job]
  BY DEF PlanShape
<1>3. ASSUME NEW q \in Procs
      PROVE  /\ InputsFit(planJob'[q])
             /\ planJob'[q].seen \subseteq DOMAIN invites'
             /\ planJob'[q].got \in 0 .. Len(invites')
  <2>1. CASE q = p
    BY <2>1 DEF PlanShape
  <2>2. CASE q # p
    BY <1>1, <2>2 DEF PlanShape
  <2> QED BY <2>1, <2>2
<1> QED BY <1>2, <1>3 DEF PlanShape

(* A request is admitted, goes on or is answered, and no row changes.      *)
LEMMA ReadStep ==
    ASSUME PlanShape, NEW p \in Procs, NEW job \in Job, InputsFit(job),
           planJob' = [planJob EXCEPT ![p] = job],
           UNCHANGED <<env, stored, planRows>>,
           job.seen \subseteq DOMAIN invites, job.got \in 0 .. Len(invites)
    PROVE  PlanShape'
<1>1. RowShape' /\ invites' = invites
  BY DEF PlanShape, RowShape, planRows
<1>2. Len(invites) <= Len(invites')
  BY <1>1 DEF PlanShape, RowShape
<1>3. job.seen \subseteq DOMAIN invites' /\ job.got \in 0 .. Len(invites')
  BY <1>1
<1>4. RowShape'
  BY <1>1
<1> QED BY <1>2, <1>3, <1>4, ShapeStep

(* What a request keeps once it is answered.                               *)
LEMMA AnswersFit ==
    ASSUME NEW job \in Job, NEW answer \in Answers
    PROVE  /\ Answered(job, answer) \in Job /\ InputsFit(Answered(job, answer))
           /\ Answered(job, answer).seen = {} /\ Answered(job, answer).got = 0
           /\ Answered(job, answer).step = "done"
           /\ Answered(job, answer).op = job.op /\ Answered(job, answer).answer = answer
<1>1. Answered(job, answer) \in Job
  BY IdleJobFits DEF Answered, Job, Steps
<1>2. /\ Answered(job, answer).seen = {} /\ Answered(job, answer).got = 0
      /\ Answered(job, answer).step = "done"
      /\ Answered(job, answer).op = job.op /\ Answered(job, answer).answer = answer
  BY DEF Answered, IdleJob
<1> QED BY <1>1, <1>2 DEF InputsFit

(* A request is answered.                                                  *)
LEMMA AnswerStep ==
    ASSUME PlanShape, NEW p \in Procs, NEW answer \in Answers,
           planJob' = [planJob EXCEPT ![p] = Answered(planJob[p], answer)],
           \/ UNCHANGED <<env, stored, planRows>>
           \/ RowShape' /\ Len(invites) <= Len(invites')
    PROVE  PlanShape'
<1> DEFINE new == Answered(planJob[p], answer)
<1>1. planJob[p] \in Job
  BY DEF PlanShape
<1>2. new \in Job /\ InputsFit(new) /\ new.seen = {} /\ new.got = 0
  BY <1>1, AnswersFit
<1>3. RowShape' /\ Len(invites) <= Len(invites')
  BY DEF PlanShape, RowShape, planRows
<1>4. 0 \in 0 .. Len(invites')
  BY <1>3 DEF RowShape
<1>5. planJob' = [planJob EXCEPT ![p] = new]
  OBVIOUS
<1> HIDE DEF new
<1> QED BY <1>2, <1>3, <1>4, <1>5, ShapeStep

(* The rows a request counts are finitely many.                            *)
LEMMA Counts ==
    ASSUME PlanShape
    PROVE  /\ DOMAIN invites = 1 .. Len(invites) /\ Len(invites) \in Nat
           /\ pendingInvitations \subseteq DOMAIN invites /\ DOMAIN invites \subseteq Nat
           /\ IsFiniteSet(pendingInvitations) /\ Cardinality(pendingInvitations) \in Nat
           /\ IsFiniteSet(seated) /\ Cardinality(seated) \in Nat /\ memberCount = Cardinality(seated)
           /\ IsFiniteSet(liveBoards) /\ Cardinality(liveBoards) \in Nat
           /\ IsFiniteSet(liveWorkspaces) /\ Cardinality(liveWorkspaces) \in Nat
           /\ IsFiniteSet(accounts) /\ Cardinality(accounts) \in Nat
<1>1. /\ DOMAIN invites = 1 .. Len(invites) /\ Len(invites) \in Nat
      /\ DOMAIN boards = 1 .. Len(boards) /\ Len(boards) \in Nat
  BY DEF PlanShape, RowShape
<1>2. IsFiniteSet(DOMAIN invites) /\ IsFiniteSet(DOMAIN boards)
  BY <1>1, FS_Interval
<1>3. pendingInvitations \subseteq DOMAIN invites /\ liveBoards \subseteq DOMAIN boards
  BY DEF pendingInvitations, liveBoards
<1>4. IsFiniteSet(Workspaces \X Users)
  BY PlansAssumption, FS_Product
<1>5. seated \subseteq Workspaces \X Users /\ memberCount = Cardinality(seated)
  BY DEF seated, memberCount, PlanShape, RowShape
<1>6. liveWorkspaces \subseteq Workspaces /\ accounts \subseteq Users
  BY DEF liveWorkspaces, PlanShape, RowShape
<1>7. /\ IsFiniteSet(pendingInvitations) /\ IsFiniteSet(seated) /\ IsFiniteSet(liveBoards)
      /\ IsFiniteSet(liveWorkspaces) /\ IsFiniteSet(accounts)
  BY <1>2, <1>3, <1>4, <1>5, <1>6, PlansAssumption, FS_Subset
<1> QED BY <1>1, <1>3, <1>5, <1>7, FS_CardinalityType

(* A new status is a status.                                               *)
LEMMA StatusStep ==
    ASSUME PlanShape, NEW i, NEW status \in Statuses, SetStatus(i, status)
    PROVE  /\ invites' \in Seq(Invitation) /\ Len(invites') = Len(invites)
           /\ \A j \in DOMAIN invites : j # i => invites'[j] = invites[j]
           /\ \A j \in DOMAIN invites : invites'[j].email = invites[j].email
           /\ i \in DOMAIN invites => invites'[i].status = status
<1>1. invites \in Seq(Invitation)
  BY DEF PlanShape, RowShape
<1>2. \A j \in DOMAIN invites : [invites[j] EXCEPT !.status = status] \in Invitation
  <2>1. \A j \in DOMAIN invites : invites[j] \in Invitation
    BY <1>1
  <2>2. ASSUME NEW inv \in Invitation PROVE [inv EXCEPT !.status = status] \in Invitation
    BY DEF Invitation
  <2> QED BY <2>1, <2>2
<1>3. invites' = [j \in DOMAIN invites |->
                    IF j = i THEN [invites[j] EXCEPT !.status = status] ELSE invites[j]]
  BY DEF SetStatus
<1>4. DOMAIN invites = 1 .. Len(invites) /\ Len(invites) \in Nat
  BY <1>1
<1>5. invites' \in Seq(Invitation) /\ Len(invites') = Len(invites)
  <2>1. \A j \in 1 .. Len(invites) : invites[j] \in Invitation
    BY <1>1
  <2>2. invites' \in [1 .. Len(invites) -> Invitation]
    BY <1>2, <1>3, <1>4, <2>1
  <2> QED BY <1>4, <2>2
<1>6. \A j \in DOMAIN invites : invites[j] \in Invitation
  BY <1>1
<1> QED BY <1>3, <1>5, <1>6 DEF Invitation

(* One invitation more, or one less pending, leaves the shape.             *)
LEMMA InvitationShape ==
    ASSUME PlanShape, NEW p \in Procs, InvitationStep(p)
    PROVE  PlanShape'
<1> DEFINE job == planJob[p]
<1>1. /\ job \in Job /\ InputsFit(job)
      /\ job.seen \subseteq DOMAIN invites /\ job.got \in 0 .. Len(invites)
  BY DEF PlanShape
<1>2. CASE BeginInvite(p)
  <2>1. PICK u \in Users, r \in InvitableRoles :
           Admit(p, [IdleJob EXCEPT !.op = "invite", !.step = "pending", !.user = u, !.role = r])
    BY <1>2 DEF BeginInvite
  <2> DEFINE new == [IdleJob EXCEPT !.op = "invite", !.step = "pending", !.user = u, !.role = r]
  <2>2. new \in Job
    BY IdleJobFits DEF Job, Ops, Steps
  <2>3. InputsFit(new) /\ new.seen = {} /\ new.got = 0
    BY DEF IdleJob, InputsFit
  <2>4. planJob' = [planJob EXCEPT ![p] = new] /\ UNCHANGED <<env, stored, planRows>>
    BY <2>1 DEF Admit
  <2>5. 0 \in 0 .. Len(invites)
    BY Counts
  <2> HIDE DEF new
  <2> QED BY <2>2, <2>3, <2>4, <2>5, ReadStep
<1>3. CASE findPendingInvitations(p)
  <2> DEFINE own == {i \in pendingInvitations : invites[i].email = job.user}
  <2> DEFINE step == IF own = {} THEN "count"
                     ELSE IF \E i \in own : invites[i].role # job.role THEN "cancel"
                     ELSE "find"
  <2> DEFINE new == [job EXCEPT !.seen = own, !.step = step]
  <2>1. own \subseteq DOMAIN invites /\ own \in SUBSET Nat
    BY Counts
  <2>2. step \in Steps /\ step # "pending"
    BY DEF Steps
  <2>3. /\ job.op = "invite" /\ job.step = "pending"
        /\ planJob' = [planJob EXCEPT ![p] = new] /\ UNCHANGED <<env, stored, planRows>>
    BY <1>3 DEF findPendingInvitations, Goes
  <2> HIDE DEF own, step, job
  <2>4. new \in Job /\ new.seen = own /\ new.got = job.got
    BY <1>1, <2>1, <2>2 DEF Job
  <2>5. InputsFit(new)
    BY <1>1, <2>2, <2>3 DEF InputsFit, Job
  <2> HIDE DEF new
  <2> QED BY <1>1, <2>1, <2>3, <2>4, <2>5, ReadStep
<1>4. ASSUME NEW what \in {"members", "invitations"}, CountSeats(p, what)
      PROVE  PlanShape'
  <2> DEFINE n == IF what = "members" THEN memberCount ELSE Cardinality(pendingInvitations)
  <2> DEFINE new == [job EXCEPT !.counted = @ \cup {what}, !.count = @ + n]
  <2>1. n \in Nat
    BY Counts
  <2>2. /\ job.step = "count"
        /\ planJob' = [planJob EXCEPT ![p] = new] /\ UNCHANGED <<env, stored, planRows>>
    BY <1>4 DEF CountSeats, Goes
  <2> HIDE DEF n, job
  <2>3. new \in Job /\ new.seen = job.seen /\ new.got = job.got
    <3>1. job.counted \cup {what} \in SUBSET {"members", "invitations"} /\ job.count + n \in Nat
      BY <1>1, <2>1 DEF Job
    <3>2. new = [job EXCEPT !.counted = job.counted \cup {what}, !.count = job.count + n]
      OBVIOUS
    <3> QED BY <1>1, <3>1, <3>2 DEF Job
  <2>4. InputsFit(new)
    BY <1>1, <2>2 DEF InputsFit, Job
  <2> HIDE DEF new
  <2> QED BY <1>1, <2>2, <2>3, <2>4, ReadStep
<1>5. CASE assertSeatAvailable(p)
  <2> DEFINE on == [job EXCEPT !.step = "find", !.counted = {}, !.count = 0]
  <2> DEFINE full == Exceeds(job.count, resolveWorkspacePlanLimits("seats"))
  <2> DEFINE new == IF full THEN Answered(job, "plan") ELSE on
  <2>1. /\ job.step = "count"
        /\ planJob' = [planJob EXCEPT ![p] = new] /\ UNCHANGED <<env, stored, planRows>>
    BY <1>5 DEF assertSeatAvailable, Goes
  <2>2. "plan" \in Answers /\ 0 \in 0 .. Len(invites)
    BY Counts DEF Answers
  <2> HIDE DEF full, job
  <2>3. on \in Job /\ on.seen = job.seen /\ on.got = job.got
    BY <1>1 DEF Job, Steps
  <2>4. InputsFit(on)
    BY <1>1, <2>1 DEF InputsFit, Job
  <2> HIDE DEF on
  <2>5. /\ new \in Job /\ InputsFit(new)
        /\ new.seen \subseteq DOMAIN invites /\ new.got \in 0 .. Len(invites)
    BY <1>1, <2>2, <2>3, <2>4, AnswersFit
  <2> HIDE DEF new
  <2> QED BY <2>1, <2>5, ReadStep
<1>6. CASE CancelPending(p)
  <2>1. PICK i \in job.seen :
           /\ SetStatus(i, "canceled")
           /\ Goes(p, [job EXCEPT !.seen = @ \ {i},
                                  !.step = IF job.seen = {i} THEN "find" ELSE "cancel"])
    BY <1>6 DEF CancelPending
  <2> DEFINE step == IF job.seen = {i} THEN "find" ELSE "cancel"
  <2> DEFINE new == [job EXCEPT !.seen = @ \ {i}, !.step = step]
  <2>2. /\ job.op = "invite" /\ job.step = "cancel"
        /\ planJob' = [planJob EXCEPT ![p] = new] /\ UNCHANGED <<env, stored>>
        /\ UNCHANGED <<accounts, verified, wsSlug, members, boards, boardTrail, deletions, offered>>
    BY <1>6, <2>1 DEF CancelPending, Goes
  <2>3. invites' \in Seq(Invitation) /\ Len(invites') = Len(invites)
    BY <2>1, StatusStep DEF Statuses
  <2>4. RowShape' /\ DOMAIN invites' = DOMAIN invites
    BY <2>2, <2>3, Counts DEF PlanShape, RowShape
  <2>5. step \in Steps /\ step # "pending"
    BY DEF Steps
  <2> HIDE DEF step, job
  <2>6. new \in Job /\ new.seen \subseteq job.seen /\ new.got = job.got
    BY <1>1, <2>5 DEF Job
  <2>7. InputsFit(new)
    BY <1>1, <2>2, <2>5 DEF InputsFit, Job
  <2>8. Len(invites) <= Len(invites')
    BY <2>3, Counts
  <2> HIDE DEF new
  <2> QED BY <1>1, <2>2, <2>3, <2>4, <2>6, <2>7, <2>8, ShapeStep
<1>7. CASE pluginResend(p)
  <2> DEFINE own == {i \in pendingInvitations : invites[i].email = job.user}
  <2>1. /\ job.op = "invite" /\ job.step = "find" /\ UNCHANGED <<env, stored, planRows>>
        /\ \/ planJob' = [planJob EXCEPT ![p] = Answered(job, "refused")]
           \/ planJob' = [planJob EXCEPT ![p] = [job EXCEPT !.step = "insert", !.seen = {}]]
           \/ \E i \in own : planJob' = [planJob EXCEPT ![p] =
                                        [job EXCEPT !.step = "check", !.got = i, !.seen = {}]]
    BY <1>7 DEF pluginResend, Goes
  <2>2. "refused" \in Answers /\ 0 \in 0 .. Len(invites)
    BY Counts DEF Answers
  <2>3. own \subseteq 1 .. Len(invites)
    BY Counts
  <2> HIDE DEF own, job
  <2>4. CASE planJob' = [planJob EXCEPT ![p] = Answered(job, "refused")]
    BY <2>1, <2>2, <2>4, AnswerStep DEF job
  <2>5. CASE planJob' = [planJob EXCEPT ![p] = [job EXCEPT !.step = "insert", !.seen = {}]]
    <3> DEFINE new == [job EXCEPT !.step = "insert", !.seen = {}]
    <3>1. new \in Job /\ new.seen = {} /\ new.got = job.got
      BY <1>1 DEF Job, Steps
    <3>2. InputsFit(new)
      BY <1>1, <2>1 DEF InputsFit, Job
    <3>3. planJob' = [planJob EXCEPT ![p] = new]
      BY <2>5
    <3> HIDE DEF new
    <3> QED BY <1>1, <2>1, <3>1, <3>2, <3>3, ReadStep
  <2>6. ASSUME NEW i \in own,
               planJob' = [planJob EXCEPT ![p] = [job EXCEPT !.step = "check", !.got = i, !.seen = {}]]
        PROVE  PlanShape'
    <3> DEFINE new == [job EXCEPT !.step = "check", !.got = i, !.seen = {}]
    <3>0. i \in Nat /\ i \in 0 .. Len(invites)
      BY <2>3, Counts
    <3>1. new \in Job /\ new.seen = {} /\ new.got = i
      BY <1>1, <3>0 DEF Job, Steps
    <3>2. InputsFit(new)
      BY <1>1, <2>1 DEF InputsFit, Job
    <3>3. planJob' = [planJob EXCEPT ![p] = new]
      BY <2>6
    <3> HIDE DEF new
    <3> QED BY <2>1, <3>0, <3>1, <3>2, <3>3, ReadStep
  <2> QED BY <2>1, <2>4, <2>5, <2>6
<1>8. CASE pluginInvite(p)
  <2> DEFINE inv == [email |-> job.user, role |-> job.role, status |-> "pending", stale |-> FALSE]
  <2> DEFINE new == [job EXCEPT !.step = "check", !.got = Len(invites) + 1]
  <2>1. /\ job.op = "invite" /\ job.step = "insert" /\ invites' = Append(invites, inv)
        /\ planJob' = [planJob EXCEPT ![p] = new] /\ UNCHANGED <<env, stored>>
        /\ UNCHANGED <<accounts, verified, wsSlug, members, boards, boardTrail, deletions, offered>>
    BY <1>8 DEF pluginInvite, Goes
  <2>2. inv \in Invitation
    <3>1. job.user \in Users /\ job.role \in InvitableRoles
      BY <1>1, <2>1 DEF InputsFit, Job
    <3> QED BY <3>1 DEF Invitation, Statuses
  <2> HIDE DEF inv, job
  <2>3. /\ invites' \in Seq(Invitation) /\ Len(invites') = Len(invites) + 1
        /\ DOMAIN invites' = 1 .. Len(invites) + 1
    BY <2>1, <2>2 DEF PlanShape, RowShape
  <2>4. RowShape'
    BY <2>1, <2>3 DEF PlanShape, RowShape
  <2>5. new \in Job /\ new.seen = job.seen /\ new.got = Len(invites) + 1
    <3> DEFINE n == Len(invites) + 1
    <3>1. n \in Nat
      BY Counts
    <3> HIDE DEF n
    <3>2. [job EXCEPT !.step = "check", !.got = n] \in Job
      BY <1>1, <3>1 DEF Job, Steps
    <3>3. new = [job EXCEPT !.step = "check", !.got = n]
      BY DEF n
    <3> QED BY <1>1, <3>2, <3>3 DEF Job, n
  <2>6. InputsFit(new)
    BY <1>1, <2>1 DEF InputsFit, Job
  <2>7. /\ Len(invites) <= Len(invites') /\ new.got \in 0 .. Len(invites')
        /\ new.seen \subseteq DOMAIN invites'
    BY <1>1, <2>3, <2>5, Counts
  <2> HIDE DEF new
  <2> QED BY <2>1, <2>4, <2>5, <2>6, <2>7, ShapeStep
<1>9. CASE createInvitation(p)
  <2>1. \E answer \in Answers : planJob' = [planJob EXCEPT ![p] = Answered(job, answer)]
    BY <1>9 DEF createInvitation, Goes, Answers
  <2>2. RowShape' /\ Len(invites) <= Len(invites')
    BY <1>9, Counts DEF createInvitation, Goes, PlanShape, RowShape
  <2> QED BY <2>1, <2>2, AnswerStep
<1>10. CASE BeginRevoke(p)
  <2>1. PICK i \in DOMAIN invites :
           Admit(p, [IdleJob EXCEPT !.op = "revoke", !.step = "cancel", !.got = i])
    BY <1>10 DEF BeginRevoke
  <2> DEFINE new == [IdleJob EXCEPT !.op = "revoke", !.step = "cancel", !.got = i]
  <2>2. i \in Nat /\ i \in 0 .. Len(invites)
    BY <2>1, Counts
  <2>3. new \in Job
    BY <2>2, IdleJobFits DEF Job, Ops, Steps
  <2>4. InputsFit(new) /\ new.seen = {} /\ new.got = i
    BY DEF IdleJob, InputsFit
  <2>5. planJob' = [planJob EXCEPT ![p] = new] /\ UNCHANGED <<env, stored, planRows>>
    BY <2>1 DEF Admit
  <2> HIDE DEF new
  <2> QED BY <2>2, <2>3, <2>4, <2>5, ReadStep
<1>11. CASE revokeInvitation(p)
  <2>1. /\ SetStatus(job.got, "canceled")
        /\ planJob' = [planJob EXCEPT ![p] = Answered(job, "ok")] /\ UNCHANGED <<env, stored>>
        /\ UNCHANGED <<accounts, verified, wsSlug, members, boards, boardTrail, deletions, offered>>
    BY <1>11 DEF revokeInvitation, Goes
  <2>2. invites' \in Seq(Invitation) /\ Len(invites') = Len(invites)
    BY <2>1, StatusStep DEF Statuses
  <2>3. RowShape' /\ Len(invites) <= Len(invites')
    BY <2>1, <2>2, Counts DEF PlanShape, RowShape
  <2>4. "ok" \in Answers
    BY DEF Answers
  <2> QED BY <2>1, <2>3, <2>4, AnswerStep
<1>12. CASE BeginAccept(p)
  <2>1. PICK i \in DOMAIN invites :
           Admit(p, [IdleJob EXCEPT !.op = "accept", !.step = "count", !.got = i])
    BY <1>12 DEF BeginAccept
  <2> DEFINE new == [IdleJob EXCEPT !.op = "accept", !.step = "count", !.got = i]
  <2>2. i \in Nat /\ i \in 0 .. Len(invites)
    BY <2>1, Counts
  <2>3. new \in Job
    BY <2>2, IdleJobFits DEF Job, Ops, Steps
  <2>4. InputsFit(new) /\ new.seen = {} /\ new.got = i
    BY DEF IdleJob, InputsFit
  <2>5. planJob' = [planJob EXCEPT ![p] = new] /\ UNCHANGED <<env, stored, planRows>>
    BY <2>1 DEF Admit
  <2> HIDE DEF new
  <2> QED BY <2>2, <2>3, <2>4, <2>5, ReadStep
<1>13. CASE acceptInvitation(p)
  <2>1. /\ job.op = "accept" /\ UNCHANGED <<env, stored>>
        /\ UNCHANGED <<accounts, verified, wsSlug, boards, boardTrail, deletions, offered>>
    BY <1>13 DEF acceptInvitation, Goes
  <2>2. CASE pluginAcceptable(job.got)
    <3>1. /\ SetStatus(job.got, "accepted")
          /\ members' = members \cup {<<FirstWs, invites[job.got].email>>}
          /\ planJob' = [planJob EXCEPT ![p] = Answered(job, "ok")]
      BY <1>13, <2>2 DEF acceptInvitation, Goes
    <3>2. invites' \in Seq(Invitation) /\ Len(invites') = Len(invites)
      BY <3>1, StatusStep DEF Statuses
    <3>3. job.got \in DOMAIN invites
      BY <2>2, Counts DEF pluginAcceptable
    <3>4. invites[job.got] \in Invitation
      BY <3>3 DEF PlanShape, RowShape
    <3>5. <<FirstWs, invites[job.got].email>> \in Workspaces \X Users
      BY <3>4, PlansAssumption DEF Invitation
    <3>6. RowShape' /\ Len(invites) <= Len(invites')
      BY <2>1, <3>1, <3>2, <3>5, Counts DEF PlanShape, RowShape
    <3>7. "ok" \in Answers
      BY DEF Answers
    <3> QED BY <3>1, <3>6, <3>7, AnswerStep
  <2>3. CASE ~ pluginAcceptable(job.got)
    <3>1. /\ UNCHANGED <<invites, members>>
          /\ planJob' = [planJob EXCEPT ![p] = Answered(job, "refused")]
      BY <1>13, <2>3 DEF acceptInvitation, Goes
    <3>2. "refused" \in Answers
      BY DEF Answers
    <3>3. UNCHANGED <<env, stored, planRows>>
      BY <2>1, <3>1 DEF planRows
    <3> QED BY <3>1, <3>2, <3>3, AnswerStep
  <2> QED BY <2>2, <2>3
<1> QED BY <1>2, <1>3, <1>4, <1>5, <1>6, <1>7, <1>8, <1>9, <1>10, <1>11, <1>12, <1>13
        DEF InvitationStep

(* A board more, a new name, or a board gone leaves the shape.             *)
LEMMA BoardShape ==
    ASSUME PlanShape, NEW p \in Procs, BoardStep(p)
    PROVE  PlanShape'
<1> DEFINE job == planJob[p]
<1>0. /\ job \in Job /\ InputsFit(job) /\ boards \in Seq(Names \cup {Absent})
      /\ 0 \in 0 .. Len(invites) /\ Len(invites) <= Len(invites)
  BY Counts DEF PlanShape, RowShape
<1>1. CASE BeginBoard(p)
  <2>1. PICK n \in Names :
           Admit(p, [IdleJob EXCEPT !.op = "board", !.step = "insert", !.name = n,
                                    !.count = Cardinality(liveBoards)])
    BY <1>1 DEF BeginBoard
  <2> DEFINE k == Cardinality(liveBoards)
  <2> DEFINE new == [IdleJob EXCEPT !.op = "board", !.step = "insert", !.name = n, !.count = k]
  <2>2. k \in Nat
    BY Counts
  <2>3. planJob' = [planJob EXCEPT ![p] = new] /\ UNCHANGED <<env, stored, planRows>>
    BY <2>1 DEF Admit
  <2> HIDE DEF k
  <2>4. new \in Job
    BY <2>2, IdleJobFits DEF Job, Ops, Steps
  <2>5. InputsFit(new) /\ new.seen = {} /\ new.got = 0
    BY DEF IdleJob, InputsFit
  <2> HIDE DEF new
  <2> QED BY <1>0, <2>3, <2>4, <2>5, ReadStep
<1>2. CASE createBoard(p)
  <2>1. PICK answer \in Answers : planJob' = [planJob EXCEPT ![p] = Answered(job, answer)]
    BY <1>2 DEF createBoard, Goes, Answers
  <2>2. /\ job.op = "board" /\ job.step = "insert"
        /\ boards' = boards \/ boards' = Append(boards, job.name)
        /\ UNCHANGED <<env, stored>>
        /\ UNCHANGED <<accounts, verified, wsSlug, members, invites, deletions, offered>>
    BY <1>2 DEF createBoard, Goes
  <2>3. job.name \in Names \cup {Absent}
    BY <1>0, <2>2 DEF InputsFit
  <2> HIDE DEF job
  <2>4. boards' \in Seq(Names \cup {Absent})
    BY <1>0, <2>2, <2>3
  <2>5. RowShape' /\ Len(invites) <= Len(invites')
    BY <1>0, <2>2, <2>4 DEF PlanShape, RowShape
  <2> QED BY <2>1, <2>5, AnswerStep DEF job
<1>3. CASE BeginBoardUpdate(p)
  <2>1. PICK b \in liveBoards, n \in Names :
           Admit(p, [IdleJob EXCEPT !.op = "rename", !.step = "write", !.board = b, !.name = n])
    BY <1>3 DEF BeginBoardUpdate
  <2> DEFINE new == [IdleJob EXCEPT !.op = "rename", !.step = "write", !.board = b, !.name = n]
  <2>2. b \in Nat
    BY <1>0 DEF liveBoards
  <2>3. planJob' = [planJob EXCEPT ![p] = new] /\ UNCHANGED <<env, stored, planRows>>
    BY <2>1 DEF Admit
  <2>4. new \in Job
    BY <2>2, IdleJobFits DEF Job, Ops, Steps
  <2>5. InputsFit(new) /\ new.seen = {} /\ new.got = 0
    BY DEF IdleJob, InputsFit
  <2> HIDE DEF new
  <2> QED BY <1>0, <2>3, <2>4, <2>5, ReadStep
<1>4. CASE updateBoard(p)
  <2>1. PICK answer \in Answers : planJob' = [planJob EXCEPT ![p] = Answered(job, answer)]
    BY <1>4 DEF updateBoard, Goes, Answers
  <2>2. /\ job.op = "rename" /\ job.step = "write"
        /\ boards' = boards \/ boards' = [boards EXCEPT ![job.board] = job.name]
        /\ UNCHANGED <<env, stored>>
        /\ UNCHANGED <<accounts, verified, wsSlug, members, invites, deletions, offered>>
    BY <1>4 DEF updateBoard, Goes
  <2>3. job.name \in Names \cup {Absent}
    BY <1>0, <2>2 DEF InputsFit
  <2> HIDE DEF job
  <2>4. boards' \in Seq(Names \cup {Absent})
    BY <1>0, <2>2, <2>3
  <2>5. RowShape' /\ Len(invites) <= Len(invites')
    BY <1>0, <2>2, <2>4 DEF PlanShape, RowShape
  <2> QED BY <2>1, <2>5, AnswerStep DEF job
<1>5. CASE removeBoard(p)
  <2>1. PICK b \in liveBoards :
           /\ boards' = [boards EXCEPT ![b] = Absent]
           /\ planJob' = [planJob EXCEPT ![p] = Answered([IdleJob EXCEPT !.op = "drop"], "ok")]
           /\ UNCHANGED <<env, stored, traffic, accounts, verified, wsSlug, members, invites,
                          deletions, offered>>
    BY <1>5 DEF removeBoard
  <2> DEFINE asked == [IdleJob EXCEPT !.op = "drop"]
  <2>2. asked \in Job
    BY IdleJobFits DEF Job, Ops
  <2>3. boards' \in Seq(Names \cup {Absent})
    <3> DEFINE name == Names \cup {Absent}
    <3>1. boards \in Seq(name) /\ Absent \in name
      BY DEF PlanShape, RowShape
    <3>2. boards' = [boards EXCEPT ![b] = Absent]
      BY <2>1
    <3> HIDE DEF name
    <3>3. boards \in [1 .. Len(boards) -> name] /\ Len(boards) \in Nat
      BY <3>1
    <3>4. boards' \in [1 .. Len(boards) -> name]
      BY <3>1, <3>2, <3>3
    <3>5. boards' \in Seq(name)
      BY <3>3, <3>4
    <3> QED BY <3>5 DEF name
  <2>4. RowShape'
    <3>1. UNCHANGED <<env, stored, accounts, wsSlug, members, invites>>
      BY <2>1
    <3> QED BY <2>3, <3>1 DEF PlanShape, RowShape
  <2>8. Len(invites) <= Len(invites')
    BY <1>0, <2>1
  <2> DEFINE new == Answered(asked, "ok")
  <2> HIDE DEF asked
  <2>5. new \in Job /\ InputsFit(new) /\ new.seen = {} /\ new.got = 0
    BY <2>2, AnswersFit DEF Answers
  <2>6. planJob' = [planJob EXCEPT ![p] = new]
    BY <2>1 DEF asked
  <2>7. 0 \in 0 .. Len(invites')
    BY <1>0, <2>1
  <2> HIDE DEF new
  <2> QED BY <2>4, <2>5, <2>6, <2>7, <2>8, ShapeStep
<1> QED BY <1>1, <1>2, <1>3, <1>4, <1>5 DEF BoardStep

(* A workspace founded, renamed or removed leaves the shape.  The first one *)
(* is never unmade.                                                         *)
LEMMA WorkspaceShape ==
    ASSUME PlanShape, NEW p \in Procs, WorkspaceStep(p)
    PROVE  PlanShape'
<1> DEFINE job == planJob[p]
<1>0. /\ job \in Job /\ InputsFit(job)
      /\ 0 \in 0 .. Len(invites) /\ Len(invites) <= Len(invites)
      /\ job.seen \subseteq DOMAIN invites /\ job.got \in 0 .. Len(invites)
  BY Counts DEF PlanShape, RowShape
<1>1. CASE BeginWorkspace(p)
  <2>1. PICK u \in accounts, s \in Slugs :
           Admit(p, [IdleJob EXCEPT !.op = "create", !.step = "slug", !.user = u,
                                    !.slug = s, !.count = Cardinality(liveWorkspaces)])
    BY <1>1 DEF BeginWorkspace
  <2> DEFINE k == Cardinality(liveWorkspaces)
  <2> DEFINE new == [IdleJob EXCEPT !.op = "create", !.step = "slug", !.user = u, !.slug = s,
                                    !.count = k]
  <2>2. k \in Nat /\ u \in Users
    BY Counts DEF PlanShape, RowShape
  <2>3. planJob' = [planJob EXCEPT ![p] = new] /\ UNCHANGED <<env, stored, planRows>>
    BY <2>1 DEF Admit
  <2> HIDE DEF k
  <2>4. new \in Job
    BY <2>2, IdleJobFits DEF Job, Ops, Steps
  <2>5. InputsFit(new) /\ new.seen = {} /\ new.got = 0
    BY DEF IdleJob, InputsFit
  <2> HIDE DEF new
  <2> QED BY <1>0, <2>3, <2>4, <2>5, ReadStep
<1>2. CASE BeginWorkspaceUpdate(p)
  <2>1. PICK w \in liveWorkspaces, s \in Slugs :
           Admit(p, [IdleJob EXCEPT !.op = "reslug", !.step = "slug", !.ws = w, !.slug = s])
    BY <1>2 DEF BeginWorkspaceUpdate
  <2> DEFINE new == [IdleJob EXCEPT !.op = "reslug", !.step = "slug", !.ws = w, !.slug = s]
  <2>2. w \in Workspaces
    BY DEF liveWorkspaces
  <2>3. planJob' = [planJob EXCEPT ![p] = new] /\ UNCHANGED <<env, stored, planRows>>
    BY <2>1 DEF Admit
  <2>4. new \in Job
    BY <2>2, IdleJobFits DEF Job, Ops, Steps
  <2>5. InputsFit(new) /\ new.seen = {} /\ new.got = 0
    BY DEF IdleJob, InputsFit
  <2> HIDE DEF new
  <2> QED BY <1>0, <2>3, <2>4, <2>5, ReadStep
<1>3. CASE CheckSlug(p)
  <2>1. /\ job.op \in {"create", "reslug"} /\ job.step = "slug" /\ UNCHANGED <<env, stored, planRows>>
        /\ \/ \E answer \in {"plan", "conflict"} : planJob' = [planJob EXCEPT ![p] = Answered(job, answer)]
           \/ planJob' = [planJob EXCEPT ![p] = [job EXCEPT !.step = "plugin"]]
    BY <1>3 DEF CheckSlug, Goes
  <2>2. ASSUME NEW answer \in {"plan", "conflict"},
               planJob' = [planJob EXCEPT ![p] = Answered(job, answer)]
        PROVE  PlanShape'
    BY <2>1, <2>2, AnswerStep DEF Answers
  <2>3. CASE planJob' = [planJob EXCEPT ![p] = [job EXCEPT !.step = "plugin"]]
    <3> DEFINE new == [job EXCEPT !.step = "plugin"]
    <3>1. planJob' = [planJob EXCEPT ![p] = new]
      BY <2>3
    <3> HIDE DEF job
    <3>2. new \in Job /\ new.seen = job.seen /\ new.got = job.got
      BY <1>0 DEF Job, Steps
    <3>3. InputsFit(new)
      BY <1>0, <2>1 DEF InputsFit, Job
    <3> HIDE DEF new
    <3> QED BY <1>0, <2>1, <3>1, <3>2, <3>3, ReadStep
  <2> QED BY <2>1, <2>2, <2>3
<1>4. CASE createWorkspace(p)
  <2>1. /\ job.op = "create" /\ job.step = "plugin" /\ UNCHANGED <<env, stored>>
        /\ UNCHANGED <<accounts, verified, invites, boards, boardTrail, deletions, offered>>
        /\ \E answer \in Answers : planJob' = [planJob EXCEPT ![p] = Answered(job, answer)]
        /\ \/ UNCHANGED <<wsSlug, members>>
           \/ \E w \in Workspaces : /\ wsSlug[w] = NoSlug
                                    /\ wsSlug' = [wsSlug EXCEPT ![w] = job.slug]
                                    /\ members' = members \cup {<<w, job.user>>}
    <3> DEFINE free == {w \in Workspaces : wsSlug[w] = NoSlug}
    <3>1. free # {} => (CHOOSE x \in free : TRUE) \in free
      OBVIOUS
    <3> QED BY <1>4, <3>1 DEF createWorkspace, Goes, Answers, pluginSlugConflict
  <2>2. job.slug \in Slugs /\ job.user \in Users
    BY <1>0, <2>1 DEF InputsFit, Job
  <2> HIDE DEF job
  <2>3. CASE UNCHANGED <<wsSlug, members>>
    BY <1>0, <2>1, <2>3, AnswerStep DEF PlanShape, RowShape, job
  <2>4. ASSUME NEW w \in Workspaces, wsSlug[w] = NoSlug,
               wsSlug' = [wsSlug EXCEPT ![w] = job.slug],
               members' = members \cup {<<w, job.user>>}
        PROVE  PlanShape'
    <3>1. members' \subseteq Workspaces \X Users
      BY <2>2, <2>4 DEF PlanShape, RowShape
    <3>2. wsSlug' \in [Workspaces -> Slugs \cup {NoSlug, Absent}] /\ wsSlug'[FirstWs] # NoSlug
      BY <2>2, <2>4, PlansAssumption DEF PlanShape, RowShape
    <3>3. RowShape' /\ Len(invites) <= Len(invites')
      BY <1>0, <2>1, <3>1, <3>2 DEF PlanShape, RowShape
    <3> QED BY <2>1, <3>3, AnswerStep DEF job
  <2> QED BY <2>1, <2>3, <2>4
<1>5. CASE updateWorkspace(p)
  <2>1. /\ job.op = "reslug" /\ job.step = "plugin" /\ UNCHANGED <<env, stored>>
        /\ UNCHANGED <<accounts, verified, members, invites, boards, boardTrail, deletions, offered>>
        /\ wsSlug' = wsSlug \/ wsSlug' = [wsSlug EXCEPT ![job.ws] = job.slug]
        /\ \E answer \in Answers : planJob' = [planJob EXCEPT ![p] = Answered(job, answer)]
    BY <1>5 DEF updateWorkspace, Goes, Answers, pluginSlugConflict
  <2>2. job.slug \in Slugs
    BY <1>0, <2>1 DEF InputsFit, Job
  <2> HIDE DEF job
  <2>3. wsSlug' \in [Workspaces -> Slugs \cup {NoSlug, Absent}] /\ wsSlug'[FirstWs] # NoSlug
    BY <2>1, <2>2, PlansAssumption DEF PlanShape, RowShape
  <2>4. RowShape' /\ Len(invites) <= Len(invites')
    BY <1>0, <2>1, <2>3 DEF PlanShape, RowShape
  <2> QED BY <2>1, <2>4, AnswerStep DEF job
<1>6. CASE BeginWorkspaceRemove(p)
  <2>1. PICK w \in liveWorkspaces :
           Admit(p, [IdleJob EXCEPT !.op = "remove", !.step = "delete", !.ws = w])
    BY <1>6 DEF BeginWorkspaceRemove
  <2> DEFINE new == [IdleJob EXCEPT !.op = "remove", !.step = "delete", !.ws = w]
  <2>2. w \in Workspaces
    BY DEF liveWorkspaces
  <2>3. planJob' = [planJob EXCEPT ![p] = new] /\ UNCHANGED <<env, stored, planRows>>
    BY <2>1 DEF Admit
  <2>4. new \in Job
    BY <2>2, IdleJobFits DEF Job, Ops, Steps
  <2>5. InputsFit(new) /\ new.seen = {} /\ new.got = 0
    BY DEF IdleJob, InputsFit
  <2> HIDE DEF new
  <2> QED BY <1>0, <2>3, <2>4, <2>5, ReadStep
<1>7. CASE removeWorkspace(p)
  <2>1. /\ wsSlug' = [wsSlug EXCEPT ![job.ws] = Absent] /\ members' \subseteq members
        /\ UNCHANGED <<env, stored>> /\ job.op = "remove"
        /\ UNCHANGED <<accounts, verified, invites, boards, boardTrail, deletions, offered>>
        /\ \/ planJob' = [planJob EXCEPT ![p] = [job EXCEPT !.step = "log"]]
           \/ planJob' = [planJob EXCEPT ![p] = Answered(job, "refused")]
    BY <1>7 DEF removeWorkspace, Goes
  <2>2. "refused" \in Answers
    BY DEF Answers
  <2> HIDE DEF job
  <2>3. wsSlug' \in [Workspaces -> Slugs \cup {NoSlug, Absent}] /\ wsSlug'[FirstWs] # NoSlug
    BY <2>1, PlansAssumption DEF PlanShape, RowShape
  <2>4. RowShape' /\ Len(invites) <= Len(invites') /\ invites' = invites
    BY <1>0, <2>1, <2>3 DEF PlanShape, RowShape
  <2>5. CASE planJob' = [planJob EXCEPT ![p] = Answered(job, "refused")]
    BY <2>2, <2>4, <2>5, AnswerStep DEF job
  <2>6. CASE planJob' = [planJob EXCEPT ![p] = [job EXCEPT !.step = "log"]]
    <3> DEFINE new == [job EXCEPT !.step = "log"]
    <3>1. planJob' = [planJob EXCEPT ![p] = new]
      BY <2>6
    <3>2. new \in Job /\ new.seen = job.seen /\ new.got = job.got
      BY <1>0 DEF Job, Steps
    <3>3. InputsFit(new)
      BY <1>0, <2>1 DEF InputsFit, Job
    <3>4. new.seen \subseteq DOMAIN invites' /\ new.got \in 0 .. Len(invites')
      BY <1>0, <2>4, <3>2
    <3> HIDE DEF new
    <3> QED BY <2>4, <3>1, <3>2, <3>3, <3>4, ShapeStep
  <2> QED BY <2>1, <2>5, <2>6
<1>8. CASE LogDeletion(p)
  <2>1. RowShape' /\ Len(invites) <= Len(invites')
    BY <1>0, <1>8 DEF LogDeletion, Goes, PlanShape, RowShape
  <2>2. planJob' = [planJob EXCEPT ![p] = Answered(job, "ok")] /\ "ok" \in Answers
    BY <1>8 DEF LogDeletion, Goes, Answers
  <2> QED BY <2>1, <2>2, AnswerStep
<1> QED BY <1>1, <1>2, <1>3, <1>4, <1>5, <1>6, <1>7, <1>8 DEF WorkspaceStep

(* Every step leaves the shape.                                            *)
LEMMA NextShape == PlanShape /\ [PlansNext]_planVars => PlanShape'
<1> SUFFICES ASSUME PlanShape, [PlansNext]_planVars PROVE PlanShape'
  OBVIOUS
<1>0. 0 \in 0 .. Len(invites) /\ Len(invites) <= Len(invites)
  BY Counts
<1>1. CASE UNCHANGED planVars
  BY <1>1 DEF planVars, planRows, PlanShape, RowShape
<1>2. ASSUME NEW p \in Procs, BeginSignUp(p) PROVE PlanShape'
  <2>1. PICK u \in Users \ accounts :
           Admit(p, [IdleJob EXCEPT !.op = "signUp", !.step = "plugin", !.user = u,
                                    !.count = Cardinality(accounts)])
    BY <1>2 DEF BeginSignUp
  <2> DEFINE k == Cardinality(accounts)
  <2> DEFINE new == [IdleJob EXCEPT !.op = "signUp", !.step = "plugin", !.user = u, !.count = k]
  <2>2. k \in Nat
    BY Counts
  <2>3. planJob' = [planJob EXCEPT ![p] = new] /\ UNCHANGED <<env, stored, planRows>>
    BY <2>1 DEF Admit
  <2> HIDE DEF k
  <2>4. new \in Job
    BY <2>2, IdleJobFits DEF Job, Ops, Steps
  <2>5. InputsFit(new) /\ new.seen = {} /\ new.got = 0
    BY DEF IdleJob, InputsFit
  <2> HIDE DEF new
  <2> QED BY <1>0, <2>3, <2>4, <2>5, ReadStep
<1>3. ASSUME NEW p \in Procs, signUp(p) PROVE PlanShape'
  <2>1. planJob[p].user \in Users
    BY DEF PlanShape, Job
  <2>2. /\ accounts' = accounts \/ accounts' = accounts \cup {planJob[p].user}
        /\ UNCHANGED <<env, stored>>
        /\ UNCHANGED <<verified, wsSlug, members, invites, boards, boardTrail, deletions, offered>>
        /\ \E answer \in Answers : planJob' = [planJob EXCEPT ![p] = Answered(planJob[p], answer)]
    BY <1>3 DEF signUp, Goes, Answers
  <2>3. RowShape' /\ Len(invites) <= Len(invites')
    BY <1>0, <2>1, <2>2 DEF PlanShape, RowShape
  <2> QED BY <2>2, <2>3, AnswerStep
<1>4. CASE Expire
  <2>1. PICK i \in pendingInvitations : invites' = [invites EXCEPT ![i].stale = TRUE]
    BY <1>4 DEF Expire
  <2>2. UNCHANGED <<env, stored, traffic, accounts, verified, wsSlug, members, boards,
                   boardTrail, deletions, offered, planJob, planRequests>>
    BY <1>4 DEF Expire
  <2>3. i \in DOMAIN invites /\ invites[i] \in Invitation
    BY Counts DEF PlanShape, RowShape
  <2>4. [invites[i] EXCEPT !.stale = TRUE] \in Invitation
    BY <2>3 DEF Invitation
  <2>5. invites' = [invites EXCEPT ![i] = [invites[i] EXCEPT !.stale = TRUE]]
    BY <2>1
  <2>6. invites' \in Seq(Invitation) /\ Len(invites') = Len(invites) /\ DOMAIN invites' = DOMAIN invites
    BY <2>3, <2>4, <2>5 DEF PlanShape, RowShape
  <2> QED BY <2>2, <2>6 DEF PlanShape, RowShape
<1>5. CASE DeleteAccount
  BY <1>5 DEF DeleteAccount, PlanShape, RowShape
<1> QED BY <1>1, <1>2, <1>3, <1>4, <1>5, InvitationShape, BoardShape, WorkspaceShape
        DEF PlansNext, PlanStep

-----------------------------------------------------------------------------
(* Who takes a place, and who has found room for one.                      *)

(* Only the request of p moves, and no ceiling does.                       *)
Moves(p) == /\ UNCHANGED <<env, stored>>
            /\ \A q \in Procs : q # p => planJob'[q] = planJob[q]

(* The ceilings are the same after a step.                                 *)
LEMMA CeilingsStay ==
    ASSUME UNCHANGED <<env, stored>>
    PROVE  /\ \A k \in {"seats", "boards"} :
                 resolveWorkspacePlanLimits(k)' = resolveWorkspacePlanLimits(k)
           /\ \A k \in CeilingKinds : instanceLimits(k)' = instanceLimits(k)
BY DEF resolveWorkspacePlanLimits, instanceLimits

(* Whoever takes a place after a step is p, or took it before.             *)
LEMMA Takers ==
    ASSUME NEW p \in Procs, Moves(p)
    PROVE  /\ Seating' \subseteq Seating \cup {p} /\ Inviting' \subseteq Inviting \cup {p}
           /\ Boarding' \subseteq Boarding \cup {p} /\ Founding' \subseteq Founding \cup {p}
           /\ Joining' \subseteq Joining \cup {p}
           /\ p \in Seating' <=> TakesSeat(planJob'[p])
           /\ p \in Inviting' <=> Invites(planJob'[p])
           /\ p \in Boarding' <=> TakesBoard(planJob'[p])
           /\ p \in Founding' <=> TakesWorkspace(planJob'[p])
           /\ p \in Joining' <=> TakesAccount(planJob'[p])
<1>1. /\ resolveWorkspacePlanLimits("seats")' = resolveWorkspacePlanLimits("seats")
      /\ resolveWorkspacePlanLimits("boards")' = resolveWorkspacePlanLimits("boards")
      /\ instanceLimits("workspaces")' = instanceLimits("workspaces")
      /\ instanceLimits("users")' = instanceLimits("users")
  BY CeilingsStay DEF Moves, CeilingKinds
<1>2. \A q \in Procs : q # p => planJob'[q] = planJob[q]
  BY DEF Moves
<1>3. Seating' \subseteq Seating \cup {p} /\ (p \in Seating' <=> TakesSeat(planJob'[p]))
  BY <1>1, <1>2 DEF Seating, TakesSeat, HasRoom
<1>4. Inviting' \subseteq Inviting \cup {p} /\ (p \in Inviting' <=> Invites(planJob'[p]))
  BY <1>1, <1>2 DEF Inviting, Invites, HasRoom
<1>5. Boarding' \subseteq Boarding \cup {p} /\ (p \in Boarding' <=> TakesBoard(planJob'[p]))
  BY <1>1, <1>2 DEF Boarding, TakesBoard, HasRoom
<1>6. Founding' \subseteq Founding \cup {p} /\ (p \in Founding' <=> TakesWorkspace(planJob'[p]))
  BY <1>1, <1>2 DEF Founding, TakesWorkspace, HasRoom
<1>7. Joining' \subseteq Joining \cup {p} /\ (p \in Joining' <=> TakesAccount(planJob'[p]))
  BY <1>1, <1>2 DEF Joining, TakesAccount, HasRoom
<1> QED BY <1>3, <1>4, <1>5, <1>6, <1>7

(* A status that is no longer pending adds no invitee.                     *)
LEMMA Withdrawn ==
    ASSUME PlanShape, NEW i, NEW status \in {"accepted", "canceled"}, SetStatus(i, status)
    PROVE  invitees' \subseteq invitees
<1>1. status \in Statuses /\ status # "pending"
  BY DEF Statuses
<1>2. /\ DOMAIN invites' = DOMAIN invites
      /\ i \in DOMAIN invites => invites'[i].status = status
      /\ \A j \in DOMAIN invites : j # i => invites'[j] = invites[j]
  <2>1. /\ invites' \in Seq(Invitation) /\ Len(invites') = Len(invites)
        /\ \A j \in DOMAIN invites : j # i => invites'[j] = invites[j]
        /\ i \in DOMAIN invites => invites'[i].status = status
    BY <1>1, StatusStep
  <2> QED BY <2>1, Counts
<1>3. \A j \in pendingInvitations' : j \in pendingInvitations /\ invites'[j] = invites[j]
  BY <1>1, <1>2 DEF pendingInvitations
<1> QED BY <1>3 DEF invitees

(* A new invitation adds one invitee.                                      *)
LEMMA Sent ==
    ASSUME PlanShape, NEW inv \in Invitation, invites' = Append(invites, inv)
    PROVE  invitees' \subseteq invitees \cup {inv.email}
<1>1. /\ invites \in Seq(Invitation) /\ DOMAIN invites' = 1 .. Len(invites) + 1
      /\ DOMAIN invites = 1 .. Len(invites) /\ Len(invites) \in Nat
      /\ invites'[Len(invites) + 1] = inv
      /\ \A j \in DOMAIN invites : invites'[j] = invites[j]
  BY DEF PlanShape, RowShape
<1>2. \A j \in DOMAIN invites' : j \in DOMAIN invites \/ invites'[j] = inv
  BY <1>1
<1>3. \A j \in pendingInvitations' : \/ j \in pendingInvitations /\ invites'[j] = invites[j]
                                    \/ invites'[j] = inv
  BY <1>1, <1>2 DEF pendingInvitations
<1> QED BY <1>3 DEF invitees

(* What a step does to the seats: nobody new is let through or seated, or  *)
(* p found a seat free, or p was let through and is seated now.            *)
SeatEffect(p) ==
    \/ seated' \subseteq seated /\ (TakesSeat(planJob'[p]) => TakesSeat(planJob[p]))
    \/ seated' = seated /\ HasRoom([count |-> Cardinality(seated)], resolveWorkspacePlanLimits("seats"))
    \/ /\ TakesSeat(planJob[p]) /\ ~TakesSeat(planJob'[p])
       /\ \E u \in Users : seated' = seated \cup {<<FirstWs, u>>}

(* What a step does to the invitees, in the same way.                      *)
InviteEffect(p) ==
    \/ /\ invitees' \subseteq invitees \cup {u \in {planJob[p].user} : Invites(planJob[p])}
       /\ Invites(planJob'[p]) => /\ planJob'[p].user = planJob[p].user
                                  /\ Invites(planJob[p]) \/ planJob[p].user \in invitees
    \/ /\ invites' = invites
       /\ HasRoom([count |-> Cardinality(pendingInvitations)], resolveWorkspacePlanLimits("seats"))

(* Nobody is refused by a ceiling that is not there.                       *)
RefusalEffect(p) ==
    planJob'[p].answer = "plan" =>
        \/ planJob[p].answer = "plan" /\ planJob'[p].op = planJob[p].op
        \/ /\ planJob'[p].op \in {"invite", "accept"} => resolveWorkspacePlanLimits("seats") # NoCeiling
           /\ planJob'[p].op = "board" => resolveWorkspacePlanLimits("boards") # NoCeiling

(* What an answered request does: it takes nothing and sends nothing.      *)
LEMMA AnsweredTakesNothing ==
    ASSUME NEW job \in Job, NEW answer \in Answers
    PROVE  LET new == Answered(job, answer)
           IN ~TakesSeat(new) /\ ~Invites(new) /\ ~TakesBoard(new) /\ ~TakesWorkspace(new)
              /\ ~TakesAccount(new)
BY AnswersFit DEF TakesSeat, Invites, TakesBoard, TakesWorkspace, TakesAccount

(* An invitation that is asked for, sent, withdrawn or accepted.           *)
LEMMA InvitationEffect ==
    ASSUME PlanShape, NEW p \in Procs, InvitationStep(p)
    PROVE  /\ Moves(p) /\ UNCHANGED <<boards, wsSlug, accounts>>
           /\ planJob'[p].op \in {"invite", "accept", "revoke"}
           /\ SeatEffect(p) /\ InviteEffect(p) /\ RefusalEffect(p)
<1> DEFINE job == planJob[p]
<1> DEFINE new == planJob'[p]
<1> DEFINE c == resolveWorkspacePlanLimits("seats")
<1> DEFINE Done(answer) == planJob' = [planJob EXCEPT ![p] = Answered(job, answer)]
<1> DEFINE Goal == /\ Moves(p) /\ UNCHANGED <<boards, wsSlug, accounts>>
                   /\ new.op \in {"invite", "accept", "revoke"}
                   /\ SeatEffect(p) /\ InviteEffect(p) /\ RefusalEffect(p)
<1>0. /\ job \in Job /\ InputsFit(job) /\ planJob \in [Procs -> Job]
      /\ job.seen \subseteq DOMAIN invites /\ job.got \in 0 .. Len(invites)
  BY DEF PlanShape
<1>1. c \in (Nat \ {0}) \cup {NoCeiling} /\ NoCeiling \notin Nat
  BY WorkspaceCeilings, PlansAssumption
<1>2. /\ UNCHANGED members => seated' = seated
      /\ UNCHANGED invites => invitees' = invitees
  BY DEF seated, invitees, pendingInvitations
<1>3. \A answer \in Answers : Done(answer) =>
         /\ new.op = job.op /\ new.answer = answer
         /\ ~TakesSeat(new) /\ ~Invites(new)
  BY <1>0, AnswersFit, AnsweredTakesNothing
<1>4. CASE BeginInvite(p)
  <2>1. PICK u \in Users, r \in InvitableRoles :
           Admit(p, [IdleJob EXCEPT !.op = "invite", !.step = "pending", !.user = u, !.role = r])
    BY <1>4 DEF BeginInvite
  <2>2. /\ planJob' = [planJob EXCEPT ![p] = [IdleJob EXCEPT !.op = "invite", !.step = "pending",
                                                             !.user = u, !.role = r]]
        /\ UNCHANGED <<env, stored, planRows>>
    BY <2>1 DEF Admit
  <2>3. new.op = "invite" /\ new.step = "pending" /\ new.answer = "none"
    BY <1>0, <2>2 DEF IdleJob
  <2>4. ~TakesSeat(new) /\ ~Invites(new)
    BY <2>3 DEF TakesSeat, Invites
  <2>5. Moves(p) /\ UNCHANGED <<boards, wsSlug, accounts, members, invites>>
    BY <1>0, <2>2 DEF Moves, planRows
  <2> QED BY <1>2, <2>3, <2>4, <2>5 DEF SeatEffect, InviteEffect, RefusalEffect
<1>5. CASE findPendingInvitations(p)
  <2> DEFINE own == {i \in pendingInvitations : invites[i].email = job.user}
  <2>1. /\ job.op = "invite" /\ job.step = "pending"
        /\ \E step \in {"count", "cancel", "find"} :
              /\ own = {} <=> step = "count"
              /\ planJob' = [planJob EXCEPT ![p] = [job EXCEPT !.seen = own, !.step = step]]
        /\ UNCHANGED <<env, stored, planRows>>
    BY <1>5 DEF findPendingInvitations, Goes
  <2>2. PICK step \in {"count", "cancel", "find"} :
           /\ own = {} <=> step = "count"
           /\ planJob' = [planJob EXCEPT ![p] = [job EXCEPT !.seen = own, !.step = step]]
    BY <2>1
  <2>3. own # {} => job.user \in invitees
    BY DEF invitees
  <2> HIDE DEF own
  <2>4. /\ new.op = "invite" /\ new.step = step /\ new.answer = job.answer
        /\ new.user = job.user /\ new.counted = job.counted
    BY <1>0, <2>1, <2>2 DEF Job
  <2>5. job.counted = {}
    BY <1>0, <2>1 DEF InputsFit
  <2>6. ~TakesSeat(new) /\ (Invites(new) => job.user \in invitees)
    BY <2>2, <2>3, <2>4, <2>5 DEF TakesSeat, Invites
  <2>7. Moves(p) /\ UNCHANGED <<boards, wsSlug, accounts, members, invites>>
    BY <1>0, <2>1, <2>2 DEF Moves, planRows
  <2> QED BY <1>2, <2>1, <2>4, <2>6, <2>7 DEF SeatEffect, InviteEffect, RefusalEffect
<1>6. ASSUME NEW what \in {"members", "invitations"}, CountSeats(p, what)
      PROVE  Goal
  <2> DEFINE n == IF what = "members" THEN memberCount ELSE Cardinality(pendingInvitations)
  <2>1. /\ job.op \in {"invite", "accept"} /\ job.step = "count" /\ what \notin job.counted
        /\ what = "invitations" => job.op = "invite"
        /\ planJob' = [planJob EXCEPT ![p] = [job EXCEPT !.counted = @ \cup {what}, !.count = @ + n]]
        /\ UNCHANGED <<env, stored, planRows>>
    BY <1>6 DEF CountSeats, Goes
  <2>2. n \in Nat /\ (what = "members" => n = Cardinality(seated))
    BY Counts
  <2>9. what = "invitations" => n = Cardinality(pendingInvitations)
    OBVIOUS
  <2> HIDE DEF n
  <2>3. /\ new.op = job.op /\ new.step = "count" /\ new.user = job.user /\ new.answer = job.answer
        /\ new.counted = job.counted \cup {what} /\ new.count = job.count + n
    BY <1>0, <2>1 DEF Job
  <2>4. job.count \in Nat
    BY <1>0 DEF Job
  <2> HIDE DEF job, new, c
  <2>5. HasRoom(new, c) => HasRoom(job, c) /\ HasRoom([count |-> n], c)
    BY <1>1, <2>2, <2>3, <2>4 DEF HasRoom
  <2>6. Moves(p) /\ UNCHANGED <<boards, wsSlug, accounts, members, invites>>
    BY <1>0, <2>1 DEF Moves, planRows, job
  <2>7. SeatEffect(p)
    <3>1. TakesSeat(new) => TakesSeat(job) \/ (what = "members" /\ HasRoom([count |-> n], c))
      BY <2>1, <2>3, <2>5 DEF TakesSeat, c
    <3> QED BY <1>2, <2>2, <2>6, <3>1 DEF SeatEffect, job, new, c
  <2>8. InviteEffect(p)
    <3>1. Invites(new) => Invites(job) \/ (what = "invitations" /\ HasRoom([count |-> n], c))
      BY <2>1, <2>3, <2>5 DEF Invites, c
    <3> QED BY <1>2, <2>3, <2>9, <2>6, <3>1 DEF InviteEffect, job, new, c
  <2> QED BY <2>1, <2>3, <2>6, <2>7, <2>8 DEF RefusalEffect, job, new
<1>7. CASE assertSeatAvailable(p)
  <2> DEFINE on == [job EXCEPT !.step = "find", !.counted = {}, !.count = 0]
  <2>1. /\ job.op \in {"invite", "accept"} /\ job.step = "count"
        /\ job.counted = IF job.op = "invite" THEN {"members", "invitations"} ELSE {"members"}
        /\ planJob' = [planJob EXCEPT ![p] = IF Exceeds(job.count, c) THEN Answered(job, "plan") ELSE on]
        /\ UNCHANGED <<env, stored, planRows>>
    BY <1>7 DEF assertSeatAvailable, Goes
  <2>2. Moves(p) /\ UNCHANGED <<boards, wsSlug, accounts, members, invites>>
    BY <1>0, <2>1 DEF Moves, planRows
  <2>3. job.count \in Nat /\ "plan" \in Answers
    BY <1>0 DEF Job, Answers
  <2>4. CASE Exceeds(job.count, c)
    <3>1. Done("plan")
      BY <2>1, <2>4
    <3>2. c # NoCeiling
      BY <2>4 DEF Exceeds
    <3>3. new.op = job.op /\ ~TakesSeat(new) /\ ~Invites(new)
      BY <1>3, <2>3, <3>1
    <3> HIDE DEF job, new, c
    <3> QED BY <1>2, <2>1, <2>2, <3>2, <3>3 DEF SeatEffect, InviteEffect, RefusalEffect, new, c
  <2>5. CASE ~Exceeds(job.count, c)
    <3>1. HasRoom(job, c)
      BY <1>1, <2>3, <2>5 DEF Exceeds, HasRoom
    <3>2. new.op = job.op /\ new.step = "find" /\ new.user = job.user /\ new.answer = job.answer
      BY <1>0, <2>1, <2>5 DEF Job
    <3> HIDE DEF job, new, c
    <3>3. TakesSeat(new) => TakesSeat(job)
      BY <2>1, <3>1, <3>2 DEF TakesSeat, c
    <3>4. Invites(new) => Invites(job)
      BY <2>1, <3>1, <3>2 DEF Invites, c
    <3> QED BY <1>2, <2>1, <2>2, <3>2, <3>3, <3>4 DEF SeatEffect, InviteEffect, RefusalEffect, job, new
  <2> QED BY <2>4, <2>5
<1>8. CASE CancelPending(p)
  <2>1. PICK i \in job.seen :
           /\ SetStatus(i, "canceled")
           /\ Goes(p, [job EXCEPT !.seen = @ \ {i},
                                  !.step = IF job.seen = {i} THEN "find" ELSE "cancel"])
    BY <1>8 DEF CancelPending
  <2>2. /\ job.op = "invite" /\ job.step = "cancel"
        /\ \E step \in {"find", "cancel"} :
              planJob' = [planJob EXCEPT ![p] = [job EXCEPT !.seen = @ \ {i}, !.step = step]]
        /\ UNCHANGED <<env, stored, accounts, wsSlug, members, boards>>
    BY <1>8, <2>1 DEF CancelPending, Goes
  <2>3. invitees' \subseteq invitees
    BY <2>1, Withdrawn
  <2>4. /\ new.op = job.op /\ new.step \in {"find", "cancel"} /\ new.user = job.user
        /\ new.answer = job.answer
    BY <1>0, <2>2 DEF Job
  <2>5. Invites(job) /\ ~TakesSeat(new)
    BY <2>2, <2>4 DEF Invites, TakesSeat
  <2>6. Moves(p)
    BY <1>0, <2>2 DEF Moves
  <2> QED BY <1>2, <2>2, <2>3, <2>4, <2>5, <2>6 DEF SeatEffect, InviteEffect, RefusalEffect
<1>9. CASE pluginResend(p)
  <2>1. /\ job.op = "invite" /\ job.step = "find" /\ UNCHANGED <<env, stored, planRows>>
        /\ \/ Done("refused")
           \/ \E step \in {"insert", "check"}, i \in Nat :
                 planJob' = [planJob EXCEPT ![p] = [job EXCEPT !.step = step, !.got = i, !.seen = {}]]
    <3> DEFINE own == {i \in pendingInvitations : invites[i].email = job.user}
    <3>1. own \subseteq Nat
      BY Counts
    <3>2. [job EXCEPT !.step = "insert", !.seen = {}] =
             [job EXCEPT !.step = "insert", !.got = job.got, !.seen = {}] /\ job.got \in Nat
      BY <1>0 DEF Job
    <3> QED BY <1>9, <3>1, <3>2 DEF pluginResend, Goes
  <2>2. Moves(p) /\ UNCHANGED <<boards, wsSlug, accounts, members, invites>>
    BY <1>0, <2>1 DEF Moves, planRows
  <2>3. CASE Done("refused")
    <3>1. new.op = job.op /\ new.answer # "plan" /\ ~TakesSeat(new) /\ ~Invites(new)
      BY <1>3, <2>3 DEF Answers
    <3> HIDE DEF job, new, c
    <3> QED BY <1>2, <2>1, <2>2, <3>1 DEF SeatEffect, InviteEffect, RefusalEffect, new
  <2>4. ASSUME NEW step \in {"insert", "check"}, NEW i \in Nat,
               planJob' = [planJob EXCEPT ![p] = [job EXCEPT !.step = step, !.got = i, !.seen = {}]]
        PROVE  Goal
    <3>1. new.op = job.op /\ new.step = step /\ new.user = job.user /\ new.answer = job.answer
      BY <1>0, <2>4 DEF Job
    <3>2. Invites(job) /\ ~TakesSeat(new)
      BY <2>1, <3>1 DEF Invites, TakesSeat
    <3> HIDE DEF job, new, c
    <3> QED BY <1>2, <2>1, <2>2, <3>1, <3>2 DEF SeatEffect, InviteEffect, RefusalEffect, job, new
  <2> HIDE DEF Done, Goal
  <2> QED BY <2>1, <2>3, <2>4 DEF Goal
<1>10. CASE pluginInvite(p)
  <2> DEFINE inv == [email |-> job.user, role |-> job.role, status |-> "pending", stale |-> FALSE]
  <2>1. /\ job.op = "invite" /\ job.step = "insert" /\ invites' = Append(invites, inv)
        /\ planJob' = [planJob EXCEPT ![p] = [job EXCEPT !.step = "check", !.got = Len(invites) + 1]]
        /\ UNCHANGED <<env, stored, accounts, wsSlug, members, boards>>
    BY <1>10 DEF pluginInvite, Goes
  <2>2. inv \in Invitation /\ inv.email = job.user
    BY <1>0, <2>1 DEF InputsFit, Job, Invitation, Statuses
  <2> HIDE DEF inv
  <2>3. invitees' \subseteq invitees \cup {job.user}
    BY <2>1, <2>2, Sent
  <2>4. new.op = job.op /\ new.step = "check" /\ new.answer = job.answer
    BY <1>0, <2>1 DEF Job
  <2>5. Invites(job) /\ ~Invites(new) /\ ~TakesSeat(new)
    BY <2>1, <2>4 DEF Invites, TakesSeat
  <2>6. Moves(p)
    BY <1>0, <2>1 DEF Moves
  <2> QED BY <1>2, <2>1, <2>3, <2>4, <2>5, <2>6 DEF SeatEffect, InviteEffect, RefusalEffect
<1>11. CASE createInvitation(p)
  <2>1. PICK answer \in {"ok", "conflict"} : Done(answer)
    BY <1>11 DEF createInvitation, Goes
  <2>2. job.op = "invite" /\ UNCHANGED <<env, stored, accounts, wsSlug, members, invites, boards>>
    BY <1>11 DEF createInvitation, Goes
  <2>3. new.op = job.op /\ new.answer # "plan" /\ ~TakesSeat(new) /\ ~Invites(new)
    BY <1>3, <2>1 DEF Answers
  <2>4. Moves(p)
    BY <1>0, <2>1, <2>2 DEF Moves
  <2> HIDE DEF job, new, c
  <2> QED BY <1>2, <2>2, <2>3, <2>4 DEF SeatEffect, InviteEffect, RefusalEffect, new
<1>12. CASE BeginRevoke(p)
  <2>1. PICK i \in DOMAIN invites :
           Admit(p, [IdleJob EXCEPT !.op = "revoke", !.step = "cancel", !.got = i])
    BY <1>12 DEF BeginRevoke
  <2>2. /\ planJob' = [planJob EXCEPT ![p] = [IdleJob EXCEPT !.op = "revoke", !.step = "cancel", !.got = i]]
        /\ UNCHANGED <<env, stored, planRows>>
    BY <2>1 DEF Admit
  <2>3. new.op = "revoke" /\ new.answer = "none"
    BY <1>0, <2>2 DEF IdleJob
  <2>4. ~TakesSeat(new) /\ ~Invites(new)
    BY <2>3 DEF TakesSeat, Invites
  <2>5. Moves(p) /\ UNCHANGED <<boards, wsSlug, accounts, members, invites>>
    BY <1>0, <2>2 DEF Moves, planRows
  <2> QED BY <1>2, <2>3, <2>4, <2>5 DEF SeatEffect, InviteEffect, RefusalEffect
<1>13. CASE revokeInvitation(p)
  <2>1. /\ job.op = "revoke" /\ SetStatus(job.got, "canceled") /\ Done("ok")
        /\ UNCHANGED <<env, stored, accounts, wsSlug, members, boards>>
    BY <1>13 DEF revokeInvitation, Goes
  <2>2. new.op = job.op /\ new.answer # "plan" /\ ~TakesSeat(new) /\ ~Invites(new)
    BY <1>3, <2>1 DEF Answers
  <2>3. invitees' \subseteq invitees
    BY <2>1, Withdrawn
  <2>4. Moves(p)
    BY <1>0, <2>1 DEF Moves
  <2> HIDE DEF job, new, c
  <2> QED BY <1>2, <2>1, <2>2, <2>3, <2>4 DEF SeatEffect, InviteEffect, RefusalEffect, new
<1>14. CASE BeginAccept(p)
  <2>1. PICK i \in DOMAIN invites :
           Admit(p, [IdleJob EXCEPT !.op = "accept", !.step = "count", !.got = i])
    BY <1>14 DEF BeginAccept
  <2>2. /\ planJob' = [planJob EXCEPT ![p] = [IdleJob EXCEPT !.op = "accept", !.step = "count", !.got = i]]
        /\ UNCHANGED <<env, stored, planRows>>
    BY <2>1 DEF Admit
  <2>3. new.op = "accept" /\ new.step = "count" /\ new.counted = {} /\ new.answer = "none"
    BY <1>0, <2>2 DEF IdleJob
  <2>4. ~TakesSeat(new) /\ ~Invites(new)
    BY <2>3 DEF TakesSeat, Invites
  <2>5. Moves(p) /\ UNCHANGED <<boards, wsSlug, accounts, members, invites>>
    BY <1>0, <2>2 DEF Moves, planRows
  <2> QED BY <1>2, <2>3, <2>4, <2>5 DEF SeatEffect, InviteEffect, RefusalEffect
<1>15. CASE acceptInvitation(p)
  <2>1. /\ job.op = "accept" /\ job.step = "find"
        /\ UNCHANGED <<env, stored, accounts, wsSlug, boards>>
        /\ \/ UNCHANGED <<invites, members>> /\ Done("refused")
           \/ /\ pluginAcceptable(job.got) /\ SetStatus(job.got, "accepted") /\ Done("ok")
              /\ members' = members \cup {<<FirstWs, invites[job.got].email>>}
    BY <1>15 DEF acceptInvitation, Goes
  <2>2. new.op = job.op /\ new.answer # "plan" /\ ~TakesSeat(new) /\ ~Invites(new)
    BY <1>3, <2>1 DEF Answers
  <2>3. invitees' \subseteq invitees
    BY <1>2, <2>1, Withdrawn
  <2>4. seated' = seated \/ \E u \in Users : seated' = seated \cup {<<FirstWs, u>>}
    <3>1. CASE UNCHANGED members
      BY <1>2, <3>1
    <3>2. CASE pluginAcceptable(job.got) /\ members' = members \cup {<<FirstWs, invites[job.got].email>>}
      <4>1. invites[job.got].email \in Users
        <5>1. job.got \in DOMAIN invites
          BY <3>2, Counts DEF pluginAcceptable
        <5>2. invites[job.got] \in Invitation
          BY <5>1 DEF PlanShape, RowShape
        <5> QED BY <5>2 DEF Invitation
      <4> DEFINE u == invites[job.got].email
      <4>2. members' = members \cup {<<FirstWs, u>>}
        BY <3>2
      <4> HIDE DEF u
      <4>3. seated' = seated \cup {<<FirstWs, u>>}
        BY <4>2 DEF seated
      <4> QED BY <4>1, <4>3 DEF u
    <3> QED BY <2>1, <3>1, <3>2
  <2>5. Moves(p)
    BY <1>0, <2>1 DEF Moves
  <2>6. TakesSeat(job)
    BY <2>1 DEF TakesSeat
  <2> HIDE DEF job, new, c
  <2> QED BY <2>1, <2>2, <2>3, <2>4, <2>5, <2>6 DEF SeatEffect, InviteEffect, RefusalEffect, job, new
<1> HIDE DEF Goal
<1> QED BY <1>4, <1>5, <1>6, <1>7, <1>8, <1>9, <1>10, <1>11, <1>12, <1>13, <1>14, <1>15
        DEF InvitationStep, Goal

(* What a step does to the boards, in the same way.                        *)
BoardEffect(p) ==
    \/ liveBoards' \subseteq liveBoards /\ (TakesBoard(planJob'[p]) => TakesBoard(planJob[p]))
    \/ liveBoards' = liveBoards /\ HasRoom([count |-> Cardinality(liveBoards)],
                                           resolveWorkspacePlanLimits("boards"))
    \/ /\ TakesBoard(planJob[p]) /\ ~TakesBoard(planJob'[p])
       /\ \E b \in Nat : liveBoards' = liveBoards \cup {b}

(* A board that is asked for, made, renamed or removed.                    *)
LEMMA BoardStepEffect ==
    ASSUME PlanShape, NEW p \in Procs, BoardStep(p)
    PROVE  /\ Moves(p) /\ UNCHANGED <<invites, members, wsSlug, accounts>>
           /\ planJob'[p].op \in {"board", "rename", "drop"}
           /\ BoardEffect(p) /\ RefusalEffect(p)
<1> DEFINE job == planJob[p]
<1> DEFINE new == planJob'[p]
<1> DEFINE c == resolveWorkspacePlanLimits("boards")
<1> DEFINE Done(answer) == planJob' = [planJob EXCEPT ![p] = Answered(job, answer)]
<1>0. /\ job \in Job /\ planJob \in [Procs -> Job]
      /\ boards \in Seq(Names \cup {Absent}) /\ Absent \notin Names
      /\ DOMAIN boards = 1 .. Len(boards) /\ Len(boards) \in Nat
  BY PlansAssumption DEF PlanShape, RowShape
<1>1. c \in (Nat \ {0}) \cup {NoCeiling} /\ NoCeiling \notin Nat
  BY WorkspaceCeilings, PlansAssumption
<1>2. UNCHANGED boards => liveBoards' = liveBoards
  BY DEF liveBoards
<1>3. \A answer \in Answers : Done(answer) =>
         /\ new.op = job.op /\ new.answer = answer /\ ~TakesBoard(new)
  BY <1>0, AnswersFit, AnsweredTakesNothing
<1>4. CASE BeginBoard(p)
  <2> DEFINE n == Cardinality(liveBoards)
  <2>1. PICK name \in Names :
           Admit(p, [IdleJob EXCEPT !.op = "board", !.step = "insert", !.name = name, !.count = n])
    BY <1>4 DEF BeginBoard
  <2>2. /\ planJob' = [planJob EXCEPT ![p] = [IdleJob EXCEPT !.op = "board", !.step = "insert",
                                                             !.name = name, !.count = n]]
        /\ UNCHANGED <<env, stored, planRows>>
    BY <2>1 DEF Admit
  <2> HIDE DEF n
  <2>3. new.op = "board" /\ new.answer = "none" /\ new.count = n
    BY <1>0, <2>2 DEF IdleJob
  <2>4. TakesBoard(new) => HasRoom([count |-> n], c)
    BY <2>3 DEF TakesBoard, HasRoom
  <2>5. Moves(p) /\ UNCHANGED <<invites, members, wsSlug, accounts, boards>>
    BY <1>0, <2>2 DEF Moves, planRows
  <2> QED BY <1>2, <2>3, <2>4, <2>5 DEF BoardEffect, RefusalEffect, n
<1>5. CASE createBoard(p)
  <2> DEFINE full == Exceeds(job.count, c)
  <2>1. /\ job.op = "board" /\ job.step = "insert"
        /\ UNCHANGED <<env, stored, invites, members, wsSlug, accounts>>
        /\ \/ full /\ UNCHANGED boards /\ Done("plan")
           \/ ~full /\ boards' = Append(boards, job.name) /\ Done("ok")
    BY <1>5 DEF createBoard, Goes
  <2>2. Moves(p)
    BY <1>0, <2>1 DEF Moves
  <2>3. new.op = job.op /\ ~TakesBoard(new) /\ (new.answer = "plan" => full)
    BY <1>3, <2>1 DEF Answers
  <2>4. full => c # NoCeiling
    BY DEF Exceeds
  <2>5. ~full => TakesBoard(job)
    <3>1. job.count \in Nat
      BY <1>0 DEF Job
    <3> QED BY <1>1, <2>1, <3>1 DEF TakesBoard, HasRoom, Exceeds
  <2>6. boards' = Append(boards, job.name)
           => liveBoards' \subseteq liveBoards \cup {Len(boards) + 1}
    <3>1. \A b \in 1 .. Len(boards) : Append(boards, job.name)[b] = boards[b]
      BY <1>0
    <3>2. DOMAIN Append(boards, job.name) = 1 .. Len(boards) + 1
      BY <1>0
    <3> QED BY <1>0, <3>1, <3>2 DEF liveBoards
  <2> HIDE DEF job, new, c, full
  <2>7. BoardEffect(p)
    <3>1. CASE UNCHANGED boards
      BY <1>2, <2>3, <3>1 DEF BoardEffect, new
    <3>2. CASE ~full /\ boards' = Append(boards, job.name)
      <4>1. liveBoards' \subseteq liveBoards \cup {Len(boards) + 1}
        BY <2>6, <3>2
      <4>2. liveBoards \subseteq liveBoards'
        <5>1. \A b \in 1 .. Len(boards) : Append(boards, job.name)[b] = boards[b]
          BY <1>0
        <5>2. DOMAIN Append(boards, job.name) = 1 .. Len(boards) + 1
          BY <1>0
        <5> QED BY <1>0, <3>2, <5>1, <5>2 DEF liveBoards
      <4>3. liveBoards' \subseteq liveBoards \/ liveBoards' = liveBoards \cup {Len(boards) + 1}
        BY <4>1, <4>2
      <4>4. Len(boards) + 1 \in Nat
        BY <1>0
      <4> QED BY <2>3, <2>5, <3>2, <4>3, <4>4 DEF BoardEffect, job, new
    <3> QED BY <2>1, <3>1, <3>2
  <2> QED BY <2>1, <2>2, <2>3, <2>4, <2>7 DEF RefusalEffect, new, c
<1>6. CASE BeginBoardUpdate(p)
  <2>1. PICK b \in liveBoards, name \in Names :
           Admit(p, [IdleJob EXCEPT !.op = "rename", !.step = "write", !.board = b, !.name = name])
    BY <1>6 DEF BeginBoardUpdate
  <2>2. /\ planJob' = [planJob EXCEPT ![p] = [IdleJob EXCEPT !.op = "rename", !.step = "write",
                                                             !.board = b, !.name = name]]
        /\ UNCHANGED <<env, stored, planRows>>
    BY <2>1 DEF Admit
  <2>3. new.op = "rename" /\ new.answer = "none"
    BY <1>0, <2>2 DEF IdleJob
  <2>4. ~TakesBoard(new)
    BY <2>3 DEF TakesBoard
  <2>5. Moves(p) /\ UNCHANGED <<invites, members, wsSlug, accounts, boards>>
    BY <1>0, <2>2 DEF Moves, planRows
  <2> QED BY <1>2, <2>3, <2>4, <2>5 DEF BoardEffect, RefusalEffect
<1>7. CASE updateBoard(p)
  <2>1. /\ job.op = "rename" /\ UNCHANGED <<env, stored, invites, members, wsSlug, accounts>>
        /\ \/ UNCHANGED boards
           \/ job.board \in liveBoards /\ boards' = [boards EXCEPT ![job.board] = job.name]
        /\ Done("refused") \/ Done("ok")
    BY <1>7 DEF updateBoard, Goes
  <2>2. new.op = job.op /\ new.answer # "plan" /\ ~TakesBoard(new)
    BY <1>3, <2>1 DEF Answers
  <2>3. Moves(p)
    BY <1>0, <2>1 DEF Moves
  <2>4. liveBoards' \subseteq liveBoards
    BY <1>0, <1>2, <2>1 DEF liveBoards
  <2> HIDE DEF job, new
  <2> QED BY <2>1, <2>2, <2>3, <2>4 DEF BoardEffect, RefusalEffect, new
<1>8. CASE removeBoard(p)
  <2>1. PICK b \in liveBoards :
           /\ boards' = [boards EXCEPT ![b] = Absent]
           /\ planJob' = [planJob EXCEPT ![p] = Answered([IdleJob EXCEPT !.op = "drop"], "ok")]
           /\ UNCHANGED <<env, stored, invites, members, wsSlug, accounts>>
    BY <1>8 DEF removeBoard
  <2>2. new.op = "drop" /\ new.answer = "ok"
    BY <1>0, <2>1 DEF Answered, IdleJob
  <2>3. ~TakesBoard(new)
    BY <2>2 DEF TakesBoard
  <2>4. Moves(p)
    BY <1>0, <2>1 DEF Moves
  <2>5. liveBoards' \subseteq liveBoards
    BY <1>0, <2>1 DEF liveBoards
  <2> HIDE DEF new
  <2> QED BY <2>1, <2>2, <2>3, <2>4, <2>5 DEF BoardEffect, RefusalEffect, new
<1> QED BY <1>4, <1>5, <1>6, <1>7, <1>8 DEF BoardStep

(* What a step does to the workspaces, in the same way.                    *)
WorkspaceEffect(p) ==
    \/ liveWorkspaces' \subseteq liveWorkspaces
       /\ (TakesWorkspace(planJob'[p]) => TakesWorkspace(planJob[p]))
    \/ liveWorkspaces' = liveWorkspaces /\ HasRoom([count |-> Cardinality(liveWorkspaces)],
                                                   instanceLimits("workspaces"))
    \/ /\ TakesWorkspace(planJob[p]) /\ ~TakesWorkspace(planJob'[p])
       /\ \E w \in Workspaces : liveWorkspaces' = liveWorkspaces \cup {w}

(* A workspace that is asked for, founded, renamed or removed; nobody is   *)
(* seated in the first one.                                                *)
LEMMA WorkspaceStepEffect ==
    ASSUME PlanShape, NEW p \in Procs, WorkspaceStep(p)
    PROVE  /\ Moves(p) /\ UNCHANGED <<invites, boards, accounts>> /\ seated' \subseteq seated
           /\ planJob'[p].op \in {"create", "reslug", "remove"}
           /\ WorkspaceEffect(p)
<1> DEFINE job == planJob[p]
<1> DEFINE new == planJob'[p]
<1> DEFINE c == instanceLimits("workspaces")
<1> DEFINE Done(answer) == planJob' = [planJob EXCEPT ![p] = Answered(job, answer)]
<1>0. /\ job \in Job /\ planJob \in [Procs -> Job] /\ InputsFit(job)
      /\ wsSlug \in [Workspaces -> Slugs \cup {NoSlug, Absent}] /\ wsSlug[FirstWs] # NoSlug
      /\ NoSlug \notin Slugs /\ Absent \notin Slugs
  BY PlansAssumption DEF PlanShape, RowShape
<1>1. c \in (Nat \ {0}) \cup {NoCeiling} /\ NoCeiling \notin Nat
  BY InstanceCeilings, PlansAssumption DEF CeilingKinds
<1>2. /\ UNCHANGED wsSlug => liveWorkspaces' = liveWorkspaces
      /\ UNCHANGED members => seated' = seated
  BY DEF liveWorkspaces, seated
<1>3. \A answer \in Answers : Done(answer) => new.op = job.op /\ ~TakesWorkspace(new)
  BY <1>0, AnswersFit, AnsweredTakesNothing
<1>4. CASE BeginWorkspace(p)
  <2> DEFINE n == Cardinality(liveWorkspaces)
  <2>1. PICK u \in accounts, s \in Slugs :
           Admit(p, [IdleJob EXCEPT !.op = "create", !.step = "slug", !.user = u, !.slug = s,
                                    !.count = n])
    BY <1>4 DEF BeginWorkspace
  <2>2. /\ planJob' = [planJob EXCEPT ![p] = [IdleJob EXCEPT !.op = "create", !.step = "slug",
                                                     !.user = u, !.slug = s, !.count = n]]
        /\ UNCHANGED <<env, stored, planRows>>
    BY <2>1 DEF Admit
  <2> HIDE DEF n
  <2>3. new.op = "create" /\ new.step = "slug" /\ new.count = n
    BY <1>0, <2>2 DEF IdleJob
  <2>4. TakesWorkspace(new) => HasRoom([count |-> n], c)
    BY <2>3 DEF TakesWorkspace, HasRoom
  <2>5. Moves(p) /\ UNCHANGED <<invites, boards, accounts, members, wsSlug>>
    BY <1>0, <2>2 DEF Moves, planRows
  <2> QED BY <1>2, <2>3, <2>4, <2>5 DEF WorkspaceEffect, n
<1>5. CASE BeginWorkspaceUpdate(p)
  <2>1. PICK w \in liveWorkspaces, s \in Slugs :
           Admit(p, [IdleJob EXCEPT !.op = "reslug", !.step = "slug", !.ws = w, !.slug = s])
    BY <1>5 DEF BeginWorkspaceUpdate
  <2>2. /\ planJob' = [planJob EXCEPT ![p] = [IdleJob EXCEPT !.op = "reslug", !.step = "slug",
                                                             !.ws = w, !.slug = s]]
        /\ UNCHANGED <<env, stored, planRows>>
    BY <2>1 DEF Admit
  <2>3. new.op = "reslug"
    BY <1>0, <2>2 DEF IdleJob
  <2>4. ~TakesWorkspace(new)
    BY <2>3 DEF TakesWorkspace
  <2>5. Moves(p) /\ UNCHANGED <<invites, boards, accounts, members, wsSlug>>
    BY <1>0, <2>2 DEF Moves, planRows
  <2> QED BY <1>2, <2>3, <2>4, <2>5 DEF WorkspaceEffect
<1>6. CASE CheckSlug(p)
  <2>1. /\ job.op \in {"create", "reslug"} /\ job.step = "slug" /\ UNCHANGED <<env, stored, planRows>>
        /\ \/ Done("plan") \/ Done("conflict")
           \/ /\ job.op = "create" => ~Exceeds(job.count, c)
              /\ planJob' = [planJob EXCEPT ![p] = [job EXCEPT !.step = "plugin"]]
    BY <1>6 DEF CheckSlug, Goes
  <2>2. Moves(p) /\ UNCHANGED <<invites, boards, accounts, members, wsSlug>>
    BY <1>0, <2>1 DEF Moves, planRows
  <2>3. CASE Done("plan") \/ Done("conflict")
    <3>1. new.op = job.op /\ ~TakesWorkspace(new)
      BY <1>3, <2>3 DEF Answers
    <3> HIDE DEF job, new
    <3> QED BY <1>2, <2>1, <2>2, <3>1 DEF WorkspaceEffect, new
  <2>4. CASE /\ job.op = "create" => ~Exceeds(job.count, c)
             /\ planJob' = [planJob EXCEPT ![p] = [job EXCEPT !.step = "plugin"]]
    <3>1. new.op = job.op
      BY <1>0, <2>4 DEF Job
    <3>2. job.count \in Nat
      BY <1>0 DEF Job
    <3>3. TakesWorkspace(new) => TakesWorkspace(job)
      BY <1>1, <2>1, <2>4, <3>1, <3>2 DEF TakesWorkspace, HasRoom, Exceeds
    <3> HIDE DEF job, new
    <3> QED BY <1>2, <2>1, <2>2, <3>1, <3>3 DEF WorkspaceEffect, job, new
  <2> QED BY <2>1, <2>3, <2>4
<1>7. CASE createWorkspace(p)
  <2>1. /\ job.op = "create" /\ job.step = "plugin" /\ UNCHANGED <<env, stored>>
        /\ UNCHANGED <<accounts, invites, boards>> /\ (Done("conflict") \/ Done("ok"))
        /\ \/ UNCHANGED <<wsSlug, members>>
           \/ \E w \in Workspaces : /\ wsSlug[w] = NoSlug
                                    /\ wsSlug' = [wsSlug EXCEPT ![w] = job.slug]
                                    /\ members' = members \cup {<<w, job.user>>}
    <3> DEFINE free == {w \in Workspaces : wsSlug[w] = NoSlug}
    <3>1. free # {} => (CHOOSE x \in free : TRUE) \in free
      OBVIOUS
    <3> QED BY <1>7, <3>1 DEF createWorkspace, Goes, pluginSlugConflict
  <2>2. job.slug \in Slugs
    BY <1>0, <2>1 DEF InputsFit
  <2>3. new.op = job.op /\ ~TakesWorkspace(new)
    BY <1>3, <2>1 DEF Answers
  <2>4. TakesWorkspace(job)
    BY <2>1 DEF TakesWorkspace
  <2>5. Moves(p)
    BY <1>0, <2>1 DEF Moves
  <2> HIDE DEF job, new
  <2>6. CASE UNCHANGED <<wsSlug, members>>
    BY <1>2, <2>1, <2>3, <2>5, <2>6 DEF WorkspaceEffect, new
  <2>7. ASSUME NEW w \in Workspaces, wsSlug[w] = NoSlug,
               wsSlug' = [wsSlug EXCEPT ![w] = job.slug],
               members' = members \cup {<<w, job.user>>}
        PROVE  seated' = seated /\ WorkspaceEffect(p)
    <3>1. w # FirstWs
      BY <1>0, <2>7
    <3>2. seated' = seated
      BY <2>7, <3>1 DEF seated
    <3>3. liveWorkspaces' = liveWorkspaces \cup {w}
      BY <1>0, <2>2, <2>7 DEF liveWorkspaces
    <3> QED BY <2>3, <2>4, <3>2, <3>3 DEF WorkspaceEffect, job, new
  <2> QED BY <2>1, <2>3, <2>5, <2>6, <2>7 DEF new
<1>8. CASE updateWorkspace(p)
  <2>1. /\ job.op = "reslug" /\ UNCHANGED <<env, stored, accounts, members, invites, boards>>
        /\ \/ UNCHANGED wsSlug
           \/ job.ws \in liveWorkspaces /\ wsSlug' = [wsSlug EXCEPT ![job.ws] = job.slug]
        /\ Done("refused") \/ Done("conflict") \/ Done("ok")
    BY <1>8 DEF updateWorkspace, Goes, pluginSlugConflict
  <2>2. new.op = job.op /\ ~TakesWorkspace(new)
    BY <1>3, <2>1 DEF Answers
  <2>3. Moves(p)
    BY <1>0, <2>1 DEF Moves
  <2> HIDE DEF job, new
  <2>4. liveWorkspaces' \subseteq liveWorkspaces
    BY <1>0, <1>2, <2>1 DEF liveWorkspaces
  <2> QED BY <1>2, <2>1, <2>2, <2>3, <2>4 DEF WorkspaceEffect, new
<1>9. CASE BeginWorkspaceRemove(p)
  <2>1. PICK w \in liveWorkspaces :
           Admit(p, [IdleJob EXCEPT !.op = "remove", !.step = "delete", !.ws = w])
    BY <1>9 DEF BeginWorkspaceRemove
  <2>2. /\ planJob' = [planJob EXCEPT ![p] = [IdleJob EXCEPT !.op = "remove", !.step = "delete", !.ws = w]]
        /\ UNCHANGED <<env, stored, planRows>>
    BY <2>1 DEF Admit
  <2>3. new.op = "remove"
    BY <1>0, <2>2 DEF IdleJob
  <2>4. ~TakesWorkspace(new)
    BY <2>3 DEF TakesWorkspace
  <2>5. Moves(p) /\ UNCHANGED <<invites, boards, accounts, members, wsSlug>>
    BY <1>0, <2>2 DEF Moves, planRows
  <2> QED BY <1>2, <2>3, <2>4, <2>5 DEF WorkspaceEffect
<1>10. CASE removeWorkspace(p)
  <2>1. /\ wsSlug' = [wsSlug EXCEPT ![job.ws] = Absent] /\ members' \subseteq members
        /\ UNCHANGED <<env, stored, accounts, invites, boards>> /\ job.op = "remove"
        /\ \/ planJob' = [planJob EXCEPT ![p] = [job EXCEPT !.step = "log"]]
           \/ Done("refused")
    BY <1>10 DEF removeWorkspace, Goes
  <2>2. new.op = job.op
    <3>1. CASE Done("refused")
      BY <1>3, <3>1 DEF Answers
    <3>2. CASE planJob' = [planJob EXCEPT ![p] = [job EXCEPT !.step = "log"]]
      BY <1>0, <3>2 DEF Job
    <3> QED BY <2>1, <3>1, <3>2
  <2>3. Moves(p)
    BY <1>0, <2>1 DEF Moves
  <2>4. ~TakesWorkspace(new)
    BY <2>1, <2>2 DEF TakesWorkspace
  <2> HIDE DEF job, new
  <2>5. liveWorkspaces' \subseteq liveWorkspaces /\ seated' \subseteq seated
    BY <1>0, <2>1 DEF liveWorkspaces, seated
  <2> QED BY <2>1, <2>2, <2>3, <2>4, <2>5 DEF WorkspaceEffect, new
<1>11. CASE LogDeletion(p)
  <2>1. /\ job.op = "remove" /\ Done("ok")
        /\ UNCHANGED <<env, stored, accounts, invites, boards, members, wsSlug>>
    BY <1>11 DEF LogDeletion, Goes
  <2>2. new.op = job.op /\ ~TakesWorkspace(new)
    BY <1>3, <2>1 DEF Answers
  <2>3. Moves(p)
    BY <1>0, <2>1 DEF Moves
  <2> HIDE DEF job, new
  <2> QED BY <1>2, <2>1, <2>2, <2>3 DEF WorkspaceEffect, new
<1> QED BY <1>4, <1>5, <1>6, <1>7, <1>8, <1>9, <1>10, <1>11 DEF WorkspaceStep

(* What a step does to the accounts, in the same way.                      *)
AccountEffect(p) ==
    \/ accounts' = accounts /\ HasRoom([count |-> Cardinality(accounts)], instanceLimits("users"))
    \/ accounts' = accounts /\ (TakesAccount(planJob'[p]) => TakesAccount(planJob[p]))
    \/ /\ TakesAccount(planJob[p]) /\ ~TakesAccount(planJob'[p])
       /\ \E u \in Users : accounts' = accounts \cup {u}

(* A sign-up.                                                              *)
LEMMA SignUpEffect ==
    ASSUME PlanShape, NEW p \in Procs, BeginSignUp(p) \/ signUp(p)
    PROVE  /\ Moves(p) /\ UNCHANGED <<invites, boards, members, wsSlug>>
           /\ planJob'[p].op = "signUp" /\ AccountEffect(p)
<1> DEFINE job == planJob[p]
<1> DEFINE new == planJob'[p]
<1> DEFINE c == instanceLimits("users")
<1> DEFINE Done(answer) == planJob' = [planJob EXCEPT ![p] = Answered(job, answer)]
<1>0. job \in Job /\ planJob \in [Procs -> Job] /\ job.count \in Nat /\ job.user \in Users
  BY DEF PlanShape, Job
<1>1. c \in (Nat \ {0}) \cup {NoCeiling} /\ NoCeiling \notin Nat
  BY InstanceCeilings, PlansAssumption DEF CeilingKinds
<1>2. CASE BeginSignUp(p)
  <2> DEFINE n == Cardinality(accounts)
  <2>1. PICK u \in Users \ accounts :
           Admit(p, [IdleJob EXCEPT !.op = "signUp", !.step = "plugin", !.user = u, !.count = n])
    BY <1>2 DEF BeginSignUp
  <2>2. /\ planJob' = [planJob EXCEPT ![p] = [IdleJob EXCEPT !.op = "signUp", !.step = "plugin",
                                                             !.user = u, !.count = n]]
        /\ UNCHANGED <<env, stored, planRows>>
    BY <2>1 DEF Admit
  <2> HIDE DEF n
  <2>3. new.op = "signUp" /\ new.count = n
    BY <1>0, <2>2 DEF IdleJob
  <2>4. TakesAccount(new) => HasRoom([count |-> n], c)
    BY <2>3 DEF TakesAccount, HasRoom
  <2>5. Moves(p) /\ UNCHANGED <<invites, boards, members, wsSlug, accounts>>
    BY <1>0, <2>2 DEF Moves, planRows
  <2> QED BY <2>3, <2>4, <2>5 DEF AccountEffect, n
<1>3. CASE signUp(p)
  <2>1. /\ job.op = "signUp" /\ job.step = "plugin"
        /\ UNCHANGED <<env, stored, invites, boards, members, wsSlug>>
        /\ \/ UNCHANGED accounts
           \/ ~Exceeds(job.count, c) /\ accounts' = accounts \cup {job.user}
        /\ Done("plan") \/ Done("ok")
    BY <1>3 DEF signUp, Goes
  <2>2. new.op = job.op /\ ~TakesAccount(new)
    <3>1. \A answer \in Answers : Done(answer) => new.op = job.op /\ ~TakesAccount(new)
      BY <1>0, AnswersFit, AnsweredTakesNothing
    <3> QED BY <2>1, <3>1 DEF Answers
  <2>3. Moves(p)
    BY <1>0, <2>1 DEF Moves
  <2>4. ~Exceeds(job.count, c) => TakesAccount(job)
    BY <1>0, <1>1, <2>1 DEF TakesAccount, HasRoom, Exceeds
  <2> HIDE DEF job, new, c
  <2> QED BY <1>0, <2>1, <2>2, <2>3, <2>4 DEF AccountEffect, job, new
<1> QED BY <1>2, <1>3

(* Every request's step, seen from every ceiling.                          *)
LEMMA StepEffects ==
    ASSUME PlanShape, NEW p \in Procs, PlanStep(p)
    PROVE  /\ Moves(p) /\ SeatEffect(p) /\ InviteEffect(p) /\ BoardEffect(p)
           /\ WorkspaceEffect(p) /\ AccountEffect(p) /\ RefusalEffect(p)
<1>1. /\ UNCHANGED members => seated' = seated
      /\ UNCHANGED invites => invitees' = invitees
      /\ UNCHANGED boards => liveBoards' = liveBoards
      /\ UNCHANGED wsSlug => liveWorkspaces' = liveWorkspaces
  BY DEF seated, invitees, pendingInvitations, liveBoards, liveWorkspaces
<1>2. /\ planJob'[p].op # "accept" => ~TakesSeat(planJob'[p])
      /\ planJob'[p].op # "invite" => ~Invites(planJob'[p])
      /\ planJob'[p].op # "board" => ~TakesBoard(planJob'[p])
      /\ planJob'[p].op # "create" => ~TakesWorkspace(planJob'[p])
      /\ planJob'[p].op # "signUp" => ~TakesAccount(planJob'[p])
  BY DEF TakesSeat, Invites, TakesBoard, TakesWorkspace, TakesAccount
<1>3. CASE InvitationStep(p)
  <2>1. /\ Moves(p) /\ UNCHANGED <<boards, wsSlug, accounts>>
        /\ planJob'[p].op \in {"invite", "accept", "revoke"}
        /\ SeatEffect(p) /\ InviteEffect(p) /\ RefusalEffect(p)
    BY <1>3, InvitationEffect
  <2> QED BY <1>1, <1>2, <2>1 DEF BoardEffect, WorkspaceEffect, AccountEffect
<1>4. CASE BoardStep(p)
  <2>1. /\ Moves(p) /\ UNCHANGED <<invites, members, wsSlug, accounts>>
        /\ planJob'[p].op \in {"board", "rename", "drop"}
        /\ BoardEffect(p) /\ RefusalEffect(p)
    BY <1>4, BoardStepEffect
  <2> QED BY <1>1, <1>2, <2>1 DEF SeatEffect, InviteEffect, WorkspaceEffect, AccountEffect
<1>5. CASE WorkspaceStep(p)
  <2>1. /\ Moves(p) /\ UNCHANGED <<invites, boards, accounts>> /\ seated' \subseteq seated
        /\ planJob'[p].op \in {"create", "reslug", "remove"} /\ WorkspaceEffect(p)
    BY <1>5, WorkspaceStepEffect
  <2> QED BY <1>1, <1>2, <2>1 DEF SeatEffect, InviteEffect, BoardEffect, AccountEffect, RefusalEffect
<1>6. CASE BeginSignUp(p) \/ signUp(p)
  <2>1. /\ Moves(p) /\ UNCHANGED <<invites, boards, members, wsSlug>>
        /\ planJob'[p].op = "signUp" /\ AccountEffect(p)
    BY <1>6, SignUpEffect
  <2> QED BY <1>1, <1>2, <2>1 DEF SeatEffect, InviteEffect, BoardEffect, WorkspaceEffect, RefusalEffect
<1> QED BY <1>3, <1>4, <1>5, <1>6 DEF PlanStep

-----------------------------------------------------------------------------
(* The ceilings stand.                                                     *)

(* CountingStep, of the rows themselves: p takes the place it was promised. *)
LEMMA PlaceTaken ==
    ASSUME NEW rows, IsFiniteSet(rows), NEW S \in SUBSET Procs, NEW T \in SUBSET Procs,
           NEW c \in (Nat \ {0}) \cup {NoCeiling}, Bounded(Cardinality(rows) + Cardinality(S), c),
           NEW p \in S, NEW x, T \subseteq S \ {p}
    PROVE  Bounded(Cardinality(rows \cup {x}) + Cardinality(T), c)
<1>1. Cardinality(rows) \in Nat
  BY FS_CardinalityType
<1>2. Cardinality(rows \cup {x}) = IF x \in rows THEN Cardinality(rows) ELSE Cardinality(rows) + 1
  BY FS_AddElement
<1>3. Cardinality(rows \cup {x}) \in Nat /\ Cardinality(rows \cup {x}) <= Cardinality(rows) + 1
  BY <1>1, <1>2
<1> QED BY <1>1, <1>3, CountingStep

(* Nobody is promised a place, or there was one.                           *)
LEMMA PlaceStep ==
    ASSUME NEW rows, NEW after, IsFiniteSet(rows),
           NEW S \in SUBSET Procs, NEW T \in SUBSET Procs,
           NEW c \in (Nat \ {0}) \cup {NoCeiling}, Bounded(Cardinality(rows) + Cardinality(S), c),
           \/ after \subseteq rows /\ T \subseteq S
           \/ after = rows /\ (c = NoCeiling \/ Cardinality(rows) < c)
    PROVE  Bounded(Cardinality(after) + Cardinality(T), c)
<1>1. Cardinality(rows) \in Nat
  BY FS_CardinalityType
<1>2. CASE after \subseteq rows /\ T \subseteq S
  <2>1. Cardinality(after) \in Nat /\ Cardinality(after) <= Cardinality(rows)
    BY <1>2, FS_Subset, FS_CardinalityType
  <2> QED BY <1>1, <1>2, <2>1, CountingStep
<1>3. CASE after = rows /\ (c = NoCeiling \/ Cardinality(rows) < c)
  BY <1>1, <1>3, CountingStep
<1> QED BY <1>2, <1>3

(* A bound that holds of more holds of less.                               *)
LEMMA BoundOfFewer ==
    ASSUME NEW S, IsFiniteSet(S), NEW T \in SUBSET S,
           NEW c \in (Nat \ {0}) \cup {NoCeiling}, Bounded(Cardinality(S), c)
    PROVE  Bounded(Cardinality(T), c)
<1>1. Cardinality(T) \in Nat /\ Cardinality(S) \in Nat /\ Cardinality(T) <= Cardinality(S)
  BY FS_Subset, FS_CardinalityType
<1>2. Cardinality(Procs) \in Nat
  BY PoolAssumption, FS_CardinalityType
<1> QED BY <1>1, <1>2 DEF Bounded

(* At first nobody asks for anything, and one row of each kind is within   *)
(* every ceiling.                                                          *)
LEMMA InitCeilings == PlansInit => CeilingInv /\ RefusalsInv
<1> SUFFICES ASSUME PlansInit PROVE CeilingInv /\ RefusalsInv
  OBVIOUS
<1>1. PlanShape
  BY InitShape
<1>2. \A p \in Procs : planJob[p] = IdleJob
  BY DEF PlansInit
<1>3. Seating = {} /\ Inviting = {} /\ Boarding = {} /\ Founding = {} /\ Joining = {}
  BY <1>2 DEF Seating, Inviting, Boarding, Founding, Joining, TakesSeat, Invites, TakesBoard,
              TakesWorkspace, TakesAccount, IdleJob
<1>4. invitees = {} /\ liveBoards = {} /\ seated = {<<FirstWs, Owner>>}
  BY DEF PlansInit, invitees, pendingInvitations, liveBoards, seated
<1>5. liveWorkspaces \subseteq {FirstWs}
  BY PlansAssumption DEF PlansInit, liveWorkspaces
<1>6. instanceLimits("users") # NoCeiling => accounts = {Owner}
  BY DEF PlansInit, instanceLimits, readCeiling, CeilingKinds
<1>7. Expected = {}
  BY <1>3, <1>4 DEF Expected
<1>8. /\ Cardinality({}) = 0 /\ Cardinality(seated) = 1
      /\ Cardinality(liveWorkspaces) \in Nat /\ Cardinality(liveWorkspaces) <= 1
      /\ instanceLimits("users") # NoCeiling => Cardinality(accounts) = 1
  <2>1. IsFiniteSet({FirstWs}) /\ Cardinality({FirstWs}) = 1
    BY FS_Singleton
  <2>2. IsFiniteSet(liveWorkspaces) /\ Cardinality(liveWorkspaces) <= 1
    BY <1>5, <2>1, FS_Subset
  <2>3. Cardinality(liveWorkspaces) \in Nat
    BY <2>2, FS_CardinalityType
  <2>4. Cardinality({}) = 0 /\ \A x : Cardinality({x}) = 1
    BY FS_EmptySet, FS_Singleton
  <2> QED BY <1>4, <1>6, <2>2, <2>3, <2>4
<1>9. Cardinality(Procs) \in Nat /\ Cardinality(Procs) >= 1
  BY PoolAssumption, FS_CardinalityType, FS_EmptySet
<1>10. /\ \A k \in {"seats", "boards"} :
             resolveWorkspacePlanLimits(k) \in (Nat \ {0}) \cup {NoCeiling}
       /\ \A k \in {"workspaces", "users"} : instanceLimits(k) \in (Nat \ {0}) \cup {NoCeiling}
  BY <1>1, WorkspaceCeilings, InstanceCeilings DEF CeilingKinds
<1>11. CeilingInv
  BY <1>3, <1>4, <1>7, <1>8, <1>9, <1>10 DEF CeilingInv, Bounded
<1>12. RefusalsInv
  BY <1>2 DEF RefusalsInv, IdleJob
<1> QED BY <1>11, <1>12

(* The invitees, and those asked for, are addresses.                       *)
LEMMA ExpectedAreUsers ==
    ASSUME PlanShape
    PROVE  /\ IsFiniteSet(Expected) /\ invitees \subseteq Expected
           /\ IsFiniteSet(invitees) /\ Cardinality(invitees) <= Cardinality(pendingInvitations)
           /\ Cardinality(invitees) \in Nat
<1>1. \A i \in pendingInvitations : invites[i].email \in Users
  <2>1. \A i \in DOMAIN invites : invites[i] \in Invitation
    BY DEF PlanShape, RowShape
  <2> QED BY <2>1 DEF Invitation, pendingInvitations
<1>2. \A p \in Procs : planJob[p].user \in Users
  BY DEF PlanShape, Job
<1>3. Expected \subseteq Users /\ invitees \subseteq Expected
  BY <1>1, <1>2 DEF Expected, invitees, Inviting
<1>4. Cardinality(invitees) <= Cardinality(pendingInvitations)
  <2> DEFINE f == [i \in pendingInvitations |-> invites[i].email]
  <2>1. f \in Surjection(pendingInvitations, invitees)
    BY DEF Surjection, invitees
  <2> HIDE DEF f
  <2> QED BY <2>1, Counts, FS_Surjection
<1> QED BY <1>3, <1>4, PlansAssumption, FS_Subset, FS_CardinalityType

(* The invitees, and those asked for, stay within the ceiling of seats.    *)
LEMMA ExpectedStep ==
    ASSUME PlanShape, CeilingInv, NEW p \in Procs, Moves(p), InviteEffect(p)
    PROVE  Bounded(Cardinality(Expected'), resolveWorkspacePlanLimits("seats"))
<1> DEFINE c == resolveWorkspacePlanLimits("seats")
<1>1. c \in (Nat \ {0}) \cup {NoCeiling} /\ NoCeiling \notin Nat
  BY WorkspaceCeilings, PlansAssumption
<1>2. Bounded(Cardinality(Expected), c) /\ IsFiniteSet(Expected)
  BY ExpectedAreUsers DEF CeilingInv
<1>3. Inviting' \subseteq Inviting \cup {p} /\ (p \in Inviting' <=> Invites(planJob'[p]))
  BY Takers
<1>4. Expected' = invitees' \cup {planJob'[q].user : q \in Inviting'}
  BY DEF Expected
<1>5. CASE /\ invitees' \subseteq invitees \cup {u \in {planJob[p].user} : Invites(planJob[p])}
           /\ Invites(planJob'[p]) => /\ planJob'[p].user = planJob[p].user
                                      /\ Invites(planJob[p]) \/ planJob[p].user \in invitees
  <2>1. Invites(planJob[p]) => planJob[p].user \in Expected
    BY DEF Expected, Inviting
  <2>2. invitees' \subseteq Expected
    BY <1>5, <2>1 DEF Expected
  <2>3. \A q \in Inviting' : planJob'[q].user \in Expected
    <3>1. \A q \in Inviting' : q # p => q \in Inviting /\ planJob'[q] = planJob[q]
      BY <1>3 DEF Moves, Inviting
    <3>2. p \in Inviting' => planJob'[p].user \in Expected
      BY <1>3, <1>5, <2>1 DEF Expected
    <3> QED BY <3>1, <3>2 DEF Expected
  <2>4. Expected' \subseteq Expected
    BY <1>4, <2>2, <2>3
  <2> QED BY <1>1, <1>2, <2>4, BoundOfFewer
<1>6. CASE invites' = invites /\ HasRoom([count |-> Cardinality(pendingInvitations)], c)
  <2>1. c = NoCeiling \/ Cardinality(pendingInvitations) < c
    BY <1>6 DEF HasRoom
  <2>2. invitees' = invitees
    BY <1>6 DEF invitees, pendingInvitations
  <2> DEFINE asked == {planJob'[q].user : q \in Inviting'}
  <2>3. Inviting' \in SUBSET Procs /\ IsFiniteSet(Inviting')
    BY PoolAssumption, FS_Subset DEF Inviting
  <2>4. IsFiniteSet(asked) /\ Cardinality(asked) <= Cardinality(Inviting')
    <3> DEFINE f == [q \in Inviting' |-> planJob'[q].user]
    <3>1. f \in Surjection(Inviting', asked)
      BY DEF Surjection
    <3> HIDE DEF f, asked
    <3> QED BY <2>3, <3>1, FS_Surjection
  <2> HIDE DEF asked
  <2>5. /\ Cardinality(asked) \in Nat /\ Cardinality(Inviting') \in Nat /\ Cardinality(Procs) \in Nat
        /\ Cardinality(Inviting') <= Cardinality(Procs)
    BY <2>3, <2>4, PoolAssumption, FS_Subset, FS_CardinalityType
  <2>6. /\ Cardinality(invitees \cup asked) =
              Cardinality(invitees) + Cardinality(asked) - Cardinality(invitees \cap asked)
        /\ Cardinality(invitees \cap asked) \in Nat
    <3>1. IsFiniteSet(invitees) /\ invitees \cap asked \in SUBSET asked
      BY ExpectedAreUsers
    <3>2. IsFiniteSet(invitees \cap asked)
      BY <2>4, <3>1, FS_Subset
    <3> QED BY <2>4, <3>1, <3>2, FS_Union, FS_CardinalityType
  <2>7. Expected' = invitees \cup asked
    BY <1>4, <2>2 DEF asked
  <2>8. Cardinality(invitees) \in Nat /\ Cardinality(invitees) <= Cardinality(pendingInvitations)
        /\ Cardinality(pendingInvitations) \in Nat
    BY ExpectedAreUsers, Counts
  <2> QED BY <1>1, <2>1, <2>4, <2>5, <2>6, <2>7, <2>8 DEF Bounded
<1> QED BY <1>5, <1>6 DEF InviteEffect

(* A request's step leaves every ceiling standing.                         *)
LEMMA CeilingsKept ==
    ASSUME PlanShape, CeilingInv, NEW p \in Procs, PlanStep(p)
    PROVE  CeilingInv'
<1> DEFINE seats == resolveWorkspacePlanLimits("seats")
<1> DEFINE ofBoards == resolveWorkspacePlanLimits("boards")
<1> DEFINE ofWorkspaces == instanceLimits("workspaces")
<1> DEFINE ofUsers == instanceLimits("users")
<1>1. /\ Moves(p) /\ SeatEffect(p) /\ InviteEffect(p) /\ BoardEffect(p)
      /\ WorkspaceEffect(p) /\ AccountEffect(p)
  BY StepEffects
<1>2. /\ seats \in (Nat \ {0}) \cup {NoCeiling} /\ ofBoards \in (Nat \ {0}) \cup {NoCeiling}
      /\ ofWorkspaces \in (Nat \ {0}) \cup {NoCeiling} /\ ofUsers \in (Nat \ {0}) \cup {NoCeiling}
  BY WorkspaceCeilings, InstanceCeilings DEF CeilingKinds
<1>3. seats' = seats /\ ofBoards' = ofBoards /\ ofWorkspaces' = ofWorkspaces /\ ofUsers' = ofUsers
  BY <1>1, CeilingsStay DEF Moves, CeilingKinds
<1>4. /\ IsFiniteSet(seated) /\ IsFiniteSet(liveBoards) /\ IsFiniteSet(liveWorkspaces)
      /\ IsFiniteSet(accounts)
  BY Counts
<1>5. /\ Seating \in SUBSET Procs /\ Seating' \in SUBSET Procs
      /\ Boarding \in SUBSET Procs /\ Boarding' \in SUBSET Procs
      /\ Founding \in SUBSET Procs /\ Founding' \in SUBSET Procs
      /\ Joining \in SUBSET Procs /\ Joining' \in SUBSET Procs
  BY DEF Seating, Boarding, Founding, Joining
<1>6. Bounded(Cardinality(seated') + Cardinality(Seating'), seats)
  <2>1. /\ Seating' \subseteq Seating \cup {p} /\ (p \in Seating' <=> TakesSeat(planJob'[p]))
        /\ p \in Seating <=> TakesSeat(planJob[p])
    BY <1>1, Takers DEF Seating
  <2>2. \/ seated' \subseteq seated /\ Seating' \subseteq Seating
        \/ seated' = seated /\ (seats = NoCeiling \/ Cardinality(seated) < seats)
        \/ \E q \in Seating : \E x : seated' = seated \cup {x} /\ Seating' \subseteq Seating \ {q}
    BY <1>1, <2>1 DEF SeatEffect, HasRoom
  <2>3. Bounded(Cardinality(seated) + Cardinality(Seating), seats)
    BY DEF CeilingInv
  <2>4. /\ IsFiniteSet(seated) /\ Seating \in SUBSET Procs /\ Seating' \in SUBSET Procs
        /\ seats \in (Nat \ {0}) \cup {NoCeiling}
    BY <1>2, <1>4, <1>5
  <2> HIDE DEF seats
  <2>5. CASE seated' \subseteq seated /\ Seating' \subseteq Seating
    BY <2>3, <2>4, <2>5, PlaceStep
  <2>6. CASE seated' = seated /\ (seats = NoCeiling \/ Cardinality(seated) < seats)
    BY <2>3, <2>4, <2>6, PlaceStep
  <2>7. ASSUME NEW q \in Seating, NEW x, seated' = seated \cup {x}, Seating' \subseteq Seating \ {q}
        PROVE  Bounded(Cardinality(seated') + Cardinality(Seating'), seats)
    BY <2>3, <2>4, <2>7, PlaceTaken
  <2> QED BY <2>2, <2>5, <2>6, <2>7
<1>7. Bounded(Cardinality(liveBoards') + Cardinality(Boarding'), ofBoards)
  <2>1. /\ Boarding' \subseteq Boarding \cup {p} /\ (p \in Boarding' <=> TakesBoard(planJob'[p]))
        /\ p \in Boarding <=> TakesBoard(planJob[p])
    BY <1>1, Takers DEF Boarding
  <2>2. \/ liveBoards' \subseteq liveBoards /\ Boarding' \subseteq Boarding
        \/ liveBoards' = liveBoards /\ (ofBoards = NoCeiling \/ Cardinality(liveBoards) < ofBoards)
        \/ \E q \in Boarding : \E x : liveBoards' = liveBoards \cup {x} /\ Boarding' \subseteq Boarding \ {q}
    BY <1>1, <2>1 DEF BoardEffect, HasRoom
  <2>3. Bounded(Cardinality(liveBoards) + Cardinality(Boarding), ofBoards)
    BY DEF CeilingInv
  <2>4. /\ IsFiniteSet(liveBoards) /\ Boarding \in SUBSET Procs /\ Boarding' \in SUBSET Procs
        /\ ofBoards \in (Nat \ {0}) \cup {NoCeiling}
    BY <1>2, <1>4, <1>5
  <2> HIDE DEF ofBoards
  <2>5. CASE liveBoards' \subseteq liveBoards /\ Boarding' \subseteq Boarding
    BY <2>3, <2>4, <2>5, PlaceStep
  <2>6. CASE liveBoards' = liveBoards /\ (ofBoards = NoCeiling \/ Cardinality(liveBoards) < ofBoards)
    BY <2>3, <2>4, <2>6, PlaceStep
  <2>7. ASSUME NEW q \in Boarding, NEW x, liveBoards' = liveBoards \cup {x}, Boarding' \subseteq Boarding \ {q}
        PROVE  Bounded(Cardinality(liveBoards') + Cardinality(Boarding'), ofBoards)
    BY <2>3, <2>4, <2>7, PlaceTaken
  <2> QED BY <2>2, <2>5, <2>6, <2>7
<1>8. Bounded(Cardinality(liveWorkspaces') + Cardinality(Founding'), ofWorkspaces)
  <2>1. /\ Founding' \subseteq Founding \cup {p} /\ (p \in Founding' <=> TakesWorkspace(planJob'[p]))
        /\ p \in Founding <=> TakesWorkspace(planJob[p])
    BY <1>1, Takers DEF Founding
  <2>2. \/ liveWorkspaces' \subseteq liveWorkspaces /\ Founding' \subseteq Founding
        \/ /\ liveWorkspaces' = liveWorkspaces
           /\ ofWorkspaces = NoCeiling \/ Cardinality(liveWorkspaces) < ofWorkspaces
        \/ \E q \in Founding : \E x : /\ liveWorkspaces' = liveWorkspaces \cup {x}
                                  /\ Founding' \subseteq Founding \ {q}
    BY <1>1, <2>1 DEF WorkspaceEffect, HasRoom
  <2>3. Bounded(Cardinality(liveWorkspaces) + Cardinality(Founding), ofWorkspaces)
    BY DEF CeilingInv
  <2>4. /\ IsFiniteSet(liveWorkspaces) /\ Founding \in SUBSET Procs /\ Founding' \in SUBSET Procs
        /\ ofWorkspaces \in (Nat \ {0}) \cup {NoCeiling}
    BY <1>2, <1>4, <1>5
  <2> HIDE DEF ofWorkspaces
  <2>5. CASE liveWorkspaces' \subseteq liveWorkspaces /\ Founding' \subseteq Founding
    BY <2>3, <2>4, <2>5, PlaceStep
  <2>6. CASE liveWorkspaces' = liveWorkspaces /\ (ofWorkspaces = NoCeiling \/ Cardinality(liveWorkspaces) < ofWorkspaces)
    BY <2>3, <2>4, <2>6, PlaceStep
  <2>7. ASSUME NEW q \in Founding, NEW x, liveWorkspaces' = liveWorkspaces \cup {x}, Founding' \subseteq Founding \ {q}
        PROVE  Bounded(Cardinality(liveWorkspaces') + Cardinality(Founding'), ofWorkspaces)
    BY <2>3, <2>4, <2>7, PlaceTaken
  <2> QED BY <2>2, <2>5, <2>6, <2>7
<1>9. Bounded(Cardinality(accounts') + Cardinality(Joining'), ofUsers)
  <2>1. /\ Joining' \subseteq Joining \cup {p} /\ (p \in Joining' <=> TakesAccount(planJob'[p]))
        /\ p \in Joining <=> TakesAccount(planJob[p])
    BY <1>1, Takers DEF Joining
  <2>2. \/ accounts' \subseteq accounts /\ Joining' \subseteq Joining
        \/ accounts' = accounts /\ (ofUsers = NoCeiling \/ Cardinality(accounts) < ofUsers)
        \/ \E q \in Joining : \E x : accounts' = accounts \cup {x} /\ Joining' \subseteq Joining \ {q}
    BY <1>1, <2>1 DEF AccountEffect, HasRoom
  <2>3. Bounded(Cardinality(accounts) + Cardinality(Joining), ofUsers)
    BY DEF CeilingInv
  <2>4. /\ IsFiniteSet(accounts) /\ Joining \in SUBSET Procs /\ Joining' \in SUBSET Procs
        /\ ofUsers \in (Nat \ {0}) \cup {NoCeiling}
    BY <1>2, <1>4, <1>5
  <2> HIDE DEF ofUsers
  <2>5. CASE accounts' \subseteq accounts /\ Joining' \subseteq Joining
    BY <2>3, <2>4, <2>5, PlaceStep
  <2>6. CASE accounts' = accounts /\ (ofUsers = NoCeiling \/ Cardinality(accounts) < ofUsers)
    BY <2>3, <2>4, <2>6, PlaceStep
  <2>7. ASSUME NEW q \in Joining, NEW x, accounts' = accounts \cup {x}, Joining' \subseteq Joining \ {q}
        PROVE  Bounded(Cardinality(accounts') + Cardinality(Joining'), ofUsers)
    BY <2>3, <2>4, <2>7, PlaceTaken
  <2> QED BY <2>2, <2>5, <2>6, <2>7
<1>10. Bounded(Cardinality(Expected'), seats)
  BY <1>1, ExpectedStep
<1> QED BY <1>3, <1>6, <1>7, <1>8, <1>9, <1>10 DEF CeilingInv, Bounded

(* Time and a deletion only make room.                                     *)
LEMMA RoomIsMade ==
    ASSUME PlanShape, CeilingInv, Expire \/ DeleteAccount
    PROVE  CeilingInv'
<1>1. /\ UNCHANGED <<env, stored, planJob>> /\ seated' = seated /\ liveBoards' = liveBoards
      /\ liveWorkspaces' = liveWorkspaces
  BY DEF Expire, DeleteAccount, seated, liveBoards, liveWorkspaces
<1>2. accounts' \subseteq accounts
  BY DEF Expire, DeleteAccount
<1>3. invitees' \subseteq invitees
  <2>1. CASE DeleteAccount
    BY <2>1 DEF DeleteAccount, invitees, pendingInvitations
  <2>2. CASE Expire
    <3>1. PICK i \in pendingInvitations : invites' = [invites EXCEPT ![i].stale = TRUE]
      BY <2>2 DEF Expire
    <3>2. i \in DOMAIN invites /\ invites[i] \in Invitation
      BY DEF pendingInvitations, PlanShape, RowShape
    <3>3. /\ DOMAIN invites' = DOMAIN invites /\ invites'[i].stale = TRUE
          /\ \A j \in DOMAIN invites : j # i => invites'[j] = invites[j]
      BY <3>1, <3>2 DEF Invitation
    <3>4. \A j \in pendingInvitations' : j \in pendingInvitations /\ invites'[j] = invites[j]
      BY <3>3 DEF pendingInvitations
    <3> QED BY <3>4 DEF invitees
  <2> QED BY <2>1, <2>2
<1>4. /\ resolveWorkspacePlanLimits("seats")' = resolveWorkspacePlanLimits("seats")
      /\ resolveWorkspacePlanLimits("boards")' = resolveWorkspacePlanLimits("boards")
      /\ instanceLimits("workspaces")' = instanceLimits("workspaces")
      /\ instanceLimits("users")' = instanceLimits("users")
  BY <1>1, CeilingsStay DEF CeilingKinds
<1>5. Seating' = Seating
  BY <1>1, <1>4 DEF Seating, TakesSeat, HasRoom
<1>6. Inviting' = Inviting
  BY <1>1, <1>4 DEF Inviting, Invites, HasRoom
<1>7. Boarding' = Boarding /\ Founding' = Founding /\ Joining' = Joining
  BY <1>1, <1>4 DEF Boarding, Founding, Joining, TakesBoard, TakesWorkspace, TakesAccount, HasRoom
<1>8. Expected' \subseteq Expected
  BY <1>1, <1>3, <1>6 DEF Expected
<1>9. Bounded(Cardinality(Expected'), resolveWorkspacePlanLimits("seats"))
  <2>1. Bounded(Cardinality(Expected), resolveWorkspacePlanLimits("seats")) /\ IsFiniteSet(Expected)
    BY ExpectedAreUsers DEF CeilingInv
  <2> QED BY <1>8, <2>1, WorkspaceCeilings, BoundOfFewer
<1>10. Bounded(Cardinality(accounts') + Cardinality(Joining), instanceLimits("users"))
  <2>1. instanceLimits("users") \in (Nat \ {0}) \cup {NoCeiling}
    BY InstanceCeilings DEF CeilingKinds
  <2>2. IsFiniteSet(accounts) /\ Joining \in SUBSET Procs
    BY Counts DEF Joining
  <2>3. Bounded(Cardinality(accounts) + Cardinality(Joining), instanceLimits("users"))
    BY DEF CeilingInv
  <2> QED BY <1>2, <2>1, <2>2, <2>3, PlaceStep
<1> QED BY <1>1, <1>4, <1>5, <1>7, <1>9, <1>10 DEF CeilingInv, Bounded

(* Nobody is refused by a ceiling that is not there.                       *)
LEMMA RefusalsKept ==
    ASSUME PlanShape, RefusalsInv, [PlansNext]_planVars
    PROVE  RefusalsInv'
<1>1. UNCHANGED <<env, stored, planJob>> \/ \E p \in Procs : PlanStep(p)
  BY DEF PlansNext, Expire, DeleteAccount, planVars
<1>2. CASE UNCHANGED <<env, stored, planJob>>
  BY <1>2, CeilingsStay DEF RefusalsInv
<1>3. ASSUME NEW p \in Procs, PlanStep(p) PROVE RefusalsInv'
  <2>1. Moves(p) /\ RefusalEffect(p)
    BY <1>3, StepEffects
  <2>2. \A k \in {"seats", "boards"} :
           resolveWorkspacePlanLimits(k)' = resolveWorkspacePlanLimits(k)
    BY <2>1, CeilingsStay DEF Moves
  <2>3. ASSUME NEW q \in Procs, planJob'[q].answer = "plan"
        PROVE  /\ planJob'[q].op \in {"invite", "accept"} => resolveWorkspacePlanLimits("seats") # NoCeiling
               /\ planJob'[q].op = "board" => resolveWorkspacePlanLimits("boards") # NoCeiling
    <3>1. CASE q = p
      BY <2>1, <2>3, <3>1 DEF RefusalEffect, RefusalsInv
    <3>2. CASE q # p
      BY <2>1, <2>3, <3>2 DEF Moves, RefusalsInv
    <3> QED BY <3>1, <3>2
  <2> QED BY <2>2, <2>3 DEF RefusalsInv
<1> QED BY <1>1, <1>2, <1>3

(* The ceilings of boards, of workspaces and of accounts, and those of the *)
(* members and the invitees, are passed by at most one for every other     *)
(* request served at the time, for any number of requests, and a ceiling   *)
(* that was lifted refuses nobody.                                         *)
THEOREM CeilingsStand == PlansSpec => []CeilingsHold
<1>1. PlansInit => PlansInv
  BY InitShape, InitCeilings DEF PlansInv
<1>2. PlansInv /\ [PlansNext]_planVars => PlansInv'
  <2> SUFFICES ASSUME PlansInv, [PlansNext]_planVars PROVE PlansInv'
    OBVIOUS
  <2>1. PlanShape' /\ RefusalsInv'
    BY NextShape, RefusalsKept DEF PlansInv
  <2>2. CASE UNCHANGED planVars
    BY <2>1, <2>2 DEF PlansInv, planVars, planRows, CeilingInv, Bounded, seated, Seating, TakesSeat,
       Expected, invitees, pendingInvitations, Inviting, Invites, liveBoards, Boarding, TakesBoard,
       liveWorkspaces, Founding, TakesWorkspace, Joining, TakesAccount, HasRoom,
       resolveWorkspacePlanLimits, instanceLimits
  <2>3. CASE PlansNext
    BY <2>1, <2>3, CeilingsKept, RoomIsMade DEF PlansInv, PlansNext
  <2> QED BY <2>2, <2>3
<1>3. PlansInv => CeilingsHold
  <2> SUFFICES ASSUME PlansInv PROVE CeilingsHold
    OBVIOUS
  <2>0. PlanShape /\ CeilingInv /\ RefusalsInv
    BY DEF PlansInv
  <2>1. /\ Cardinality(seated) \in Nat /\ Cardinality(invitees) \in Nat /\ IsFiniteSet(Expected)
        /\ Cardinality(liveBoards) \in Nat /\ Cardinality(liveWorkspaces) \in Nat
        /\ Cardinality(accounts) \in Nat /\ invitees \subseteq Expected
    BY <2>0, Counts, ExpectedAreUsers
  <2>2. /\ Cardinality(Seating) \in Nat /\ Cardinality(Boarding) \in Nat
        /\ Cardinality(Founding) \in Nat /\ Cardinality(Joining) \in Nat
    <3>1. /\ Seating \in SUBSET Procs /\ Boarding \in SUBSET Procs
          /\ Founding \in SUBSET Procs /\ Joining \in SUBSET Procs
      BY DEF Seating, Boarding, Founding, Joining
    <3> QED BY <3>1, PoolAssumption, FS_Subset, FS_CardinalityType
  <2>3. Cardinality(Procs) \in Nat
    BY PoolAssumption, FS_CardinalityType
  <2>4. /\ \A k \in {"seats", "boards"} :
              resolveWorkspacePlanLimits(k) \in (Nat \ {0}) \cup {NoCeiling}
        /\ \A k \in CeilingKinds : instanceLimits(k) \in (Nat \ {0}) \cup {NoCeiling}
    BY <2>0, WorkspaceCeilings, InstanceCeilings
  <2>5. ASSUME NEW n \in Nat, NEW m \in Nat, NEW c \in (Nat \ {0}) \cup {NoCeiling}, Bounded(n + m, c)
        PROVE  Bounded(n, c)
    BY <2>3, <2>5 DEF Bounded
  <2>6. /\ Bounded(Cardinality(seated), resolveWorkspacePlanLimits("seats"))
        /\ Bounded(Cardinality(liveBoards), resolveWorkspacePlanLimits("boards"))
        /\ Bounded(Cardinality(liveWorkspaces), instanceLimits("workspaces"))
        /\ Bounded(Cardinality(accounts), instanceLimits("users"))
    BY <2>0, <2>1, <2>2, <2>4, <2>5 DEF CeilingInv, CeilingKinds
  <2>7. Bounded(Cardinality(invitees), resolveWorkspacePlanLimits("seats"))
    BY <2>0, <2>1, <2>4, BoundOfFewer DEF CeilingInv
  <2>8. SeatsWithinCeiling /\ CountsWithinCeilings
    BY <2>0, <2>1, <2>6, <2>7, BoundsMeet DEF SeatsWithinCeiling, CountsWithinCeilings, CeilingKinds
  <2>9. LiftedCeilingNeverRefuses
    BY <2>0, WorkspaceCeilings DEF RefusalsInv, LiftedCeilingNeverRefuses
  <2> QED BY <2>8, <2>9 DEF CeilingsHold
<1> QED BY <1>1, <1>2, <1>3, PTL DEF PlansSpec

-----------------------------------------------------------------------------
(* What is recorded.                                                       *)

(* A request that is not about to log a deletion names rows that are there. *)
JobNames(job) ==
    /\ job.board \in 0 .. Len(boards)
    /\ job.op = "rename" /\ job.step = "write" => job.board > 0
    /\ job.op = "invite" /\ job.step = "check" => job.got > 0
    /\ job.step = "delete" => wsSlug[job.ws] # NoSlug
    /\ job.step = "delete" /\ "seats" \in traffic => job.ws # FirstWs
    /\ job.op = "invite" /\ job.step # "done" => "seats" \in traffic
    /\ job.op = "create" => job.answer # "refused"

(* Every request does, as long as the records hold.                        *)
LEMMA JobsName ==
    ASSUME RecordsInv, NEW p \in Procs
    PROVE  /\ planJob[p] \in Job /\ InputsFit(planJob[p]) /\ JobNames(planJob[p])
           /\ planJob[p].got \in 0 .. Len(invites) /\ planJob[p].seen \subseteq DOMAIN invites
<1>1. planJob[p] \in Job
  BY DEF RecordsInv, PlanShape
<1> QED BY <1>1 DEF RecordsInv, PlanShape, RecordShape, FirstStays, SlugRaceIsConflict, JobNames

(* A job that waits, and one that is answered, name nothing.               *)
LEMMA AnswersName ==
    ASSUME PlanShape, NEW job \in Job, NEW answer \in Answers, job.op = "create" => answer # "refused"
    PROVE  JobNames(Answered(job, answer))
<1>1. 0 \in 0 .. Len(boards)
  BY DEF PlanShape, RowShape
<1>2. Answered(job, answer).board = 0
  BY DEF Answered, IdleJob
<1> QED BY <1>1, <1>2, AnswersFit DEF JobNames

(* The request of p goes on as a job that names what there is.             *)
Renamed(p) == \E job \in Job :
    /\ planJob' = [planJob EXCEPT ![p] = job]
    /\ JobNames(job)
    /\ job.step = "log" <=> planJob[p].step = "log"
    /\ job.step = "log" => job.ws = planJob[p].ws

(* One request moves, and boards only grow: every request names what there is. *)
LEMMA JobsKept ==
    ASSUME RecordsInv, NEW p \in Procs, NEW job \in Job,
           planJob' = [planJob EXCEPT ![p] = job], JobNames(job),
           traffic' = traffic, Len(boards') \in Nat, Len(boards) <= Len(boards'),
           \A w \in Workspaces : wsSlug[w] # NoSlug => wsSlug'[w] # NoSlug
    PROVE  \A q \in Procs : JobNames(planJob[q])'
<1>1. Len(boards) \in Nat /\ job.board \in Nat /\ job.ws \in Workspaces
  BY DEF RecordsInv, PlanShape, RowShape, Job
<1>2. \A q \in Procs : planJob'[q] = IF q = p THEN job ELSE planJob[q]
  BY DEF RecordsInv, PlanShape
<1>3. \A q \in Procs :
         JobNames(planJob[q]) /\ planJob[q].board \in Nat /\ planJob[q].ws \in Workspaces
  BY JobsName DEF Job
<1>4. \A q \in Procs :
         JobNames(planJob'[q]) /\ planJob'[q].board \in Nat /\ planJob'[q].ws \in Workspaces
  BY <1>1, <1>2, <1>3
<1> QED BY <1>1, <1>4 DEF JobNames

(* The same, of a request that neither begins nor ends to owe a line.      *)
LEMMA QuietJobsKept ==
    ASSUME RecordsInv, NEW p \in Procs, Renamed(p),
           traffic' = traffic, Len(boards') \in Nat, Len(boards) <= Len(boards'),
           \A w \in Workspaces : wsSlug[w] # NoSlug => wsSlug'[w] # NoSlug
    PROVE  /\ \A q \in Procs : JobNames(planJob[q])'
           /\ \A w : logging(w)' = logging(w)
<1>1. PICK job \in Job : /\ planJob' = [planJob EXCEPT ![p] = job] /\ JobNames(job)
                         /\ job.step = "log" <=> planJob[p].step = "log"
                         /\ job.step = "log" => job.ws = planJob[p].ws
  BY DEF Renamed
<1>2. \A q \in Procs : planJob'[q] = IF q = p THEN job ELSE planJob[q]
  BY <1>1 DEF RecordsInv, PlanShape
<1>3. \A q \in Procs : /\ planJob'[q].step = "log" <=> planJob[q].step = "log"
                       /\ planJob'[q].step = "log" => planJob'[q].ws = planJob[q].ws
  BY <1>1, <1>2
<1>4. \A w : logging(w)' = logging(w)
  BY <1>3 DEF logging
<1> QED BY <1>1, <1>4, JobsKept

(* The parts of the invariant, each for itself.                            *)
LEMMA Reassembled ==
    ASSUME PlanShape', \A q \in Procs : JobNames(planJob[q])',
           BoardTrailIsCurrent', boardTrail' \in Seq(Nat \X (Names \cup {Absent})),
           LogInv', deletions' \in Seq(Workspaces),
           InvitedAtAskedRole', offered' \subseteq (DOMAIN invites') \X InvitableRoles,
           members' \subseteq liveWorkspaces' \X Users, verified' \subseteq accounts',
           invites' # << >> => "seats" \in traffic',
           "seats" \in traffic' => FirstWs \in liveWorkspaces'
    PROVE  RecordsInv'
<1>1. RecordShape'
  BY DEF RecordShape, JobNames
<1>2. FirstStays'
  BY DEF FirstStays, JobNames
<1>3. SlugRaceIsConflict'
  BY DEF SlugRaceIsConflict, JobNames
<1> QED BY <1>1, <1>2, <1>3 DEF RecordsInv

(* An audit row that says what a board is called now keeps the trail.      *)
LEMMA TrailStep ==
    ASSUME RecordsInv, NEW b \in Nat, NEW name \in Names \cup {Absent},
           DOMAIN boards' \subseteq DOMAIN boards \cup {b},
           \A c \in DOMAIN boards' : boards'[c] = IF c = b THEN name ELSE boards[c],
           boardTrail' = Append(boardTrail, <<b, name>>)
    PROVE  BoardTrailIsCurrent' /\ boardTrail' \in Seq(Nat \X (Names \cup {Absent}))
<1> DEFINE last == Len(boardTrail) + 1
<1>1. boardTrail \in Seq(Nat \X (Names \cup {Absent}))
  BY DEF RecordsInv, RecordShape
<1>2. /\ boardTrail' \in Seq(Nat \X (Names \cup {Absent}))
      /\ DOMAIN boardTrail = 1 .. Len(boardTrail) /\ Len(boardTrail) \in Nat
      /\ DOMAIN boardTrail' = 1 .. last /\ boardTrail'[last] = <<b, name>>
      /\ \A i \in DOMAIN boardTrail : boardTrail'[i] = boardTrail[i]
  <2>1. <<b, name>> \in Nat \X (Names \cup {Absent})
    OBVIOUS
  <2> QED BY <1>1, <2>1
<1>3. ASSUME NEW c \in DOMAIN boards'
      PROVE  \E i \in DOMAIN boardTrail' :
                /\ boardTrail'[i][1] = c
                /\ \A j \in DOMAIN boardTrail' : boardTrail'[j][1] = c => j <= i
                /\ boardTrail'[i][2] = boards'[c]
  <2>1. CASE c = b
    <3>1. last \in DOMAIN boardTrail' /\ boardTrail'[last][1] = c /\ boardTrail'[last][2] = boards'[c]
      BY <1>2, <2>1
    <3>2. \A j \in DOMAIN boardTrail' : j <= last
      BY <1>2
    <3> QED BY <3>1, <3>2
  <2>2. CASE c # b
    <3>1. PICK i \in DOMAIN boardTrail :
             /\ boardTrail[i][1] = c /\ boardTrail[i][2] = boards[c]
             /\ \A j \in DOMAIN boardTrail : boardTrail[j][1] = c => j <= i
      BY <2>2 DEF RecordsInv, BoardTrailIsCurrent
    <3>2. i \in DOMAIN boardTrail' /\ boardTrail'[i][1] = c /\ boardTrail'[i][2] = boards'[c]
      BY <1>2, <2>2, <3>1
    <3>3. \A j \in DOMAIN boardTrail' : j = last \/ j \in DOMAIN boardTrail
      BY <1>2
    <3>4. \A j \in DOMAIN boardTrail' : boardTrail'[j][1] = c => j <= i
      BY <1>2, <2>2, <3>1, <3>3
    <3> QED BY <3>2, <3>4
  <2> QED BY <2>1, <2>2
<1> QED BY <1>2, <1>3 DEF BoardTrailIsCurrent

(* Nobody's board, workspace, account or line changes.                     *)
LEMMA OthersKept ==
    ASSUME RecordsInv, PlanShape'
    PROVE  /\ UNCHANGED <<boards, boardTrail>> =>
                 BoardTrailIsCurrent' /\ boardTrail' \in Seq(Nat \X (Names \cup {Absent}))
           /\ UNCHANGED <<wsSlug, deletions>> /\ (\A w : logging(w)' = logging(w)) =>
                 LogInv' /\ deletions' \in Seq(Workspaces)
           /\ UNCHANGED <<invites, offered>> =>
                 InvitedAtAskedRole' /\ offered' \subseteq (DOMAIN invites') \X InvitableRoles
           /\ UNCHANGED <<members, wsSlug>> => members' \subseteq liveWorkspaces' \X Users
           /\ UNCHANGED <<accounts, verified>> => verified' \subseteq accounts'
<1>1. UNCHANGED <<boards, boardTrail>> =>
         BoardTrailIsCurrent' /\ boardTrail' \in Seq(Nat \X (Names \cup {Absent}))
  BY DEF RecordsInv, RecordShape, BoardTrailIsCurrent
<1>2. UNCHANGED <<wsSlug, deletions>> /\ (\A w : logging(w)' = logging(w)) =>
         LogInv' /\ deletions' \in Seq(Workspaces)
  BY DEF RecordsInv, RecordShape, LogInv, logLines
<1>3. UNCHANGED <<invites, offered>> =>
         InvitedAtAskedRole' /\ offered' \subseteq (DOMAIN invites') \X InvitableRoles
  BY DEF RecordsInv, RecordShape, InvitedAtAskedRole
<1>4. UNCHANGED <<members, wsSlug>> => members' \subseteq liveWorkspaces' \X Users
  BY DEF RecordsInv, RecordShape, liveWorkspaces
<1>5. UNCHANGED <<accounts, verified>> => verified' \subseteq accounts'
  BY DEF RecordsInv, RecordShape
<1> QED BY <1>1, <1>2, <1>3, <1>4, <1>5

(* Rows and requests as an invitation step leaves them.                    *)
InvitationTrace(p) ==
    /\ Renamed(p)
    /\ UNCHANGED <<traffic, wsSlug, deletions, boards, boardTrail, accounts, verified>>
    /\ \/ UNCHANGED invites
       \/ /\ "seats" \in traffic
          /\ DOMAIN invites \subseteq DOMAIN invites'
          /\ \A i \in DOMAIN invites : invites'[i].role = invites[i].role
    /\ \/ UNCHANGED members
       \/ "seats" \in traffic /\ \E u \in Users : members' = members \cup {<<FirstWs, u>>}
    /\ \/ UNCHANGED offered
       \/ \E i \in DOMAIN invites, r \in InvitableRoles :
             invites[i].role = r /\ offered' = offered \cup {<<i, r>>}

(* An invitation that is there was asked for under a ceiling of seats.     *)
LEMMA SeatTraffic ==
    ASSUME RecordsInv, NEW i \in DOMAIN invites
    PROVE  "seats" \in traffic
BY DEF RecordsInv, FirstStays, PlanShape, RowShape

(* A new status leaves the role.                                           *)
LEMMA StatusKeepsRole ==
    ASSUME RecordsInv, NEW i \in DOMAIN invites, NEW status \in Statuses, SetStatus(i, status)
    PROVE  /\ "seats" \in traffic /\ DOMAIN invites \subseteq DOMAIN invites'
           /\ \A j \in DOMAIN invites : invites'[j].role = invites[j].role
<1>1. /\ invites \in Seq(Invitation) /\ invites[i] \in Invitation
      /\ invites' = [invites EXCEPT ![i].status = status]
  BY DEF SetStatus, RecordsInv, PlanShape, RowShape
<1> QED BY <1>1, SeatTraffic DEF Invitation

(* A request that is answered, or goes on to another step.                 *)
LEMMA Answering ==
    ASSUME RecordsInv, NEW p \in Procs, NEW answer \in Answers, planJob[p].step # "log",
           planJob[p].op = "create" => answer # "refused",
           planJob' = [planJob EXCEPT ![p] = Answered(planJob[p], answer)]
    PROVE  Renamed(p)
<1>1. planJob[p] \in Job /\ PlanShape
  BY DEF RecordsInv, PlanShape
<1>2. Answered(planJob[p], answer) \in Job /\ Answered(planJob[p], answer).step = "done"
  BY <1>1, AnswersFit
<1> QED BY <1>1, <1>2, AnswersName DEF Renamed

(* Whatever happens to an invitation, the parts it touches are traced.     *)
LEMMA InvitationTraced ==
    ASSUME RecordsInv, NEW p \in Procs, InvitationStep(p)
    PROVE  InvitationTrace(p)
<1> DEFINE job == planJob[p]
<1> DEFINE Done(answer) == planJob' = [planJob EXCEPT ![p] = Answered(job, answer)]
<1>0. /\ job \in Job /\ InputsFit(job) /\ JobNames(job) /\ PlanShape
      /\ job.got \in 0 .. Len(invites) /\ job.seen \subseteq DOMAIN invites
  BY JobsName DEF RecordsInv
<1>1. DOMAIN invites = 1 .. Len(invites) /\ Len(invites) \in Nat
  BY <1>0, Counts
<1>2. IdleJob \in Job /\ 0 \in 0 .. Len(boards)
  BY <1>0, IdleJobFits DEF PlanShape, RowShape
<1>3. CASE BeginInvite(p)
  <2>1. PICK u \in Users, r \in InvitableRoles :
           Admit(p, [IdleJob EXCEPT !.op = "invite", !.step = "pending", !.user = u, !.role = r])
    BY <1>3 DEF BeginInvite
  <2>0. "seats" \in traffic
    BY <1>3 DEF BeginInvite
  <2> DEFINE new == [IdleJob EXCEPT !.op = "invite", !.step = "pending", !.user = u, !.role = r]
  <2>2. new \in Job
    BY <1>2 DEF Job, Ops, Steps
  <2>3. JobNames(new) /\ new.step # "log"
    BY <1>2, <2>0 DEF JobNames, IdleJob
  <2>4. /\ planJob' = [planJob EXCEPT ![p] = new] /\ job.step # "log"
        /\ UNCHANGED <<env, stored, traffic, planRows>>
    BY <2>1 DEF Admit
  <2> HIDE DEF new
  <2> QED BY <2>2, <2>3, <2>4 DEF InvitationTrace, Renamed, planRows
<1>4. CASE findPendingInvitations(p)
  <2> DEFINE own == {i \in pendingInvitations : invites[i].email = job.user}
  <2> DEFINE step == IF own = {} THEN "count"
                     ELSE IF \E i \in own : invites[i].role # job.role THEN "cancel"
                     ELSE "find"
  <2> DEFINE new == [job EXCEPT !.seen = own, !.step = step]
  <2>1. own \in SUBSET Nat
    BY <1>0, Counts
  <2>2. step \in Steps /\ step \notin {"log", "check", "write", "delete"}
    BY DEF Steps
  <2>3. /\ job.op = "invite" /\ job.step = "pending"
        /\ planJob' = [planJob EXCEPT ![p] = new] /\ UNCHANGED <<traffic, planRows>>
    BY <1>4 DEF findPendingInvitations, Goes
  <2> HIDE DEF own, step, job
  <2>4. new \in Job /\ JobNames(new) /\ new.step # "log"
    BY <1>0, <2>1, <2>2, <2>3 DEF Job, JobNames
  <2> HIDE DEF new
  <2> QED BY <2>3, <2>4 DEF InvitationTrace, Renamed, planRows, job
<1>5. ASSUME NEW what \in {"members", "invitations"}, CountSeats(p, what)
      PROVE  InvitationTrace(p)
  <2> DEFINE n == IF what = "members" THEN memberCount ELSE Cardinality(pendingInvitations)
  <2> DEFINE new == [job EXCEPT !.counted = @ \cup {what}, !.count = @ + n]
  <2>1. n \in Nat
    BY <1>0, Counts
  <2>2. /\ job.op \in {"invite", "accept"} /\ job.step = "count"
        /\ planJob' = [planJob EXCEPT ![p] = new] /\ UNCHANGED <<traffic, planRows>>
    BY <1>5 DEF CountSeats, Goes
  <2>3. job.counted \cup {what} \in SUBSET {"members", "invitations"} /\ job.count + n \in Nat
    BY <1>0, <2>1 DEF Job
  <2> HIDE DEF n, job
  <2>4. new \in Job
    BY <1>0, <2>3 DEF Job
  <2>5. JobNames(new) /\ new.step # "log"
    BY <1>0, <2>2 DEF Job, JobNames
  <2> HIDE DEF new
  <2> QED BY <2>2, <2>4, <2>5 DEF InvitationTrace, Renamed, planRows, job
<1>6. CASE assertSeatAvailable(p)
  <2> DEFINE new == [job EXCEPT !.step = "find", !.counted = {}, !.count = 0]
  <2>1. /\ job.op \in {"invite", "accept"} /\ job.step = "count"
        /\ Done("plan") \/ planJob' = [planJob EXCEPT ![p] = new]
        /\ UNCHANGED <<traffic, planRows>>
    BY <1>6 DEF assertSeatAvailable, Goes
  <2>2. CASE Done("plan")
    BY <2>1, <2>2, Answering DEF InvitationTrace, planRows, Answers
  <2>3. CASE planJob' = [planJob EXCEPT ![p] = new]
    <3> HIDE DEF job
    <3>1. new \in Job /\ JobNames(new) /\ new.step # "log"
      BY <1>0, <2>1 DEF Job, JobNames, Steps
    <3> HIDE DEF new
    <3> QED BY <2>1, <2>3, <3>1 DEF InvitationTrace, Renamed, planRows, job
  <2> QED BY <2>1, <2>2, <2>3
<1>7. CASE CancelPending(p)
  <2>1. PICK i \in job.seen :
           /\ SetStatus(i, "canceled")
           /\ Goes(p, [job EXCEPT !.seen = @ \ {i},
                                  !.step = IF job.seen = {i} THEN "find" ELSE "cancel"])
    BY <1>7 DEF CancelPending
  <2> DEFINE step == IF job.seen = {i} THEN "find" ELSE "cancel"
  <2> DEFINE new == [job EXCEPT !.seen = @ \ {i}, !.step = step]
  <2>2. /\ job.op = "invite" /\ job.step = "cancel" /\ planJob' = [planJob EXCEPT ![p] = new]
        /\ UNCHANGED <<traffic, accounts, verified, wsSlug, members, boards, boardTrail,
                       deletions, offered>>
    BY <1>7, <2>1 DEF CancelPending, Goes
  <2>3. step \in {"find", "cancel"} /\ i \in DOMAIN invites /\ "canceled" \in Statuses
    BY <1>0 DEF Statuses
  <2> HIDE DEF step, job
  <2>4. new \in Job /\ JobNames(new) /\ new.step # "log"
    BY <1>0, <2>2, <2>3 DEF Job, JobNames, Steps
  <2> HIDE DEF new
  <2> QED BY <2>1, <2>2, <2>3, <2>4, StatusKeepsRole DEF InvitationTrace, Renamed, job
<1>8. CASE pluginResend(p)
  <2>1. /\ job.op = "invite" /\ job.step = "find" /\ UNCHANGED <<traffic, planRows>>
        /\ \/ Done("refused")
           \/ planJob' = [planJob EXCEPT ![p] = [job EXCEPT !.step = "insert", !.seen = {}]]
           \/ \E i \in pendingInvitations :
                 planJob' = [planJob EXCEPT ![p] = [job EXCEPT !.step = "check", !.got = i, !.seen = {}]]
    BY <1>8 DEF pluginResend, Goes
  <2>2. CASE Done("refused")
    BY <2>1, <2>2, Answering DEF InvitationTrace, planRows, Answers
  <2>3. CASE planJob' = [planJob EXCEPT ![p] = [job EXCEPT !.step = "insert", !.seen = {}]]
    <3> DEFINE new == [job EXCEPT !.step = "insert", !.seen = {}]
    <3> HIDE DEF job
    <3>1. new \in Job /\ JobNames(new) /\ new.step # "log"
      BY <1>0, <2>1 DEF Job, JobNames, Steps
    <3>2. planJob' = [planJob EXCEPT ![p] = new]
      BY <2>3
    <3> HIDE DEF new
    <3> QED BY <2>1, <3>1, <3>2 DEF InvitationTrace, Renamed, planRows, job
  <2>4. ASSUME NEW i \in pendingInvitations,
               planJob' = [planJob EXCEPT ![p] = [job EXCEPT !.step = "check", !.got = i, !.seen = {}]]
        PROVE  InvitationTrace(p)
    <3> DEFINE new == [job EXCEPT !.step = "check", !.got = i, !.seen = {}]
    <3>0. i \in Nat /\ i > 0
      BY <1>0, <1>1, Counts
    <3>1. planJob' = [planJob EXCEPT ![p] = new]
      BY <2>4
    <3> HIDE DEF job
    <3>2. new \in Job /\ JobNames(new) /\ new.step # "log"
      BY <1>0, <2>1, <3>0 DEF Job, JobNames, Steps
    <3> HIDE DEF new
    <3> QED BY <2>1, <3>1, <3>2 DEF InvitationTrace, Renamed, planRows, job
  <2> QED BY <2>1, <2>2, <2>3, <2>4
<1>9. CASE pluginInvite(p)
  <2> DEFINE new == [job EXCEPT !.step = "check", !.got = Len(invites) + 1]
  <2> DEFINE inv == [email |-> job.user, role |-> job.role, status |-> "pending", stale |-> FALSE]
  <2>1. /\ job.op = "invite" /\ job.step = "insert" /\ planJob' = [planJob EXCEPT ![p] = new]
        /\ invites' = Append(invites, inv)
        /\ UNCHANGED <<traffic, accounts, verified, wsSlug, members, boards, boardTrail,
                       deletions, offered>>
    BY <1>9 DEF pluginInvite, Goes
  <2>2. "seats" \in traffic /\ invites \in Seq(Invitation)
    BY <1>0, <2>1 DEF JobNames, PlanShape, RowShape
  <2>3. /\ DOMAIN invites \subseteq DOMAIN invites'
        /\ \A i \in DOMAIN invites : invites'[i].role = invites[i].role
    <3> HIDE DEF inv
    <3> QED BY <2>1, <2>2
  <2> HIDE DEF job, inv
  <2>4. Len(invites) + 1 \in Nat /\ Len(invites) + 1 > 0
    BY <1>1
  <2>5. new \in Job
    BY <1>0, <2>4 DEF Job, Steps
  <2>6. JobNames(new) /\ new.step # "log"
    BY <1>0, <2>1, <2>4 DEF Job, JobNames
  <2> HIDE DEF new
  <2> QED BY <2>1, <2>2, <2>3, <2>5, <2>6 DEF InvitationTrace, Renamed, job
<1>10. CASE createInvitation(p)
  <2>1. /\ job.op = "invite" /\ job.step = "check" /\ (Done("ok") \/ Done("conflict"))
        /\ UNCHANGED <<traffic, accounts, verified, wsSlug, members, invites, boards,
                       boardTrail, deletions>>
        /\ \/ UNCHANGED offered
           \/ invites[job.got].role = job.role /\ offered' = offered \cup {<<job.got, job.role>>}
    BY <1>10 DEF createInvitation, Goes
  <2>2. Renamed(p)
    BY <2>1, Answering DEF Answers
  <2>3. job.got \in DOMAIN invites /\ job.role \in InvitableRoles
    BY <1>0, <1>1, <2>1 DEF JobNames, InputsFit
  <2> HIDE DEF job
  <2> QED BY <2>1, <2>2, <2>3 DEF InvitationTrace
<1>11. CASE BeginRevoke(p)
  <2>1. PICK i \in DOMAIN invites :
           Admit(p, [IdleJob EXCEPT !.op = "revoke", !.step = "cancel", !.got = i])
    BY <1>11 DEF BeginRevoke
  <2> DEFINE new == [IdleJob EXCEPT !.op = "revoke", !.step = "cancel", !.got = i]
  <2>0. i \in Nat
    BY <1>1
  <2>2. new \in Job
    BY <2>0, <1>2 DEF Job, Ops, Steps
  <2>3. JobNames(new) /\ new.step # "log"
    BY <1>2 DEF JobNames, IdleJob
  <2>4. /\ planJob' = [planJob EXCEPT ![p] = new] /\ job.step # "log"
        /\ UNCHANGED <<env, stored, traffic, planRows>>
    BY <2>1 DEF Admit
  <2> HIDE DEF new
  <2> QED BY <2>2, <2>3, <2>4 DEF InvitationTrace, Renamed, planRows
<1>12. CASE revokeInvitation(p)
  <2>1. /\ job.op = "revoke" /\ job.step = "cancel" /\ Done("ok") /\ SetStatus(job.got, "canceled")
        /\ UNCHANGED <<traffic, accounts, verified, wsSlug, members, boards, boardTrail,
                       deletions, offered>>
    BY <1>12 DEF revokeInvitation, Goes
  <2>2. Renamed(p)
    BY <2>1, Answering DEF Answers
  <2>3. CASE job.got \in DOMAIN invites
    BY <2>1, <2>2, <2>3, StatusKeepsRole DEF InvitationTrace, Statuses
  <2>4. CASE job.got \notin DOMAIN invites
    <3>1. invites' = invites
      BY <1>0, <2>1, <2>4 DEF SetStatus, PlanShape, RowShape
    <3> QED BY <2>1, <2>2, <3>1 DEF InvitationTrace
  <2> QED BY <2>3, <2>4
<1>13. CASE BeginAccept(p)
  <2>1. PICK i \in DOMAIN invites :
           Admit(p, [IdleJob EXCEPT !.op = "accept", !.step = "count", !.got = i])
    BY <1>13 DEF BeginAccept
  <2> DEFINE new == [IdleJob EXCEPT !.op = "accept", !.step = "count", !.got = i]
  <2>0. i \in Nat
    BY <1>1
  <2>2. new \in Job
    BY <2>0, <1>2 DEF Job, Ops, Steps
  <2>3. JobNames(new) /\ new.step # "log"
    BY <1>2 DEF JobNames, IdleJob
  <2>4. /\ planJob' = [planJob EXCEPT ![p] = new] /\ job.step # "log"
        /\ UNCHANGED <<env, stored, traffic, planRows>>
    BY <2>1 DEF Admit
  <2> HIDE DEF new
  <2> QED BY <2>2, <2>3, <2>4 DEF InvitationTrace, Renamed, planRows
<1>14. CASE acceptInvitation(p)
  <2>1. /\ job.op = "accept" /\ job.step = "find"
        /\ UNCHANGED <<traffic, accounts, verified, wsSlug, boards, boardTrail, deletions, offered>>
        /\ \/ Done("refused") /\ UNCHANGED <<invites, members>>
           \/ /\ Done("ok") /\ SetStatus(job.got, "accepted") /\ job.got \in pendingInvitations
              /\ members' = members \cup {<<FirstWs, invites[job.got].email>>}
    BY <1>14 DEF acceptInvitation, pluginAcceptable, Goes
  <2>2. Renamed(p)
    BY <2>1, Answering DEF Answers
  <2>3. CASE UNCHANGED <<invites, members>>
    BY <2>1, <2>2, <2>3 DEF InvitationTrace
  <2>4. CASE /\ SetStatus(job.got, "accepted") /\ job.got \in pendingInvitations
             /\ members' = members \cup {<<FirstWs, invites[job.got].email>>}
    <3>1. job.got \in DOMAIN invites /\ "accepted" \in Statuses
      BY <1>0, <2>4, Counts DEF Statuses
    <3>2. invites[job.got].email \in Users
      <4>1. invites \in Seq(Invitation)
        BY <1>0 DEF PlanShape, RowShape
      <4>2. invites[job.got] \in Invitation
        BY <3>1, <4>1
      <4> QED BY <4>2 DEF Invitation
    <3> HIDE DEF job
    <3> QED BY <2>1, <2>2, <2>4, <3>1, <3>2, StatusKeepsRole DEF InvitationTrace
  <2> QED BY <2>1, <2>3, <2>4
<1> QED BY <1>3, <1>4, <1>5, <1>6, <1>7, <1>8, <1>9, <1>10, <1>11, <1>12, <1>13, <1>14
        DEF InvitationStep

(* What is recorded of invitations and everything else stays true.         *)
LEMMA InvitationRecords ==
    ASSUME RecordsInv, PlanShape', NEW p \in Procs, InvitationStep(p)
    PROVE  RecordsInv'
<1>1. InvitationTrace(p)
  BY InvitationTraced
<1>2. /\ Len(boards') \in Nat /\ Len(boards) <= Len(boards') /\ traffic' = traffic /\ Renamed(p)
      /\ wsSlug' = wsSlug
  BY <1>1 DEF InvitationTrace, RecordsInv, PlanShape, RowShape
<1>3. (\A q \in Procs : JobNames(planJob[q])') /\ \A w : logging(w)' = logging(w)
  BY <1>2, QuietJobsKept
<1>4. /\ BoardTrailIsCurrent' /\ boardTrail' \in Seq(Nat \X (Names \cup {Absent}))
      /\ LogInv' /\ deletions' \in Seq(Workspaces) /\ verified' \subseteq accounts'
  BY <1>1, <1>3, OthersKept DEF InvitationTrace
<1>5. /\ offered \subseteq (DOMAIN invites) \X InvitableRoles
      /\ \A o \in offered : invites[o[1]].role = o[2]
  BY DEF RecordsInv, RecordShape, InvitedAtAskedRole
<1>6. /\ DOMAIN invites \subseteq DOMAIN invites'
      /\ \A i \in DOMAIN invites : invites'[i].role = invites[i].role
  BY <1>1 DEF InvitationTrace
<1>7. offered' \subseteq (DOMAIN invites') \X InvitableRoles
  BY <1>1, <1>5, <1>6 DEF InvitationTrace
<1>8. InvitedAtAskedRole'
  <2>1. ASSUME NEW o \in offered' PROVE invites[o[1]].role = o[2] /\ o[1] \in DOMAIN invites
    BY <1>1, <1>5 DEF InvitationTrace
  <2> QED BY <1>6, <2>1 DEF InvitedAtAskedRole
<1>9. "seats" \in traffic => FirstWs \in liveWorkspaces
  BY DEF RecordsInv, FirstStays
<1>10. liveWorkspaces' = liveWorkspaces
  BY <1>1 DEF InvitationTrace, liveWorkspaces
<1>11. members' \subseteq liveWorkspaces' \X Users
  <2>1. members \subseteq liveWorkspaces \X Users
    BY DEF RecordsInv, RecordShape
  <2> QED BY <1>1, <1>9, <1>10, <2>1 DEF InvitationTrace
<1>12. invites' # << >> => "seats" \in traffic'
  BY <1>1 DEF InvitationTrace, RecordsInv, FirstStays
<1> QED BY <1>2, <1>3, <1>4, <1>7, <1>8, <1>9, <1>10, <1>11, <1>12, Reassembled

(* A board's step: the board and its audit row change together.            *)
LEMMA BoardRecords ==
    ASSUME RecordsInv, PlanShape', NEW p \in Procs, BoardStep(p)
    PROVE  RecordsInv'
<1> DEFINE job == planJob[p]
<1> DEFINE Trail == boardTrail' \in Seq(Nat \X (Names \cup {Absent}))
<1> DEFINE Rest == <<traffic, accounts, verified, wsSlug, members, invites, deletions, offered>>
<1> DEFINE Goal == /\ Renamed(p) /\ UNCHANGED Rest /\ Len(boards) <= Len(boards')
                   /\ BoardTrailIsCurrent' /\ Trail
<1>0. /\ job \in Job /\ InputsFit(job) /\ JobNames(job) /\ PlanShape
      /\ boards \in Seq(Names \cup {Absent}) /\ Len(boards) \in Nat /\ DOMAIN boards = 1 .. Len(boards)
      /\ IdleJob \in Job /\ 0 \in 0 .. Len(boards) /\ planJob \in [Procs -> Job]
  BY JobsName, IdleJobFits DEF RecordsInv, PlanShape, RowShape
<1>1. UNCHANGED <<boards, boardTrail>> => Len(boards) <= Len(boards') /\ BoardTrailIsCurrent' /\ Trail
  BY <1>0, OthersKept
<1>2. ASSUME BeginBoard(p) PROVE Goal
  <2>1. PICK n \in Names :
           Admit(p, [IdleJob EXCEPT !.op = "board", !.step = "insert", !.name = n,
                                    !.count = Cardinality(liveBoards)])
    BY <1>2 DEF BeginBoard
  <2> DEFINE k == Cardinality(liveBoards)
  <2> DEFINE new == [IdleJob EXCEPT !.op = "board", !.step = "insert", !.name = n, !.count = k]
  <2>2. k \in Nat
    BY <1>0, Counts
  <2>3. /\ planJob' = [planJob EXCEPT ![p] = new] /\ job.step # "log"
        /\ UNCHANGED <<traffic, planRows>>
    BY <2>1 DEF Admit
  <2> HIDE DEF k
  <2>4. new \in Job
    BY <1>0, <2>2 DEF Job, Ops, Steps
  <2>5. JobNames(new) /\ new.step # "log"
    BY <1>0 DEF JobNames, IdleJob
  <2> HIDE DEF new
  <2>6. Renamed(p)
    BY <2>3, <2>4, <2>5 DEF Renamed
  <2> QED BY <1>1, <2>3, <2>6 DEF planRows
<1>3. ASSUME createBoard(p) PROVE Goal
  <2>1. /\ job.op = "board" /\ job.step = "insert" /\ UNCHANGED Rest
        /\ \E answer \in {"plan", "ok"} : planJob' = [planJob EXCEPT ![p] = Answered(job, answer)]
        /\ \/ UNCHANGED <<boards, boardTrail>>
           \/ /\ boards' = Append(boards, job.name)
              /\ boardTrail' = Append(boardTrail, <<Len(boards) + 1, job.name>>)
    BY <1>3 DEF createBoard, Goes
  <2>2. Renamed(p)
    BY <2>1, Answering DEF Answers
  <2>3. job.name \in Names
    BY <1>0, <2>1 DEF InputsFit
  <2>4. CASE /\ boards' = Append(boards, job.name)
             /\ boardTrail' = Append(boardTrail, <<Len(boards) + 1, job.name>>)
    <3> DEFINE b == Len(boards) + 1
    <3> DEFINE name == job.name
    <3>1. /\ b \in Nat /\ name \in Names \cup {Absent} /\ boardTrail' = Append(boardTrail, <<b, name>>)
          /\ boards' = Append(boards, name)
      BY <1>0, <2>3, <2>4
    <3> HIDE DEF name
    <3>2. /\ DOMAIN boards' \subseteq DOMAIN boards \cup {b} /\ Len(boards) <= Len(boards')
          /\ \A c \in DOMAIN boards' : boards'[c] = IF c = b THEN name ELSE boards[c]
      BY <1>0, <3>1
    <3> HIDE DEF b
    <3>3. BoardTrailIsCurrent' /\ Trail
      BY <3>1, <3>2, TrailStep
    <3> QED BY <2>1, <2>2, <3>2, <3>3
  <2> QED BY <1>1, <2>1, <2>2, <2>4
<1>4. ASSUME removeBoard(p) PROVE Goal
  <2>1. PICK b \in liveBoards :
           /\ boards' = [boards EXCEPT ![b] = Absent]
           /\ boardTrail' = Append(boardTrail, <<b, Absent>>)
           /\ planJob' = [planJob EXCEPT ![p] = Answered([IdleJob EXCEPT !.op = "drop"], "ok")]
           /\ UNCHANGED Rest /\ job.step # "log"
    BY <1>4 DEF removeBoard
  <2> DEFINE idle == [IdleJob EXCEPT !.op = "drop"]
  <2>2. idle \in Job /\ idle.op # "create" /\ "ok" \in Answers
    BY <1>0 DEF Job, Ops, Answers, IdleJob
  <2> HIDE DEF idle
  <2>3. /\ Answered(idle, "ok") \in Job /\ JobNames(Answered(idle, "ok"))
        /\ Answered(idle, "ok").step = "done"
    BY <1>0, <2>2, AnswersFit, AnswersName
  <2>4. Renamed(p)
    BY <2>1, <2>3 DEF Renamed, idle
  <2>5. b \in DOMAIN boards /\ b \in Nat
    BY <1>0 DEF liveBoards
  <2>6. /\ DOMAIN boards' \subseteq DOMAIN boards \cup {b} /\ Len(boards) <= Len(boards')
        /\ \A c \in DOMAIN boards' : boards'[c] = IF c = b THEN Absent ELSE boards[c]
    BY <1>0, <2>1, <2>5
  <2>7. BoardTrailIsCurrent' /\ Trail
    BY <2>1, <2>5, <2>6, TrailStep
  <2> QED BY <2>1, <2>4, <2>6, <2>7
<1>5. ASSUME BeginBoardUpdate(p) PROVE Goal
  <2>1. PICK b \in liveBoards, n \in Names :
           Admit(p, [IdleJob EXCEPT !.op = "rename", !.step = "write", !.board = b, !.name = n])
    BY <1>5 DEF BeginBoardUpdate
  <2> DEFINE new == [IdleJob EXCEPT !.op = "rename", !.step = "write", !.board = b, !.name = n]
  <2>2. b \in 0 .. Len(boards) /\ b \in Nat /\ b > 0
    BY <1>0 DEF liveBoards
  <2>3. /\ planJob' = [planJob EXCEPT ![p] = new] /\ job.step # "log"
        /\ UNCHANGED <<traffic, planRows>>
    BY <2>1 DEF Admit
  <2>4. new \in Job
    BY <1>0, <2>2 DEF Job, Ops, Steps
  <2>5. JobNames(new) /\ new.step # "log"
    BY <1>0, <2>2 DEF JobNames, IdleJob
  <2> HIDE DEF new
  <2>6. Renamed(p)
    BY <2>3, <2>4, <2>5 DEF Renamed
  <2> QED BY <1>1, <2>3, <2>6 DEF planRows
<1>6. ASSUME updateBoard(p) PROVE Goal
  <2>1. /\ job.op = "rename" /\ job.step = "write" /\ UNCHANGED Rest
        /\ \E answer \in {"refused", "ok"} : planJob' = [planJob EXCEPT ![p] = Answered(job, answer)]
        /\ \/ UNCHANGED <<boards, boardTrail>>
           \/ /\ boards' = [boards EXCEPT ![job.board] = job.name]
              /\ boardTrail' = Append(boardTrail, <<job.board, job.name>>)
    BY <1>6 DEF updateBoard, Goes
  <2>2. Renamed(p)
    BY <2>1, Answering DEF Answers
  <2>3. job.name \in Names /\ job.board \in DOMAIN boards /\ job.board \in Nat
    BY <1>0, <2>1 DEF InputsFit, JobNames
  <2>4. CASE /\ boards' = [boards EXCEPT ![job.board] = job.name]
             /\ boardTrail' = Append(boardTrail, <<job.board, job.name>>)
    <3> DEFINE b == job.board
    <3> DEFINE name == job.name
    <3>1. /\ b \in Nat /\ b \in DOMAIN boards /\ name \in Names \cup {Absent}
          /\ boardTrail' = Append(boardTrail, <<b, name>>) /\ boards' = [boards EXCEPT ![b] = name]
      BY <2>3, <2>4
    <3> HIDE DEF b, name
    <3>2. /\ DOMAIN boards' \subseteq DOMAIN boards \cup {b} /\ Len(boards) <= Len(boards')
          /\ \A c \in DOMAIN boards' : boards'[c] = IF c = b THEN name ELSE boards[c]
      BY <1>0, <3>1
    <3>3. BoardTrailIsCurrent' /\ Trail
      BY <3>1, <3>2, TrailStep
    <3> QED BY <2>1, <2>2, <3>2, <3>3
  <2> QED BY <1>1, <2>1, <2>2, <2>4
<1>7. Goal
  BY <1>2, <1>3, <1>4, <1>5, <1>6 DEF BoardStep
<1>8. Len(boards') \in Nat
  BY DEF PlanShape, RowShape
<1>9. (\A q \in Procs : JobNames(planJob[q])') /\ \A w : logging(w)' = logging(w)
  BY <1>7, <1>8, QuietJobsKept
<1>10. /\ LogInv' /\ deletions' \in Seq(Workspaces) /\ verified' \subseteq accounts'
       /\ InvitedAtAskedRole' /\ offered' \subseteq (DOMAIN invites') \X InvitableRoles
       /\ members' \subseteq liveWorkspaces' \X Users
  BY <1>7, <1>9, OthersKept
<1>11. /\ invites' # << >> => "seats" \in traffic'
       /\ "seats" \in traffic' => FirstWs \in liveWorkspaces'
  BY <1>7 DEF RecordsInv, FirstStays, liveWorkspaces
<1> QED BY <1>7, <1>9, <1>10, <1>11, Reassembled

(* A workspace that is there, or is founded, has a slug and no line.       *)
LEMMA SlugStep ==
    ASSUME RecordsInv, NEW w \in Workspaces, wsSlug[w] # Absent, NEW slug \in Slugs,
           wsSlug' = [wsSlug EXCEPT ![w] = slug], deletions' = deletions,
           \A v : logging(v)' = logging(v)
    PROVE  /\ LogInv' /\ liveWorkspaces' = liveWorkspaces \cup {w}
           /\ \A v \in Workspaces : wsSlug[v] # NoSlug => wsSlug'[v] # NoSlug
<1>1. slug # Absent /\ slug # NoSlug
  BY PlansAssumption
<1>2. \A v \in Workspaces : wsSlug'[v] = IF v = w THEN slug ELSE wsSlug[v]
  BY DEF RecordsInv, PlanShape, RowShape
<1>3. \A v \in Workspaces : logLines(v)' = logLines(v)
  BY DEF logLines
<1>4. LogInv'
  BY <1>1, <1>2, <1>3 DEF RecordsInv, LogInv
<1>5. liveWorkspaces' = liveWorkspaces \cup {w}
  BY <1>2 DEF liveWorkspaces
<1> QED BY <1>1, <1>2, <1>4, <1>5

(* Whoever removes a workspace owes its line, once.                        *)
LEMMA RemovalStep ==
    ASSUME RecordsInv, NEW p \in Procs, planJob[p].op = "remove", planJob[p].step = "delete",
           wsSlug' = [wsSlug EXCEPT ![planJob[p].ws] = Absent], deletions' = deletions,
           NEW job \in Job, planJob' = [planJob EXCEPT ![p] = job],
           IF planJob[p].ws \in liveWorkspaces
             THEN job.step = "log" /\ job.ws = planJob[p].ws
             ELSE job.step # "log"
    PROVE  LogInv'
<1>0. PICK gone \in Workspaces : gone = planJob[p].ws
  BY JobsName DEF Job
<1>1. wsSlug[gone] # NoSlug
  BY <1>0, JobsName DEF JobNames
<1>2. /\ \A v \in Workspaces : wsSlug'[v] = IF v = gone THEN Absent ELSE wsSlug[v]
      /\ gone \in liveWorkspaces \/ wsSlug[gone] = Absent
  BY <1>0, <1>1 DEF RecordsInv, PlanShape, RowShape, liveWorkspaces
<1>3. \A q \in Procs : planJob'[q] = IF q = p THEN job ELSE planJob[q]
  BY DEF RecordsInv, PlanShape
<1>4. \A v \in Workspaces : logLines(v)' = logLines(v)
  BY DEF logLines
<1>5. \A v \in Workspaces : v # gone => logging(v)' = logging(v)
  BY <1>0, <1>3 DEF logging
<1>6. \A v \in Workspaces : v # gone =>
         \/ wsSlug'[v] # Absent /\ logLines(v)' = {} /\ logging(v)' = {}
         \/ wsSlug'[v] = Absent /\ logLines(v)' = {} /\ \E q \in Procs : logging(v)' = {q}
         \/ wsSlug'[v] = Absent /\ logging(v)' = {} /\ \E i \in DOMAIN deletions' : logLines(v)' = {i}
  BY <1>2, <1>4, <1>5 DEF RecordsInv, LogInv
<1>7. CASE gone \in liveWorkspaces
  <2>1. wsSlug[gone] # Absent
    BY <1>7, PlansAssumption DEF liveWorkspaces
  <2>2. logLines(gone) = {} /\ logging(gone) = {}
    BY <1>1, <2>1 DEF RecordsInv, LogInv
  <2>3. logging(gone)' = {p}
    BY <1>0, <1>3, <1>7, <2>2 DEF logging
  <2> QED BY <1>1, <1>2, <1>4, <1>6, <2>2, <2>3 DEF LogInv
<1>8. CASE gone \notin liveWorkspaces
  <2>1. wsSlug[gone] = Absent /\ wsSlug'[gone] = Absent
    BY <1>1, <1>2, <1>8
  <2>2. logging(gone)' = logging(gone)
    BY <1>0, <1>3, <1>8 DEF logging
  <2>3. logLines(gone)' = logLines(gone) /\ deletions' = deletions
    BY <1>1, <1>4
  <2>4. \/ logLines(gone) = {} /\ \E q \in Procs : logging(gone) = {q}
        \/ logging(gone) = {} /\ \E i \in DOMAIN deletions : logLines(gone) = {i}
    BY <1>1, <2>1 DEF RecordsInv, LogInv
  <2> QED BY <1>6, <2>1, <2>2, <2>3, <2>4 DEF LogInv
<1> QED BY <1>7, <1>8

(* The one who owes a line writes it.                                      *)
LEMMA LineStep ==
    ASSUME RecordsInv, NEW p \in Procs, planJob[p].step = "log",
           deletions' = Append(deletions, planJob[p].ws), wsSlug' = wsSlug,
           NEW job \in Job, planJob' = [planJob EXCEPT ![p] = job], job.step # "log"
    PROVE  LogInv' /\ deletions' \in Seq(Workspaces)
<1>0. PICK gone \in Workspaces : gone = planJob[p].ws
  BY JobsName DEF Job
<1> DEFINE last == Len(deletions) + 1
<1>1. deletions \in Seq(Workspaces) /\ deletions' = Append(deletions, gone)
  BY <1>0 DEF RecordsInv, RecordShape
<1>2. \A q \in Procs : planJob'[q] = IF q = p THEN job ELSE planJob[q]
  BY DEF RecordsInv, PlanShape
<1>3. /\ deletions' \in Seq(Workspaces) /\ last \in DOMAIN deletions' /\ last \notin DOMAIN deletions
      /\ DOMAIN deletions' = DOMAIN deletions \cup {last} /\ deletions'[last] = gone
      /\ \A i \in DOMAIN deletions : deletions'[i] = deletions[i]
  BY <1>1
<1>4. \A v \in Workspaces : logLines(v)' = IF v = gone THEN logLines(v) \cup {last} ELSE logLines(v)
  BY <1>3 DEF logLines
<1>5. \A v \in Workspaces : logging(v)' = logging(v) \ {p}
  BY <1>2 DEF logging
<1>6. p \in logging(gone) /\ \A v \in Workspaces : v # gone => p \notin logging(v)
  BY <1>0 DEF logging
<1> HIDE DEF last
<1>7. ASSUME NEW v \in Workspaces, v # gone
      PROVE  \/ wsSlug'[v] # Absent /\ logLines(v)' = {} /\ logging(v)' = {}
             \/ wsSlug'[v] = Absent /\ logLines(v)' = {} /\ \E q \in Procs : logging(v)' = {q}
             \/ wsSlug'[v] = Absent /\ logging(v)' = {} /\ \E i \in DOMAIN deletions' : logLines(v)' = {i}
  <2>1. logLines(v)' = logLines(v) /\ logging(v)' = logging(v)
    BY <1>4, <1>5, <1>6, <1>7
  <2> QED BY <1>3, <2>1 DEF RecordsInv, LogInv
<1>8. wsSlug[gone] = Absent /\ logLines(gone) = {} /\ logging(gone) = {p}
  BY <1>1, <1>6 DEF RecordsInv, LogInv
<1>9. wsSlug'[gone] = Absent /\ logLines(gone)' = {last} /\ logging(gone)' = {}
  BY <1>1, <1>4, <1>5, <1>8
<1> QED BY <1>3, <1>7, <1>9 DEF LogInv

(* A workspace's step: who is a member, and which lines the log has.       *)
LEMMA WorkspaceRecords ==
    ASSUME RecordsInv, PlanShape', NEW p \in Procs, WorkspaceStep(p)
    PROVE  RecordsInv'
<1> DEFINE job == planJob[p]
<1> DEFINE Rest == <<traffic, accounts, verified, invites, boards, boardTrail, offered>>
<1> DEFINE Members == members' \subseteq liveWorkspaces' \X Users
<1> DEFINE First == "seats" \in traffic => FirstWs \in liveWorkspaces'
<1> DEFINE Jobs == \A q \in Procs : JobNames(planJob[q])'
<1> DEFINE Lines == LogInv' /\ deletions' \in Seq(Workspaces)
<1> DEFINE Goal == UNCHANGED Rest /\ Members /\ First /\ Jobs /\ Lines
<1>0. /\ job \in Job /\ InputsFit(job) /\ JobNames(job) /\ PlanShape
      /\ IdleJob \in Job /\ 0 \in 0 .. Len(boards) /\ Len(boards) \in Nat
      /\ planJob \in [Procs -> Job]
  BY JobsName, IdleJobFits DEF RecordsInv, PlanShape, RowShape
<1>1. /\ members \subseteq liveWorkspaces \X Users /\ deletions \in Seq(Workspaces)
      /\ "seats" \in traffic => FirstWs \in liveWorkspaces
  BY DEF RecordsInv, RecordShape, FirstStays
<1>2. ASSUME Renamed(p), UNCHANGED <<traffic, planRows>> PROVE Goal
  <2>1. /\ UNCHANGED Rest /\ wsSlug' = wsSlug /\ members' = members /\ deletions' = deletions
    BY <1>2 DEF planRows
  <2>2. Jobs /\ \A w : logging(w)' = logging(w)
    BY <1>0, <1>2, <2>1, QuietJobsKept
  <2>3. Lines /\ Members
    BY <2>1, <2>2, OthersKept
  <2> QED BY <1>1, <2>1, <2>2, <2>3 DEF liveWorkspaces
<1>3. ASSUME NEW new \in Job, JobNames(new), new.step # "log",
             planJob' = [planJob EXCEPT ![p] = new], job.step # "log"
      PROVE  Renamed(p)
  BY <1>3 DEF Renamed
<1>4. ASSUME BeginWorkspace(p) PROVE Goal
  <2>1. PICK u \in accounts, s \in Slugs :
           Admit(p, [IdleJob EXCEPT !.op = "create", !.step = "slug", !.user = u,
                                    !.slug = s, !.count = Cardinality(liveWorkspaces)])
    BY <1>4 DEF BeginWorkspace
  <2> DEFINE k == Cardinality(liveWorkspaces)
  <2> DEFINE new == [IdleJob EXCEPT !.op = "create", !.step = "slug", !.user = u, !.slug = s,
                                    !.count = k]
  <2>2. k \in Nat /\ u \in Users
    BY <1>0, Counts DEF PlanShape, RowShape
  <2>3. /\ planJob' = [planJob EXCEPT ![p] = new] /\ job.step # "log"
        /\ UNCHANGED <<traffic, planRows>>
    BY <2>1 DEF Admit
  <2> HIDE DEF k
  <2>4. new \in Job
    BY <1>0, <2>2 DEF Job, Ops, Steps
  <2>5. JobNames(new) /\ new.step # "log"
    BY <1>0 DEF JobNames, IdleJob
  <2> HIDE DEF new
  <2> QED BY <1>2, <1>3, <2>3, <2>4, <2>5
<1>5. ASSUME BeginWorkspaceUpdate(p) PROVE Goal
  <2>1. PICK w \in liveWorkspaces, s \in Slugs :
           Admit(p, [IdleJob EXCEPT !.op = "reslug", !.step = "slug", !.ws = w, !.slug = s])
    BY <1>5 DEF BeginWorkspaceUpdate
  <2> DEFINE new == [IdleJob EXCEPT !.op = "reslug", !.step = "slug", !.ws = w, !.slug = s]
  <2>2. w \in Workspaces
    BY DEF liveWorkspaces
  <2>3. /\ planJob' = [planJob EXCEPT ![p] = new] /\ job.step # "log"
        /\ UNCHANGED <<traffic, planRows>>
    BY <2>1 DEF Admit
  <2>4. new \in Job
    BY <1>0, <2>2 DEF Job, Ops, Steps
  <2>5. JobNames(new) /\ new.step # "log"
    BY <1>0 DEF JobNames, IdleJob
  <2> HIDE DEF new
  <2> QED BY <1>2, <1>3, <2>3, <2>4, <2>5
<1>6. ASSUME CheckSlug(p) PROVE Goal
  <2>1. /\ job.op \in {"create", "reslug"} /\ job.step = "slug" /\ UNCHANGED <<traffic, planRows>>
        /\ \/ \E answer \in {"plan", "conflict"} : planJob' = [planJob EXCEPT ![p] = Answered(job, answer)]
           \/ planJob' = [planJob EXCEPT ![p] = [job EXCEPT !.step = "plugin"]]
    BY <1>6 DEF CheckSlug, Goes
  <2>2. ASSUME NEW answer \in {"plan", "conflict"},
               planJob' = [planJob EXCEPT ![p] = Answered(job, answer)]
        PROVE  Renamed(p)
    BY <2>1, <2>2, Answering DEF Answers
  <2>3. CASE planJob' = [planJob EXCEPT ![p] = [job EXCEPT !.step = "plugin"]]
    <3> DEFINE new == [job EXCEPT !.step = "plugin"]
    <3>1. planJob' = [planJob EXCEPT ![p] = new] /\ job.step # "log"
      BY <2>1, <2>3
    <3> HIDE DEF job
    <3>2. new \in Job /\ new.op = job.op /\ new.board = job.board /\ new.answer = job.answer
          /\ new.step = "plugin"
      BY <1>0 DEF Job, Steps
    <3>3. JobNames(new) /\ new.step # "log"
      BY <1>0, <2>1, <3>2 DEF JobNames
    <3> HIDE DEF new
    <3> QED BY <1>2, <1>3, <2>1, <3>1, <3>2, <3>3
  <2> QED BY <1>2, <2>1, <2>2, <2>3
<1>7. ASSUME createWorkspace(p) PROVE Goal
  <2>1. /\ job.op = "create" /\ job.step = "plugin" /\ UNCHANGED Rest /\ deletions' = deletions
        /\ \E answer \in {"conflict", "ok"} : planJob' = [planJob EXCEPT ![p] = Answered(job, answer)]
        /\ \/ UNCHANGED <<wsSlug, members>>
           \/ \E w \in Workspaces : /\ wsSlug[w] = NoSlug
                                    /\ wsSlug' = [wsSlug EXCEPT ![w] = job.slug]
                                    /\ members' = members \cup {<<w, job.user>>}
    <3> DEFINE free == {w \in Workspaces : wsSlug[w] = NoSlug}
    <3>1. free # {} => (CHOOSE x \in free : TRUE) \in free
      OBVIOUS
    <3> QED BY <1>7, <3>1 DEF createWorkspace, Goes, pluginSlugConflict
  <2>2. Renamed(p)
    BY <2>1, Answering DEF Answers
  <2>3. job.slug \in Slugs /\ job.user \in Users
    BY <1>0, <2>1 DEF InputsFit, Job
  <2>4. CASE UNCHANGED <<wsSlug, members>>
    BY <1>2, <2>1, <2>2, <2>4 DEF planRows
  <2>5. ASSUME NEW w \in Workspaces, wsSlug[w] = NoSlug,
               wsSlug' = [wsSlug EXCEPT ![w] = job.slug],
               members' = members \cup {<<w, job.user>>}
        PROVE  Goal
    <3>1. wsSlug[w] # Absent /\ \A v \in Workspaces : wsSlug[v] # NoSlug => wsSlug'[v] # NoSlug
      BY <2>3, <2>5, PlansAssumption DEF RecordsInv, PlanShape, RowShape
    <3>2. Jobs /\ \A v : logging(v)' = logging(v)
      BY <1>0, <2>1, <2>2, <3>1, QuietJobsKept
    <3>3. LogInv' /\ liveWorkspaces' = liveWorkspaces \cup {w}
      BY <2>1, <2>3, <2>5, <3>1, <3>2, SlugStep
    <3> HIDE DEF job
    <3> QED BY <1>1, <2>1, <2>3, <2>5, <3>2, <3>3
  <2> QED BY <2>1, <2>4, <2>5
<1>8. ASSUME updateWorkspace(p) PROVE Goal
  <2>1. /\ job.op = "reslug" /\ job.step = "plugin" /\ UNCHANGED Rest
        /\ members' = members /\ deletions' = deletions
        /\ \E answer \in Answers : planJob' = [planJob EXCEPT ![p] = Answered(job, answer)]
        /\ \/ wsSlug' = wsSlug
           \/ job.ws \in liveWorkspaces /\ wsSlug' = [wsSlug EXCEPT ![job.ws] = job.slug]
    BY <1>8 DEF updateWorkspace, Goes, Answers, pluginSlugConflict
  <2>2. Renamed(p)
    BY <2>1, Answering
  <2>3. job.slug \in Slugs
    BY <1>0, <2>1 DEF InputsFit
  <2>4. CASE wsSlug' = wsSlug
    BY <1>2, <2>1, <2>2, <2>4 DEF planRows
  <2>5. CASE job.ws \in liveWorkspaces /\ wsSlug' = [wsSlug EXCEPT ![job.ws] = job.slug]
    <3>1. /\ job.ws \in Workspaces /\ wsSlug[job.ws] # Absent
          /\ \A v \in Workspaces : wsSlug[v] # NoSlug => wsSlug'[v] # NoSlug
      BY <2>3, <2>5, PlansAssumption DEF RecordsInv, PlanShape, RowShape, liveWorkspaces
    <3>2. Jobs /\ \A v : logging(v)' = logging(v)
      BY <1>0, <2>1, <2>2, <3>1, QuietJobsKept
    <3>3. LogInv' /\ liveWorkspaces' = liveWorkspaces \cup {job.ws}
      BY <2>1, <2>3, <2>5, <3>1, <3>2, SlugStep
    <3> HIDE DEF job
    <3> QED BY <1>1, <2>1, <2>5, <3>2, <3>3
  <2> QED BY <2>1, <2>4, <2>5
<1>9. ASSUME BeginWorkspaceRemove(p) PROVE Goal
  <2>1. PICK w \in liveWorkspaces :
           /\ w = FirstWs => traffic \cap {"seats", "boards"} = {}
           /\ Admit(p, [IdleJob EXCEPT !.op = "remove", !.step = "delete", !.ws = w])
    BY <1>9 DEF BeginWorkspaceRemove
  <2> DEFINE new == [IdleJob EXCEPT !.op = "remove", !.step = "delete", !.ws = w]
  <2>2. w \in Workspaces /\ wsSlug[w] # NoSlug /\ ("seats" \in traffic => w # FirstWs)
    BY <2>1, PlansAssumption DEF liveWorkspaces
  <2>3. /\ planJob' = [planJob EXCEPT ![p] = new] /\ job.step # "log"
        /\ UNCHANGED <<traffic, planRows>>
    BY <2>1 DEF Admit
  <2>4. new \in Job
    BY <1>0, <2>2 DEF Job, Ops, Steps
  <2>5. JobNames(new) /\ new.step # "log"
    BY <1>0, <2>2 DEF JobNames, IdleJob
  <2> HIDE DEF new
  <2> QED BY <1>2, <1>3, <2>3, <2>4, <2>5
<1>10. ASSUME removeWorkspace(p) PROVE Goal
  <2> DEFINE new == IF job.ws \in liveWorkspaces THEN [job EXCEPT !.step = "log"]
                    ELSE Answered(job, "refused")
  <2>1. /\ wsSlug' = [wsSlug EXCEPT ![job.ws] = Absent]
        /\ members' = {m \in members : m[1] # job.ws}
        /\ UNCHANGED Rest /\ deletions' = deletions /\ job.op = "remove" /\ job.step = "delete"
        /\ planJob' = [planJob EXCEPT ![p] = new]
    BY <1>10 DEF removeWorkspace, Goes
  <2>2. /\ new \in Job /\ JobNames(new)
        /\ IF job.ws \in liveWorkspaces THEN new.step = "log" /\ new.ws = job.ws
                                        ELSE new.step # "log"
    <3>1. CASE job.ws \in liveWorkspaces
      <4> DEFINE on == [job EXCEPT !.step = "log"]
      <4>1. new = on
        BY <3>1
      <4> HIDE DEF job
      <4>2. on \in Job /\ JobNames(on) /\ on.step = "log" /\ on.ws = job.ws
        BY <1>0, <2>1 DEF Job, JobNames, Steps
      <4> HIDE DEF on, new
      <4> QED BY <3>1, <4>1, <4>2
    <3>2. CASE job.ws \notin liveWorkspaces
      <4>1. new = Answered(job, "refused") /\ "refused" \in Answers
        BY <3>2 DEF Answers
      <4> HIDE DEF new
      <4> QED BY <1>0, <2>1, <3>2, <4>1, AnswersFit, AnswersName
    <3> QED BY <3>1, <3>2
  <2> HIDE DEF new
  <2>3. /\ \A v \in Workspaces : wsSlug'[v] = IF v = job.ws THEN Absent ELSE wsSlug[v]
        /\ \A v \in Workspaces : wsSlug[v] # NoSlug => wsSlug'[v] # NoSlug
    BY <1>0, <2>1, PlansAssumption DEF PlanShape, RowShape
  <2>4. Jobs
    <3>1. traffic' = traffic /\ Len(boards') \in Nat /\ Len(boards) <= Len(boards')
      BY <1>0, <2>1
    <3> QED BY <2>1, <2>2, <2>3, <3>1, JobsKept
  <2>5. LogInv'
    BY <2>1, <2>2, RemovalStep
  <2>6. liveWorkspaces' = liveWorkspaces \ {job.ws}
    BY <2>3, PlansAssumption DEF liveWorkspaces
  <2>7. First
    BY <1>0, <1>1, <2>1, <2>6 DEF JobNames
  <2>8. Members
    BY <1>1, <2>1, <2>6
  <2> QED BY <1>1, <2>1, <2>4, <2>5, <2>7, <2>8
<1>11. ASSUME LogDeletion(p) PROVE Goal
  <2> DEFINE new == Answered(job, "ok")
  <2>1. /\ job.op = "remove" /\ job.step = "log" /\ deletions' = Append(deletions, job.ws)
        /\ planJob' = [planJob EXCEPT ![p] = new]
        /\ UNCHANGED Rest /\ wsSlug' = wsSlug /\ members' = members
    BY <1>11 DEF LogDeletion, Goes
  <2>2. "ok" \in Answers
    BY DEF Answers
  <2>3. new \in Job /\ JobNames(new) /\ new.step # "log"
    BY <1>0, <2>1, <2>2, AnswersFit, AnswersName
  <2> HIDE DEF new
  <2>4. Jobs
    <3>1. traffic' = traffic /\ Len(boards') \in Nat /\ Len(boards) <= Len(boards')
      BY <1>0, <2>1
    <3>2. \A v \in Workspaces : wsSlug[v] # NoSlug => wsSlug'[v] # NoSlug
      BY <2>1
    <3> QED BY <2>1, <2>3, <3>1, <3>2, JobsKept
  <2>5. Lines
    BY <2>1, <2>3, LineStep
  <2> QED BY <1>1, <2>1, <2>4, <2>5 DEF liveWorkspaces
<1>12. Goal
  BY <1>4, <1>5, <1>6, <1>7, <1>8, <1>9, <1>10, <1>11 DEF WorkspaceStep
<1>13. /\ BoardTrailIsCurrent' /\ boardTrail' \in Seq(Nat \X (Names \cup {Absent}))
       /\ InvitedAtAskedRole' /\ offered' \subseteq (DOMAIN invites') \X InvitableRoles
       /\ verified' \subseteq accounts'
  BY <1>12, OthersKept
<1>14. invites' # << >> => "seats" \in traffic'
  BY <1>12 DEF RecordsInv, FirstStays
<1> QED BY <1>12, <1>13, <1>14, Reassembled

(* A sign-up, a deletion of an account and the passing of time.            *)
LEMMA OtherRecords ==
    ASSUME RecordsInv, PlanShape',
           \/ \E p \in Procs : BeginSignUp(p) \/ signUp(p)
           \/ Expire \/ DeleteAccount
    PROVE  RecordsInv'
<1> DEFINE Rest == <<traffic, wsSlug, members, boards, boardTrail, deletions, offered>>
<1> DEFINE Jobs == \A q \in Procs : JobNames(planJob[q])'
<1> DEFINE Loggers == \A w : logging(w)' = logging(w)
<1> DEFINE Roles == /\ DOMAIN invites' = DOMAIN invites
                    /\ \A i \in DOMAIN invites : invites'[i].role = invites[i].role
<1> DEFINE Goal == UNCHANGED Rest /\ Jobs /\ Loggers /\ Roles /\ verified' \subseteq accounts'
<1>0. /\ PlanShape /\ Len(boards) \in Nat /\ 0 \in 0 .. Len(boards) /\ IdleJob \in Job
      /\ verified \subseteq accounts
  BY IdleJobFits DEF RecordsInv, RecordShape, PlanShape, RowShape
<1>1. ASSUME NEW p \in Procs, Renamed(p), UNCHANGED Rest PROVE Jobs /\ Loggers
  BY <1>0, <1>1, QuietJobsKept
<1>2. ASSUME UNCHANGED planJob, UNCHANGED Rest PROVE Jobs /\ Loggers
  <2>1. \A q \in Procs : JobNames(planJob[q])
    BY JobsName
  <2> QED BY <1>2, <2>1 DEF JobNames, logging
<1>3. ASSUME NEW p \in Procs, BeginSignUp(p) PROVE Goal
  <2>1. PICK u \in Users \ accounts :
           Admit(p, [IdleJob EXCEPT !.op = "signUp", !.step = "plugin", !.user = u,
                                    !.count = Cardinality(accounts)])
    BY <1>3 DEF BeginSignUp
  <2> DEFINE k == Cardinality(accounts)
  <2> DEFINE new == [IdleJob EXCEPT !.op = "signUp", !.step = "plugin", !.user = u, !.count = k]
  <2>2. k \in Nat
    BY <1>0, Counts
  <2>3. /\ planJob' = [planJob EXCEPT ![p] = new] /\ planJob[p].step # "log"
        /\ UNCHANGED <<traffic, planRows>>
    BY <2>1 DEF Admit
  <2> HIDE DEF k
  <2>4. new \in Job
    BY <1>0, <2>2 DEF Job, Ops, Steps
  <2>5. JobNames(new) /\ new.step # "log"
    BY <1>0 DEF JobNames, IdleJob
  <2> HIDE DEF new
  <2>6. Renamed(p)
    BY <2>3, <2>4, <2>5 DEF Renamed
  <2> QED BY <1>0, <1>1, <2>3, <2>6 DEF planRows
<1>4. ASSUME NEW p \in Procs, signUp(p) PROVE Goal
  <2>1. /\ planJob[p].op = "signUp" /\ planJob[p].step = "plugin"
        /\ \E answer \in {"plan", "ok"} :
              planJob' = [planJob EXCEPT ![p] = Answered(planJob[p], answer)]
        /\ accounts \subseteq accounts' /\ UNCHANGED Rest /\ UNCHANGED <<verified, invites>>
    BY <1>4 DEF signUp, Goes
  <2>2. Renamed(p)
    BY <2>1, Answering DEF Answers
  <2> QED BY <1>0, <1>1, <2>1, <2>2
<1>5. ASSUME Expire PROVE Goal
  <2>1. /\ \E i \in pendingInvitations : invites' = [invites EXCEPT ![i].stale = TRUE]
        /\ UNCHANGED Rest /\ UNCHANGED <<planJob, accounts, verified>>
    BY <1>5 DEF Expire
  <2>2. \A i \in DOMAIN invites : invites[i] \in Invitation
    BY <1>0 DEF PlanShape, RowShape
  <2>3. Roles
    BY <2>1, <2>2 DEF Invitation
  <2> QED BY <1>0, <1>2, <2>1, <2>3
<1>6. ASSUME DeleteAccount PROVE Goal
  <2>1. /\ \E u \in accounts : accounts' = accounts \ {u} /\ verified' = verified \ {u}
        /\ UNCHANGED Rest /\ UNCHANGED <<planJob, invites>>
    BY <1>6 DEF DeleteAccount
  <2> QED BY <1>0, <1>2, <2>1
<1>7. Goal
  BY <1>3, <1>4, <1>5, <1>6
<1>8. /\ BoardTrailIsCurrent' /\ boardTrail' \in Seq(Nat \X (Names \cup {Absent}))
      /\ LogInv' /\ deletions' \in Seq(Workspaces) /\ members' \subseteq liveWorkspaces' \X Users
  BY <1>7, OthersKept
<1>9. /\ offered \subseteq (DOMAIN invites) \X InvitableRoles
      /\ \A o \in offered : invites[o[1]].role = o[2]
  BY DEF RecordsInv, RecordShape, InvitedAtAskedRole
<1>10. InvitedAtAskedRole' /\ offered' \subseteq (DOMAIN invites') \X InvitableRoles
  BY <1>7, <1>9 DEF InvitedAtAskedRole
<1>11. "seats" \in traffic' => FirstWs \in liveWorkspaces'
  BY <1>7 DEF RecordsInv, FirstStays, liveWorkspaces
<1>12. invites' # << >> => "seats" \in traffic'
  BY <1>0, <1>7, Counts DEF RecordsInv, FirstStays, PlanShape, RowShape
<1> QED BY <1>7, <1>8, <1>10, <1>11, <1>12, Reassembled

(* Nothing is recorded at first.                                           *)
LEMMA InitRecords == PlansInit => RecordsInv
<1> SUFFICES ASSUME PlansInit PROVE RecordsInv
  OBVIOUS
<1>1. PlanShape /\ boards = << >> /\ invites = << >> /\ deletions = << >> /\ boardTrail = << >>
      /\ offered = {} /\ planJob = [p \in Procs |-> IdleJob] /\ members = {<<FirstWs, Owner>>}
  BY InitShape DEF PlansInit
<1>2. FirstWs \in liveWorkspaces /\ \A w \in Workspaces : wsSlug[w] # Absent
  <2> DEFINE slug == CHOOSE s \in Slugs : TRUE
  <2>1. slug \in Slugs
    BY PlansAssumption
  <2>2. wsSlug = [w \in Workspaces |-> IF w = FirstWs THEN slug ELSE NoSlug]
    BY DEF PlansInit
  <2> HIDE DEF slug
  <2> QED BY <2>1, <2>2, PlansAssumption DEF liveWorkspaces
<1>3. verified \subseteq accounts
  BY PlansAssumption DEF PlansInit
<1>4. \A q \in Procs : JobNames(planJob[q]) /\ planJob[q].step # "log"
  BY <1>1, <1>2 DEF JobNames, IdleJob
<1>5. RecordShape
  BY <1>1, <1>2, <1>3, <1>4, PlansAssumption DEF RecordShape, JobNames
<1>6. FirstStays
  BY <1>1, <1>2, <1>4 DEF FirstStays, JobNames
<1>7. LogInv
  BY <1>1, <1>2, <1>4 DEF LogInv, logLines, logging
<1>8. InvitedAtAskedRole /\ BoardTrailIsCurrent /\ SlugRaceIsConflict
  BY <1>1, <1>4 DEF InvitedAtAskedRole, BoardTrailIsCurrent, SlugRaceIsConflict, JobNames
<1> QED BY <1>1, <1>5, <1>6, <1>7, <1>8 DEF RecordsInv

(* What a request is answered and what the trail and the log say is what    *)
(* it did: an invitation that was answered 201 has the role that was asked  *)
(* for, the last audit row of a board names it as it is, a workspace that   *)
(* went has one line, and a slug that was taken in between is a conflict.   *)
THEOREM RecordsStand == PlansSpec => []PlansRecorded
<1>1. PlansInit => RecordsInv
  BY InitRecords
<1>2. RecordsInv /\ [PlansNext]_planVars => RecordsInv'
  <2> SUFFICES ASSUME RecordsInv, [PlansNext]_planVars PROVE RecordsInv'
    OBVIOUS
  <2>1. PlanShape'
    BY NextShape DEF RecordsInv
  <2>2. CASE UNCHANGED planVars
    <3>1. UNCHANGED <<traffic, accounts, verified, wsSlug, members, invites, boards, boardTrail,
                      deletions, offered, planJob>>
      BY <2>2 DEF planVars, planRows
    <3>2. \A q \in Procs : JobNames(planJob[q])
      BY JobsName
    <3>3. (\A q \in Procs : JobNames(planJob[q])') /\ \A w : logging(w)' = logging(w)
      BY <3>1, <3>2 DEF JobNames, logging
    <3>4. /\ BoardTrailIsCurrent' /\ boardTrail' \in Seq(Nat \X (Names \cup {Absent}))
          /\ LogInv' /\ deletions' \in Seq(Workspaces) /\ verified' \subseteq accounts'
          /\ InvitedAtAskedRole' /\ offered' \subseteq (DOMAIN invites') \X InvitableRoles
          /\ members' \subseteq liveWorkspaces' \X Users
      BY <2>1, <3>1, <3>3, OthersKept
    <3>5. /\ invites' # << >> => "seats" \in traffic'
          /\ "seats" \in traffic' => FirstWs \in liveWorkspaces'
      BY <3>1 DEF RecordsInv, FirstStays, liveWorkspaces
    <3> QED BY <2>1, <3>3, <3>4, <3>5, Reassembled
  <2>3. CASE PlansNext
    BY <2>1, <2>3, InvitationRecords, BoardRecords, WorkspaceRecords, OtherRecords
       DEF PlansNext, PlanStep
  <2> QED BY <2>2, <2>3
<1>3. RecordsInv => PlansRecorded
  <2> SUFFICES ASSUME RecordsInv PROVE PlansRecorded
    OBVIOUS
  <2>1. PlanTypeOK
    <3>1. invites \in Seq(Invitation) /\ boards \in Seq(Names \cup {Absent})
      BY DEF RecordsInv, PlanShape, RowShape
    <3> QED BY <3>1 DEF RecordsInv, PlanShape, RowShape, RecordShape, PlanTypeOK
  <2>2. DeletionLoggedOnce
    <3>1. ASSUME NEW w \in Workspaces
          PROVE  Cardinality(logLines(w)) = IF wsSlug[w] = Absent /\ logging(w) = {} THEN 1 ELSE 0
      <4>1. CASE logLines(w) = {} /\ ~(wsSlug[w] = Absent /\ logging(w) = {})
        BY <4>1, FS_EmptySet
      <4>2. CASE wsSlug[w] = Absent /\ logging(w) = {} /\ \E i \in DOMAIN deletions : logLines(w) = {i}
        BY <4>2, FS_Singleton
      <4> QED BY <4>1, <4>2 DEF RecordsInv, LogInv
    <3> QED BY <3>1 DEF DeletionLoggedOnce
  <2> QED BY <2>1, <2>2 DEF RecordsInv, PlansRecorded
<1> QED BY <1>1, <1>2, <1>3, PTL DEF PlansSpec
=============================================================================
