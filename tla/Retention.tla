----------------------------- MODULE Retention ------------------------------
(***************************************************************************)
(* The nightly purge (retention/cleanup.worker.ts): one job, six tables in *)
(* a fixed order, each deleted in batches up to a ceiling.  A batch is one *)
(* DELETE whose subselect reads a snapshot: between the snapshot and the   *)
(* row's removal others still write.  BullMQ runs the job once a day,      *)
(* retries a failed run, and gives a stalled job to another replica while  *)
(* the first may still be at work.  The sweep of files that ends a run is  *)
(* AttachmentStore's.                                                      *)
(***************************************************************************)
EXTENDS Naturals, Sequences, FiniteSets

CONSTANTS PurgeRows,               \* row -> [table, created, expires]
          Loads,              \* the sets of rows a database may hold
          KeepSettings,            \* the retention settings an operator may have
          Replicas,
          CLEANUP_BATCH_SIZE, MAX_BATCHES_PER_TABLE, JOB_ATTEMPTS,
          MaxDay, MaxFaults

Never == MaxDay + 10
PurgeTables == <<"Session", "Verification", "Notification", "Activity", "UsagePing", "Invitation">>
NoTable == Len(PurgeTables) + 1

ASSUME RetentionAssumption ==
    /\ PurgeRows \in [DOMAIN PurgeRows ->
                        [table : {PurgeTables[t] : t \in DOMAIN PurgeTables},
                         created : Nat, expires : Nat]]
    /\ IsFiniteSet(DOMAIN PurgeRows)
    /\ Loads \subseteq SUBSET DOMAIN PurgeRows
    /\ KeepSettings \subseteq [notification : Nat, activity : Nat, invitation : Nat]
    /\ MaxDay \in Nat \ {0} /\ MaxFaults \in Nat
    /\ {CLEANUP_BATCH_SIZE, MAX_BATCHES_PER_TABLE, JOB_ATTEMPTS} \subseteq Nat \ {0}

VARIABLES keep,  \* notificationDays, activityDays, invitationDays; 0 keeps for ever
          day,
          alive,    \* the rows in the database
          readOn,     \* notification -> the day it was read
          answered,   \* invitation -> its status
          expires,  \* row -> the day it expires
          queue,    \* the jobs waiting, as attempts made
          runs,     \* replica -> what it is doing
          faults    \* statements failed, workers lost

purgeVars == <<keep, day, alive, readOn, answered, expires, queue, runs, faults>>

IdleRun == [at |-> 0, now |-> 0, pass |-> 1, picked |-> {}, sent |-> FALSE,
         made |-> 0, owns |-> FALSE, owed |-> {}, capped |-> FALSE, lapped |-> FALSE]

PurgeWith(settings, load) ==
    /\ keep = settings /\ day = 1 /\ alive = load
    /\ readOn = [r \in DOMAIN PurgeRows |-> Never]
    /\ answered = [r \in DOMAIN PurgeRows |-> "pending"]
    /\ expires = [r \in DOMAIN PurgeRows |-> PurgeRows[r].expires]
    /\ queue = << >> /\ runs = [w \in Replicas |-> IdleRun] /\ faults = 0
PurgeInit == \E settings \in KeepSettings, load \in Loads : PurgeWith(settings, load)
-----------------------------------------------------------------------------
(* A window of 0 days turns the table's purge off.                         *)
KeptForever(t) == CASE t = "Notification" -> keep.notification = 0
                    [] t \in {"Activity", "UsagePing"} -> keep.activity = 0
                    [] t = "Invitation" -> keep.invitation = 0
                    [] OTHER -> FALSE

(* cutoffFor: days before the day the run began; x is before the cutoff.   *)
Before(x, now, days) == x + days < now

(* Faulty variant: an invitation goes by its age alone.                    *)
MatchesByAge(r, now) ==
    CASE PurgeRows[r].table = "Notification" -> Before(readOn[r], now, keep.notification)
      [] PurgeRows[r].table \in {"Activity", "UsagePing"} -> Before(PurgeRows[r].created, now, keep.activity)
      [] PurgeRows[r].table = "Invitation" -> Before(PurgeRows[r].created, now, keep.invitation)
      [] OTHER -> expires[r] < now

(* The WHERE clause of the row's table.                                    *)
Matches(r, now) ==
    CASE PurgeRows[r].table = "Notification" -> Before(readOn[r], now, keep.notification)
      [] PurgeRows[r].table \in {"Activity", "UsagePing"} -> Before(PurgeRows[r].created, now, keep.activity)
      [] PurgeRows[r].table = "Invitation" -> /\ Before(PurgeRows[r].created, now, keep.invitation)
                                              /\ answered[r] # "pending" \/ expires[r] < now
      [] OTHER -> expires[r] < now

Due(now) == {r \in alive : ~KeptForever(PurgeRows[r].table) /\ Matches(r, now)}
Running(w) == runs[w].at # 0

(* The first table from t on whose purge is on.                            *)
From(t) == CHOOSE n \in t .. NoTable : /\ n = NoTable \/ ~KeptForever(PurgeTables[n])
                                    /\ \A m \in t .. n - 1 : KeptForever(PurgeTables[m])

(* runCleanup takes the time once.                                         *)
runCleanup(w) ==
    /\ ~Running(w) /\ queue # << >>
    /\ queue' = Tail(queue)
    /\ runs' = [v \in Replicas |->
                  IF v = w THEN [IdleRun EXCEPT !.at = From(1), !.now = day, !.made = Head(queue),
                                                !.owns = TRUE, !.owed = Due(day),
                                                !.lapped = \E u \in Replicas : Running(u)]
                  ELSE [runs[v] EXCEPT !.lapped = Running(v)]]
    /\ UNCHANGED <<keep, day, alive, readOn, answered, expires, faults>>

(* deleteInBatches: a short batch or the ceiling ends the table.           *)
deleteInBatches(run, deleted) ==
    LET short == deleted < CLEANUP_BATCH_SIZE
        last == run.pass = MAX_BATCHES_PER_TABLE
        told == [run EXCEPT !.picked = {}, !.sent = FALSE, !.capped = @ \/ (~short /\ last)]
    IN IF short \/ last THEN [told EXCEPT !.pass = 1, !.at = From(run.at + 1)]
       ELSE [told EXCEPT !.pass = @ + 1]

(* A statement takes its snapshot: up to a batch of the matching rows, and *)
(* is over when there are none.                                            *)
SubselectBatch(w) ==
    /\ runs[w].at \in DOMAIN PurgeTables /\ ~runs[w].sent
    /\ LET matching == {r \in alive : PurgeRows[r].table = PurgeTables[runs[w].at] /\ Matches(r, runs[w].now)}
           full == IF Cardinality(matching) < CLEANUP_BATCH_SIZE THEN Cardinality(matching)
                   ELSE CLEANUP_BATCH_SIZE
       IN \/ matching = {} /\ runs' = [runs EXCEPT ![w] = deleteInBatches(@, 0)]
          \/ \E picked \in SUBSET matching :
                /\ Cardinality(picked) = full /\ full > 0
                /\ runs' = [runs EXCEPT ![w].picked = picked, ![w].sent = TRUE]
    /\ UNCHANGED <<keep, day, alive, readOn, answered, expires, queue, faults>>

(* The statement removes the rows it picked that are still there; the row  *)
(* is not matched again against the whole clause.                          *)
DeleteBatch(w) ==
    /\ runs[w].sent
    /\ alive' = alive \ runs[w].picked
    /\ runs' = [runs EXCEPT ![w] = deleteInBatches(@, Cardinality(runs[w].picked \cap alive))]
    /\ UNCHANGED <<keep, day, readOn, answered, expires, queue, faults>>

(* The line of counts is written and the job is over.                      *)
Finish(w) ==
    /\ runs[w].at = NoTable
    /\ runs' = [runs EXCEPT ![w] = IdleRun]
    /\ UNCHANGED <<keep, day, alive, readOn, answered, expires, queue, faults>>

(* A statement fails: what was deleted stays deleted, the job is retried   *)
(* from the first table until its attempts are used up.                    *)
RunFails(w) ==
    /\ runs[w].at \in DOMAIN PurgeTables /\ faults < MaxFaults
    /\ faults' = faults + 1
    /\ runs' = [runs EXCEPT ![w] = IdleRun]
    /\ queue' = IF runs[w].owns /\ runs[w].made + 1 < JOB_ATTEMPTS
                THEN Append(queue, runs[w].made + 1) ELSE queue
    /\ UNCHANGED <<keep, day, alive, readOn, answered, expires>>

(* BullMQ: a worker whose lock ran out loses the job, which waits again;   *)
(* the worker is dead, or does not know.                                   *)
Stalled(w) ==
    /\ Running(w) /\ runs[w].owns /\ faults < MaxFaults
    /\ faults' = faults + 1
    /\ queue' = Append(queue, runs[w].made)
    /\ runs' \in {[runs EXCEPT ![w] = IdleRun], [runs EXCEPT ![w].owns = FALSE]}
    /\ UNCHANGED <<keep, day, alive, readOn, answered, expires>>

(* onModuleInit's scheduler: the next job once the last one is settled.    *)
Schedule ==
    /\ queue = << >> /\ \A w \in Replicas : ~runs[w].owns
    /\ queue' = <<0>>
    /\ UNCHANGED <<keep, day, alive, readOn, answered, expires, runs, faults>>

NextDay ==
    /\ day < MaxDay /\ day' = day + 1
    /\ UNCHANGED <<keep, alive, readOn, answered, expires, queue, runs, faults>>

(* Requests meanwhile: a notification is read once; an invitation that is  *)
(* live is sent again with a new expiry, or answered or cancelled.         *)
MarkRead(r) ==
    /\ r \in alive /\ PurgeRows[r].table = "Notification" /\ readOn[r] = Never
    /\ readOn' = [readOn EXCEPT ![r] = day]
    /\ UNCHANGED <<keep, day, alive, answered, expires, queue, runs, faults>>
Invited(r) ==
    /\ r \in alive /\ PurgeRows[r].table = "Invitation" /\ answered[r] = "pending" /\ expires[r] >= day
    /\ \/ expires' = [expires EXCEPT ![r] = day + 1] /\ UNCHANGED answered
       \/ answered' = [answered EXCEPT ![r] = "settled"] /\ UNCHANGED expires
    /\ UNCHANGED <<keep, day, alive, readOn, queue, runs, faults>>

Purging(w) == runCleanup(w) \/ SubselectBatch(w) \/ DeleteBatch(w) \/ Finish(w)
PurgeNext ==
    \/ \E w \in Replicas : Purging(w) \/ RunFails(w) \/ Stalled(w)
    \/ Schedule \/ NextDay
    \/ \E r \in DOMAIN PurgeRows : MarkRead(r) \/ Invited(r)

PurgeSpec == PurgeInit /\ [][PurgeNext]_purgeVars
-----------------------------------------------------------------------------
(* Rows, jobs and runs keep their types; a failed job never waits with its *)
(* attempts used up.                                                       *)
PurgeTypeOK ==
    /\ alive \subseteq DOMAIN PurgeRows /\ day \in 1 .. MaxDay /\ faults \in 0 .. MaxFaults
    /\ Len(queue) <= 2 /\ \A n \in DOMAIN queue : queue[n] \in 0 .. JOB_ATTEMPTS - 1
    /\ \A w \in Replicas :
          /\ runs[w].at \in 0 .. NoTable /\ runs[w].pass \in 1 .. MAX_BATCHES_PER_TABLE
          /\ Cardinality(runs[w].picked) <= CLEANUP_BATCH_SIZE
          /\ runs[w].sent => runs[w].at \in DOMAIN PurgeTables

(* What the policy lets go at this moment: read and old, written long ago, *)
(* expired; of the invitations only those nobody can accept any more.      *)
Finished(r) ==
    LET old(date, days) == days > 0 /\ date + days < day
    IN CASE PurgeRows[r].table = "Notification" -> old(readOn[r], keep.notification)
         [] PurgeRows[r].table \in {"Activity", "UsagePing"} -> old(PurgeRows[r].created, keep.activity)
         [] PurgeRows[r].table = "Invitation" -> /\ old(PurgeRows[r].created, keep.invitation)
                                                 /\ answered[r] = "settled" \/ expires[r] < day
         [] OTHER -> expires[r] < day

(* Whatever others write while a statement, a retry or a second replica is *)
(* at work, a row that goes is one the policy lets go at that moment: no   *)
(* live invitation, no unread notification, nothing of a table kept for    *)
(* ever (cleanup.worker.ts: "deleting one would silently withdraw an       *)
(* invitation an admin was told had been sent").                           *)
PurgesOnlyFinished == [][\A r \in alive \ alive' : Finished(r)]_purgeVars

(* A run that ended below the ceiling, with no other at work, has removed  *)
(* everything that was due when it began.                                  *)
CleanWhenDone ==
    \A w \in Replicas :
        runs[w].at = NoTable /\ ~runs[w].capped /\ ~runs[w].lapped => runs[w].owed \cap alive = {}

(* What is due goes, in a later run when this one fails, is cut short by   *)
(* the ceiling or by another that takes its batch.                         *)
DueIsPurged == (\E r \in alive : Finished(r)) ~> (\A r \in alive : ~Finished(r))

-----------------------------------------------------------------------------
(* Why they hold: the inductive strengthening of the invariants above.     *)
Run == [at : 0 .. NoTable, now : 0 .. MaxDay, pass : 1 .. MAX_BATCHES_PER_TABLE,
        picked : SUBSET DOMAIN PurgeRows, sent : BOOLEAN, made : 0 .. JOB_ATTEMPTS - 1,
        owns : BOOLEAN, owed : SUBSET DOMAIN PurgeRows, capped : BOOLEAN, lapped : BOOLEAN]

PurgeShape ==
    /\ keep \in [notification : Nat, activity : Nat, invitation : Nat]
    /\ day \in 1 .. MaxDay /\ alive \subseteq DOMAIN PurgeRows /\ faults \in 0 .. MaxFaults
    /\ readOn \in [DOMAIN PurgeRows -> Nat] /\ expires \in [DOMAIN PurgeRows -> Nat]
    /\ answered \in [DOMAIN PurgeRows -> {"pending", "settled"}]
    /\ runs \in [Replicas -> Run]

(* The job is in one place: it waits, or one replica has it.               *)
OneJob ==
    /\ queue = << >> \/ \E n \in 0 .. JOB_ATTEMPTS - 1 : queue = <<n>>
    /\ \A w \in Replicas : runs[w].owns =>
          queue = << >> /\ \A v \in Replicas \ {w} : ~runs[v].owns

(* A run works on a table whose purge is on, with a cutoff that has come.  *)
AtItsTable(w) ==
    /\ runs[w].now <= day
    /\ runs[w].at \in DOMAIN PurgeTables => ~KeptForever(PurgeTables[runs[w].at])

(* What a statement picked matched then, and matches for good.             *)
PickedMatch(w) ==
    runs[w].sent =>
        /\ runs[w].at \in DOMAIN PurgeTables
        /\ Cardinality(runs[w].picked) <= CLEANUP_BATCH_SIZE
        /\ \A r \in runs[w].picked : PurgeRows[r].table = PurgeTables[runs[w].at]
                                     /\ Matches(r, runs[w].now)

Ahead(r, t) == \E n \in t .. Len(PurgeTables) : PurgeTables[n] = PurgeRows[r].table

(* A run alone at work, below the ceiling, has left no row behind it, and  *)
(* a batch of it that is not full leaves none of its table.                *)
RunsClean(w) ==
    Running(w) /\ ~runs[w].lapped =>
        /\ \A v \in Replicas \ {w} : ~Running(v)
        /\ \A r \in runs[w].owed : Matches(r, runs[w].now) /\ ~KeptForever(PurgeRows[r].table)
        /\ ~runs[w].capped => \A r \in runs[w].owed \cap alive : Ahead(r, runs[w].at)
        /\ runs[w].sent =>
              /\ runs[w].picked \subseteq alive
              /\ Cardinality(runs[w].picked) < CLEANUP_BATCH_SIZE =>
                    \A r \in runs[w].owed \cap alive :
                        PurgeRows[r].table = PurgeTables[runs[w].at] => r \in runs[w].picked

PurgeInv ==
    /\ PurgeShape /\ OneJob
    /\ \A w \in Replicas :
          /\ runs[w].picked # {} => runs[w].sent
          /\ AtItsTable(w) /\ PickedMatch(w) /\ RunsClean(w)
=============================================================================
