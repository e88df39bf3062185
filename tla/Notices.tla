------------------------------ MODULE Notices ------------------------------
(***************************************************************************)
(* Notification rows, the signals that say an unread count moved, and the  *)
(* mails that go with the rows: notification.service.ts, due-soon.worker,  *)
(* notification-mailer.ts, and the writers comment.service.ts and          *)
(* task-assignee.service.ts.                                               *)
(*                                                                         *)
(* Rows commit first; the signal and the mails follow outside the          *)
(* transaction.  A due-soon scan may die at any await and is tried again;  *)
(* two scans may overlap.                                                  *)
(***************************************************************************)
EXTENDS RequestPool, Sequences

CONSTANTS Users,         \* members of the workspace
          Tasks,         \* tasks, scanned in the order of this subset of Nat
          SCAN_BATCH_SIZE,
          JOB_ATTEMPTS,
          MaxCrashes,    \* bound: scans that die
          MaxClock,      \* bound: due dates that move and reminders that age
          ToldTasks,     \* bound: the tasks that assignments and comments touch
          Assigned,      \* the assignments a behaviour of scans starts with
          Kinds          \* the requests a behaviour may exercise

ASSUME NoticesAssumption == /\ Tasks \subseteq Nat \ {0} /\ IsFiniteSet(Tasks)
                            /\ IsFiniteSet(Users) /\ ToldTasks \subseteq Tasks
                            /\ SCAN_BATCH_SIZE \in Nat \ {0}
                            /\ JOB_ATTEMPTS \in Nat \ {0}
                            /\ Assigned \subseteq Tasks \X Users

VARIABLES kinds,      \* the requests this behaviour exercises
          assigned,   \* TaskAssignee rows <<task, user>>
          due,        \* tasks with a due date; each lies in the scan's window
          notices,    \* Notification rows, oldest first
          mailed,     \* due-soon mails handed to the relay: a count per <<task, user>>
          lapped,     \* history: pairs inserted under another scan that had read them absent
          signals,    \* users with an unread-changed signal under way
          unsaid,     \* users whose unread rows moved since their last signal
          noticeJob,  \* the request each process serves
          crashes, ticks, noticeRequests

noticeRows == <<assigned, due, notices, mailed, lapped, signals, unsaid>>
noticeBounds == <<kinds, crashes, ticks, noticeRequests>>
noticeVars == <<noticeRows, noticeBounds, noticeJob>>

Pairs == Tasks \X Users
Notice == [type : {"assignment", "mention", "due_soon"}, task : Tasks, user : Users,
           read : BOOLEAN, recent : BOOLEAN]

NoticeJobs == [op : {"none", "assign", "comment", "read", "readAll", "scan"},
               step : {"idle", "commit", "page", "skip", "insert", "emit", "mail"},
               actor : Users \cup {0}, users : SUBSET Users, task : Tasks \cup {0}, row : Nat,
               cursor : Nat, size : Nat, skip : SUBSET Pairs, recipients : SUBSET Users,
               mails : Seq(Pairs), attempt : Nat]
FreeJob == [op |-> "none", step |-> "idle", actor |-> 0, users |-> {}, task |-> 0, row |-> 0,
            cursor |-> 0, size |-> 0, skip |-> {}, recipients |-> {}, mails |-> << >>, attempt |-> 0]

NoticesInit ==
    /\ kinds \in Kinds
    /\ assigned = IF "scan" \in kinds THEN Assigned ELSE {}
    /\ due = IF "scan" \in kinds THEN Tasks ELSE {}
    /\ notices = << >>
    /\ mailed = [x \in Pairs |-> 0] /\ lapped = {}
    /\ signals = {}
    /\ unsaid = {}
    /\ noticeJob = [p \in Procs |-> FreeJob]
    /\ crashes = 0 /\ ticks = 0 /\ noticeRequests = 0

-----------------------------------------------------------------------------
UnreadOf(u) == {i \in DOMAIN notices : notices[i].user = u /\ ~notices[i].read}

NewNotice(type, t, u) ==
    [type |-> type, task |-> t, user |-> u, read |-> FALSE, recent |-> TRUE]

InSomeOrder(S) == CHOOSE s \in [1 .. Cardinality(S) -> S] : \A x \in S : \E i \in DOMAIN s : s[i] = x

(* createMentionBatch, create: one row for each recipient, in any order.   *)
Inserted(rows) == notices \o InSomeOrder(rows)

AdmitNotice(p, job) ==
    /\ noticeJob[p].step = "idle"
    /\ noticeRequests < MaxRequests
    /\ noticeRequests' = noticeRequests + 1
    /\ noticeJob' = [noticeJob EXCEPT ![p] = job]
    /\ UNCHANGED <<noticeRows, kinds, crashes, ticks>>

StepNotice(p, job) ==
    /\ noticeJob' = [noticeJob EXCEPT ![p] = job]
    /\ UNCHANGED noticeBounds

-----------------------------------------------------------------------------
(* Assignments and comments.                                               *)

(* addAssignee and CommentService.create: the task and the memberships are *)
(* read; parseMentions drops the author.                                   *)
BeginTell(p, actor) ==
    \E op \in {"assign", "comment"} \cap kinds, t \in ToldTasks, us \in SUBSET Users :
        /\ us # {}
        /\ op = "assign" => Cardinality(us) = 1
        /\ op = "comment" => actor \notin us
        /\ AdmitNotice(p, [FreeJob EXCEPT !.op = op, !.step = "commit", !.actor = actor,
                                          !.users = us, !.task = t])

(* A second assignment is a unique violation, a 409.                       *)
AlreadyAssigned(job) == job.op = "assign" /\ \E u \in job.users : <<job.task, u>> \in assigned

(* Only a stored row is worth a signal, and the actor gets none.           *)
Told(job) == job.users \ {job.actor}

(* One transaction: the assignee or the comment, and a row for everyone    *)
(* but the actor.                                                          *)
CommitTell(p) ==
    LET job == noticeJob[p]
        told == Told(job)
        type == IF job.op = "assign" THEN "assignment" ELSE "mention"
    IN /\ job.op \in {"assign", "comment"} /\ job.step = "commit"
       /\ IF AlreadyAssigned(job) THEN UNCHANGED noticeRows /\ StepNotice(p, FreeJob)
          ELSE /\ notices' = Inserted({NewNotice(type, job.task, u) : u \in told})
               /\ assigned' = IF job.op = "assign" THEN assigned \cup ({job.task} \X job.users)
                              ELSE assigned
               /\ unsaid' = unsaid \cup told
               /\ StepNotice(p, IF told = {} THEN FreeJob
                                ELSE [job EXCEPT !.step = "emit", !.recipients = told])
               /\ UNCHANGED <<due, mailed, lapped, signals>>

removeAssignee(p) ==
    /\ "assign" \in kinds
    /\ noticeJob[p].step = "idle" /\ noticeRequests < MaxRequests
    /\ \E x \in assigned : assigned' = assigned \ {x}
    /\ noticeRequests' = noticeRequests + 1
    /\ UNCHANGED <<kinds, due, notices, mailed, lapped, signals, unsaid, noticeJob, crashes, ticks>>

-----------------------------------------------------------------------------
(* Reading.                                                                *)

(* markRead commits; the signal follows only when the row was unread.      *)
markRead(p, u, i) ==
    /\ notices[i].user = u
    /\ noticeJob[p].step = "idle" /\ noticeRequests < MaxRequests
    /\ noticeRequests' = noticeRequests + 1
    /\ IF notices[i].read THEN UNCHANGED <<notices, unsaid, noticeJob>>
       ELSE /\ notices' = [notices EXCEPT ![i].read = TRUE]
            /\ unsaid' = unsaid \cup {u}
            /\ noticeJob' = [noticeJob EXCEPT ![p] =
                  [FreeJob EXCEPT !.op = "read", !.step = "emit", !.row = i,
                                  !.actor = u, !.recipients = {u}]]
    /\ UNCHANGED <<kinds, assigned, due, mailed, lapped, signals, crashes, ticks>>

markAllRead(p, u) ==
    /\ noticeJob[p].step = "idle" /\ noticeRequests < MaxRequests
    /\ noticeRequests' = noticeRequests + 1
    /\ notices' = [i \in DOMAIN notices |->
                      [notices[i] EXCEPT !.read = @ \/ notices[i].user = u]]
    /\ IF UnreadOf(u) = {} THEN UNCHANGED <<unsaid, noticeJob>>
       ELSE /\ unsaid' = unsaid \cup {u}
            /\ noticeJob' = [noticeJob EXCEPT ![p] =
                  [FreeJob EXCEPT !.op = "readAll", !.step = "emit", !.actor = u,
                                  !.recipients = {u}]]
    /\ UNCHANGED <<kinds, assigned, due, mailed, lapped, signals, crashes, ticks>>

-----------------------------------------------------------------------------
(* The due-soon scan.                                                      *)

BeginScan(p) ==
    /\ "scan" \in kinds
    /\ AdmitNotice(p, [FreeJob EXCEPT !.op = "scan", !.step = "page"])

(* The next tasks of the window after the cursor that have an assignee.    *)
Batch(cursor) ==
    LET ahead == {t \in due : t > cursor /\ \E u \in Users : <<t, u>> \in assigned}
    IN {t \in ahead : Cardinality({x \in ahead : x < t}) < SCAN_BATCH_SIZE}

(* A page of tasks with their assignees; an empty page ends the walk.      *)
ScanPage(p) ==
    LET job == noticeJob[p]
        tasks == Batch(job.cursor)
    IN /\ job.op = "scan" /\ job.step = "page"
       /\ StepNotice(p,
            IF tasks = {} THEN [job EXCEPT !.step = "emit"]
            ELSE [job EXCEPT !.step = "skip",
                             !.skip = {x \in assigned : x[1] \in tasks},
                             !.cursor = CHOOSE t \in tasks : \A s \in tasks : s <= t,
                             !.size = Cardinality(tasks)])
       /\ UNCHANGED noticeRows

(* findAlreadyNotified: unread, or younger than the window.                *)
AlreadyNotified ==
    {<<notices[i].task, notices[i].user>> : i \in
        {j \in DOMAIN notices : /\ notices[j].type = "due_soon"
                                /\ ~notices[j].read \/ notices[j].recent}}

(* Faulty variant: a batch is inserted whole, the index left to sort it out. *)
ScanSkipNone(p) ==
    LET job == noticeJob[p] IN
    /\ job.op = "scan" /\ job.step = "skip"
    /\ StepNotice(p, [job EXCEPT !.step = "insert"])
    /\ UNCHANGED noticeRows

ScanSkip(p) ==
    LET job == noticeJob[p] IN
    /\ job.op = "scan" /\ job.step = "skip"
    /\ StepNotice(p, [job EXCEPT !.step = "insert", !.skip = @ \ AlreadyNotified])
    /\ UNCHANGED noticeRows

(* Notification_due_soon_unread_uidx.                                      *)
UnreadReminder(x) ==
    \E i \in DOMAIN notices : /\ notices[i].type = "due_soon" /\ ~notices[i].read
                              /\ notices[i].task = x[1] /\ notices[i].user = x[2]

(* createMany with skipDuplicates: rows the index refuses are dropped, and *)
(* unless all were, every pair of the batch is a recipient.                *)
notifyBatch(p) ==
    LET job == noticeJob[p]
        fresh == {x \in job.skip : ~UnreadReminder(x)}
        last == job.size < SCAN_BATCH_SIZE
    IN /\ job.op = "scan" /\ job.step = "insert"
       /\ notices' = Inserted({NewNotice("due_soon", x[1], x[2]) : x \in fresh})
       /\ unsaid' = unsaid \cup {x[2] : x \in fresh}
       /\ StepNotice(p, [job EXCEPT
             !.step = IF last THEN "emit" ELSE "page",
             !.skip = {},
             !.size = 0,
             !.recipients = IF fresh = {} THEN @ ELSE @ \cup {x[2] : x \in job.skip},
             !.mails = IF fresh = {} THEN @ ELSE @ \o InSomeOrder(job.skip)])
       /\ lapped' = lapped \cup {x \in fresh : \E q \in Procs \ {p} :
                                     noticeJob[q].step = "insert" /\ x \in noticeJob[q].skip}
       /\ UNCHANGED <<assigned, due, mailed, signals>>

(* emitUnreadChanged, after the commit: once for each recipient.  What is  *)
(* left is the mails: of a scan, one by one; the mail of an assignment or  *)
(* a mention is part of its own request and nothing here depends on it.    *)
emitUnreadChanged(p) ==
    LET job == noticeJob[p] IN
    /\ job.step = "emit"
    /\ signals' = signals \cup job.recipients
    /\ unsaid' = unsaid \ job.recipients
    /\ StepNotice(p, IF job.mails = << >> THEN FreeJob
                     ELSE [FreeJob EXCEPT !.op = "scan", !.step = "mail", !.mails = job.mails,
                                          !.attempt = job.attempt])
    /\ UNCHANGED <<assigned, due, notices, mailed, lapped>>

(* sendForCreated: a reminder whose due date is gone is not sent; a relay  *)
(* that refuses is logged and the next item is tried.                      *)
sendForCreated(p) ==
    LET job == noticeJob[p]
        item == Head(job.mails)
    IN /\ job.step = "mail"
       /\ mailed' \in {[mailed EXCEPT ![item] = @ + IF item[1] \in due THEN 1 ELSE 0], mailed}
       /\ StepNotice(p, IF Len(job.mails) = 1 THEN FreeJob ELSE [job EXCEPT !.mails = Tail(@)])
       /\ UNCHANGED <<assigned, due, notices, lapped, signals, unsaid>>

(* The scan dies: BullMQ runs the job again from its start, or gives up.   *)
CrashScan(p) ==
    LET job == noticeJob[p] IN
    /\ job.op = "scan" /\ crashes < MaxCrashes
    /\ crashes' = crashes + 1
    /\ noticeJob' = [noticeJob EXCEPT ![p] =
          IF job.attempt + 1 < JOB_ATTEMPTS
          THEN [FreeJob EXCEPT !.op = "scan", !.step = "page", !.attempt = job.attempt + 1]
          ELSE FreeJob]
    /\ UNCHANGED <<noticeRows, kinds, ticks, noticeRequests>>

(* A day passes for one reminder, or a due date is set or cleared.         *)
Clock ==
    /\ "scan" \in kinds /\ ticks < MaxClock
    /\ ticks' = ticks + 1
    /\ \/ \E i \in DOMAIN notices : /\ notices[i].recent
                                    /\ notices' = [notices EXCEPT ![i].recent = FALSE]
                                    /\ UNCHANGED due
       \/ \E t \in Tasks : /\ due' = (due \ {t}) \cup ({t} \ due)
                           /\ UNCHANGED notices
    /\ UNCHANGED <<kinds, assigned, mailed, lapped, signals, unsaid, noticeJob, crashes, noticeRequests>>

(* What the server does on its own, whoever asked.                         *)
NoticeStep(p) ==
    \/ \E u \in Users : BeginTell(p, u)
    \/ CommitTell(p) \/ removeAssignee(p)
    \/ BeginScan(p) \/ ScanPage(p) \/ ScanSkip(p) \/ notifyBatch(p)
    \/ emitUnreadChanged(p) \/ sendForCreated(p) \/ CrashScan(p)
    \/ "scan" \in kinds /\ \E i \in DOMAIN notices : markRead(p, notices[i].user, i)
-----------------------------------------------------------------------------
(* Every variable keeps its type, and a job names rows that exist.         *)
NoticeTypeOK ==
    /\ assigned \subseteq Pairs /\ due \subseteq Tasks
    /\ notices \in Seq(Notice)
    /\ mailed \in [Pairs -> Nat]
    /\ signals \subseteq Users /\ unsaid \subseteq Users /\ lapped \subseteq Pairs
    /\ noticeJob \in [Procs -> NoticeJobs]
    /\ crashes \in Nat /\ noticeRequests \in Nat
    /\ \A p \in Procs : /\ noticeJob[p].row \in 0 .. Len(notices)
                        /\ noticeJob[p].step = "idle" => noticeJob[p] = FreeJob

(* A person has at most one unread reminder of a task, however many scans  *)
(* overlap, die and start again.                                           *)
OneUnreadReminder ==
    \A i, j \in DOMAIN notices :
        (/\ notices[i].type = "due_soon" /\ notices[j].type = "due_soon"
         /\ ~notices[i].read /\ ~notices[j].read
         /\ notices[i].task = notices[j].task /\ notices[i].user = notices[j].user)
            => i = j

(* When no request is in flight and no scan died, everyone whose unread    *)
(* rows moved has been signalled after the move committed.                 *)
QuietUsersAreTold ==
    (crashes = 0 /\ \A p \in Procs : noticeJob[p].step = "idle") => unsaid = {}

(* A pair's reminders, and the scans that have one of them left to mail.   *)
RemindersOf(x) == {i \in DOMAIN notices : /\ notices[i].type = "due_soon"
                                          /\ notices[i].task = x[1] /\ notices[i].user = x[2]}
Mailing(x) == {p \in Procs : \E i \in DOMAIN noticeJob[p].mails : noticeJob[p].mails[i] = x}

(* One email per row (notification-mailer.ts): no pair is mailed more      *)
(* reminders than it has rows, whether a scan died and was tried again, a  *)
(* relay refused or a reminder was read, unless another scan inserted the  *)
(* pair between this one's look-up and its insert (then notifyBatch mails  *)
(* the whole batch, the rows the index dropped included).                  *)
OneMailPerRow == \A x \in Pairs \ lapped : mailed[x] <= Cardinality(RemindersOf(x))

(* A request has what it needs.  A scan mails each pair once, in the order *)
(* of the tasks, and what it is about to insert has no unread reminder,    *)
(* unless another scan was faster.                                         *)
JobStands(p) ==
    LET job == noticeJob[p] IN
    /\ job.step = "commit" => job.task \in Tasks
    /\ job.step = "mail" => job.mails # << >>
    /\ job.step \in {"commit", "mail"} => job.recipients = {}
    /\ \A i, j \in DOMAIN job.mails : job.mails[i] = job.mails[j] => i = j
    /\ job.step = "page" => \A i \in DOMAIN job.mails : job.mails[i][1] <= job.cursor
    /\ job.step \in {"skip", "insert"} =>
          /\ \A i \in DOMAIN job.mails : job.mails[i][1] <= job.cursor
          /\ \A x \in job.skip : /\ x[1] <= job.cursor
                                /\ \A i \in DOMAIN job.mails : job.mails[i][1] < x[1]
    /\ job.step = "insert" => \A x \in job.skip \ lapped : ~ UnreadReminder(x)

MailsAreOwed ==
    \A x \in Pairs \ lapped :
        mailed[x] + Cardinality(Mailing(x)) <= Cardinality(RemindersOf(x))

UnsaidIsOwed ==
    crashes = 0 => \A u \in unsaid : \E p \in Procs :
                      noticeJob[p].step # "idle" /\ u \in noticeJob[p].recipients

NoticeInv == /\ NoticeTypeOK /\ OneUnreadReminder /\ MailsAreOwed /\ UnsaidIsOwed
             /\ \A p \in Procs : JobStands(p)

(* A reminder is made once, mailed at most once, and everyone it is for is   *)
(* signalled.                                                              *)
NoticesSound == NoticeTypeOK /\ OneUnreadReminder /\ OneMailPerRow /\ QuietUsersAreTold
=============================================================================
