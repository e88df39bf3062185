---------------------------- MODULE Notices_proofs ----------------------------
(***************************************************************************)
(* Reminders, mails, signals and the badge for any number of members,      *)
(* tasks, scans and retries: one unread reminder of a task per person, no  *)
(* more mails than rows, everyone signalled, and a settled badge is right. *)
(***************************************************************************)
EXTENDS UnreadBadge, FiniteSetTheorems, SequenceTheorems, WellFoundedInduction, TLAPS

(* Members and tasks are finitely many, and so are pairs of them.          *)
LEMMA PairsFinite == /\ IsFiniteSet(Pairs) /\ IsFiniteSet(Users) /\ IsFiniteSet(Tasks)
                     /\ \A S \in SUBSET Pairs : IsFiniteSet(S)
                     /\ \A S \in SUBSET Users : IsFiniteSet(S)
<1>1. IsFiniteSet(Pairs)
  BY NoticesAssumption, FS_Product DEF Pairs
<1> QED BY <1>1, NoticesAssumption, FS_Subset

(* A function has finitely many values on a finite set.                    *)
LEMMA ValuesFinite ==
    ASSUME NEW S, IsFiniteSet(S), NEW f, DOMAIN f = S, f = [x \in S |-> f[x]],
           NEW T, T = {f[x] : x \in S}
    PROVE  IsFiniteSet(T)
<1>1. f \in [S -> T] /\ \A t \in T : \E x \in S : f[x] = t
  OBVIOUS
<1>2. f \in Surjection(S, T)
  BY <1>1 DEF Surjection
<1> QED BY <1>2, FS_Surjection

(* A function on the first numbers is a sequence.                          *)
LEMMA FunctionIsSeq ==
    ASSUME NEW S, NEW n \in Nat, NEW f \in [1 .. n -> S]
    PROVE  f \in Seq(S)
OBVIOUS

(* A finite set put in some order has each of its members once.            *)
LEMMA SomeOrder ==
    ASSUME NEW S, IsFiniteSet(S)
    PROVE  /\ InSomeOrder(S) \in Seq(S)
           /\ \A x \in S : \E i \in DOMAIN InSomeOrder(S) : InSomeOrder(S)[i] = x
           /\ \A i, j \in DOMAIN InSomeOrder(S) :
                 InSomeOrder(S)[i] = InSomeOrder(S)[j] => i = j
<1> DEFINE n == Cardinality(S)
           s == InSomeOrder(S)
<1>1. n \in Nat /\ ExistsBijection(1 .. n, S)
  BY FS_CardinalityType
<1>2. \E f \in [1 .. n -> S] : \A x \in S : \E i \in DOMAIN f : f[i] = x
  <2>1. PICK f \in Bijection(1 .. n, S) : TRUE
    BY <1>1 DEF ExistsBijection
  <2>2. f \in [1 .. n -> S] /\ \A x \in S : \E i \in 1 .. n : f[i] = x
    BY <2>1 DEF Bijection, Surjection, Injection
  <2> QED BY <2>2
<1>3. s \in [1 .. n -> S] /\ \A x \in S : \E i \in DOMAIN s : s[i] = x
  <2> DEFINE OntoS(f) == \A x \in S : \E i \in DOMAIN f : f[i] = x
  <2>1. \E f \in [1 .. n -> S] : OntoS(f)
    BY <1>2
  <2>2. s = CHOOSE f \in [1 .. n -> S] : OntoS(f)
    BY DEF InSomeOrder
  <2> HIDE DEF OntoS, s, n
  <2>3. s \in [1 .. n -> S] /\ OntoS(s)
    BY <2>1, <2>2
  <2> QED BY <2>3 DEF OntoS
<1> HIDE DEF s
<1>4. s \in Surjection(1 .. n, S)
  BY <1>3 DEF Surjection
<1>5. s \in Injection(1 .. n, S)
  <2>1. IsFiniteSet(1 .. n) /\ Cardinality(1 .. n) = Cardinality(S)
    BY <1>1, FS_Interval
  <2> QED BY <1>4, <2>1, FS_SurjSameCardinalityImpliesInj
<1>6. s \in Seq(S)
  <2> HIDE DEF n
  <2> QED BY <1>1, <1>3, FunctionIsSeq
<1>7. \A i, j \in DOMAIN s : s[i] = s[j] => i = j
  BY <1>3, <1>5 DEF Injection, IsInjective
<1> QED BY <1>3, <1>6, <1>7 DEF s

(* The sequence t is s with the members of S behind it, once each.         *)
Extends(t, s, S) ==
    /\ DOMAIN s \subseteq DOMAIN t /\ Len(s) <= Len(t)
    /\ \A i \in DOMAIN s : t[i] = s[i]
    /\ \A i \in DOMAIN t \ DOMAIN s : t[i] \in S
    /\ \A x \in S : \E i \in DOMAIN t \ DOMAIN s : t[i] = x
    /\ \A i, j \in DOMAIN t \ DOMAIN s : t[i] = t[j] => i = j

(* A sequence with the members of a finite set behind it.                  *)
LEMMA Extended ==
    ASSUME NEW T, NEW s \in Seq(T), NEW S \in SUBSET T, IsFiniteSet(S)
    PROVE  /\ s \o InSomeOrder(S) \in Seq(T)
           /\ Extends(s \o InSomeOrder(S), s, S)
<1> DEFINE o == InSomeOrder(S)
           t == s \o o
<1>1. /\ o \in Seq(S) /\ \A x \in S : \E i \in DOMAIN o : o[i] = x
      /\ \A i, j \in DOMAIN o : o[i] = o[j] => i = j
  BY SomeOrder
<1> HIDE DEF o
<1>2. o \in Seq(T)
  BY <1>1, SeqMonotonic
<1> DEFINE m == Len(s)
           k == Len(o)
<1>4. /\ m \in Nat /\ k \in Nat /\ DOMAIN s = 1 .. m /\ DOMAIN o = 1 .. k
      /\ \A i \in 1 .. k : o[i] \in S
  BY <1>1, LenProperties, ElementOfSeq
<1>5. /\ t \in Seq(T) /\ Len(t) = m + k
      /\ \A i \in 1 .. m + k : t[i] = IF i <= m THEN s[i] ELSE o[i - m]
  BY <1>2, ConcatProperties
<1> HIDE DEF t
<1>6. DOMAIN t = 1 .. m + k
  BY <1>5, LenProperties
<1> HIDE DEF m, k
<1>7. DOMAIN s \subseteq DOMAIN t /\ m <= m + k /\ \A i \in DOMAIN s : t[i] = s[i]
  BY <1>4, <1>5, <1>6
<1>8. \A i \in DOMAIN t \ DOMAIN s : i - m \in 1 .. k /\ t[i] = o[i - m]
  BY <1>4, <1>5, <1>6
<1>9. \A j \in 1 .. k : m + j \in DOMAIN t \ DOMAIN s /\ t[m + j] = o[j]
  BY <1>4, <1>5, <1>6
<1>10. \A i, j \in DOMAIN t \ DOMAIN s : t[i] = t[j] => i = j
  <2> SUFFICES ASSUME NEW i \in DOMAIN t \ DOMAIN s, NEW j \in DOMAIN t \ DOMAIN s, t[i] = t[j]
               PROVE  i = j
    OBVIOUS
  <2>1. o[i - m] = o[j - m] /\ i - m \in DOMAIN o /\ j - m \in DOMAIN o
    BY <1>4, <1>8
  <2>2. i - m = j - m
    BY <1>1, <2>1
  <2>3. i \in Int /\ j \in Int /\ m \in Int
    BY <1>4, <1>6
  <2> QED BY <2>2, <2>3
<1>11. \A x \in S : \E i \in DOMAIN t \ DOMAIN s : t[i] = x
  <2> SUFFICES ASSUME NEW x \in S PROVE \E i \in DOMAIN t \ DOMAIN s : t[i] = x
    OBVIOUS
  <2>1. PICK j \in 1 .. k : o[j] = x
    BY <1>1, <1>4
  <2>2. m + j \in DOMAIN t \ DOMAIN s /\ t[m + j] = x
    BY <1>9, <2>1
  <2> QED BY <2>2
<1>12. \A i \in DOMAIN t \ DOMAIN s : t[i] \in S
  BY <1>4, <1>8
<1>13. t \in Seq(T) /\ Extends(t, s, S)
  BY <1>5, <1>7, <1>10, <1>11, <1>12 DEF m, Extends
<1> QED BY <1>13 DEF t, o

(* Without its first item, a list of mails has the others, in order.       *)
LEMMA Shortened ==
    ASSUME NEW T, NEW s \in Seq(T), s # << >>,
           \A i, j \in DOMAIN s : s[i] = s[j] => i = j
    PROVE  /\ Head(s) \in T /\ Tail(s) \in Seq(T)
           /\ \A i \in DOMAIN Tail(s) : i + 1 \in DOMAIN s /\ Tail(s)[i] = s[i + 1]
           /\ \A i \in DOMAIN Tail(s) : Tail(s)[i] # Head(s)
           /\ \A i, j \in DOMAIN Tail(s) : Tail(s)[i] = Tail(s)[j] => i = j
           /\ Len(s) = 1 => Tail(s) = << >>
           /\ Len(s) # 1 => Tail(s) # << >>
           /\ 1 \in DOMAIN s /\ s[1] = Head(s)
<1> DEFINE t == Tail(s)
<1>1. Head(s) \in T /\ t \in Seq(T) /\ Len(t) = Len(s) - 1
      /\ \A i \in 1 .. Len(t) : t[i] = s[i + 1]
  BY HeadTailProperties
<1>2. DOMAIN s = 1 .. Len(s) /\ Len(s) \in Nat \ {0} /\ DOMAIN t = 1 .. Len(t)
  BY <1>1, LenProperties, EmptySeq
<1>3. Head(s) = s[1]
  BY <1>2
<1> HIDE DEF t
<1>4. \A i \in DOMAIN t : i + 1 \in DOMAIN s /\ t[i] = s[i + 1] /\ i + 1 # 1 /\ i \in Int
  BY <1>1, <1>2
<1>5. 1 \in DOMAIN s
  BY <1>2
<1>6. \A i \in DOMAIN t : t[i] # Head(s)
  BY <1>3, <1>4, <1>5
<1>7. ASSUME NEW i \in DOMAIN t, NEW j \in DOMAIN t, t[i] = t[j] PROVE i = j
  <2>1. i + 1 = j + 1 /\ i \in Int /\ j \in Int
    BY <1>4, <1>7
  <2> QED BY <2>1
<1>8. (Len(s) = 1 => t = << >>) /\ (Len(s) # 1 => t # << >>)
  BY <1>1, <1>2, EmptySeq
<1> QED BY <1>1, <1>3, <1>4, <1>5, <1>6, <1>7, <1>8 DEF t

-----------------------------------------------------------------------------
(* A request at rest.                                                      *)
LEMMA FreeJobIs ==
    /\ FreeJob \in NoticeJobs /\ FreeJob.step = "idle" /\ FreeJob.mails = << >>
    /\ DOMAIN FreeJob.mails = {} /\ FreeJob.skip = {} /\ FreeJob.recipients = {}
    /\ FreeJob.row = 0 /\ FreeJob.cursor = 0
<1>1. << >> \in Seq(Pairs) /\ DOMAIN << >> = {}
  BY EmptySeq
<1> QED BY <1>1 DEF FreeJob, NoticeJobs

(* What the types say of one request.                                      *)
LEMMA JobFields ==
    ASSUME NoticeTypeOK, NEW p \in Procs
    PROVE  /\ noticeJob[p] \in NoticeJobs /\ noticeJob[p].mails \in Seq(Pairs)
           /\ noticeJob[p].skip \subseteq Pairs /\ noticeJob[p].recipients \subseteq Users
           /\ noticeJob[p].users \subseteq Users /\ noticeJob[p].cursor \in Nat
           /\ noticeJob[p].task \in Tasks \cup {0} /\ noticeJob[p].row \in 0 .. Len(notices)
BY DEF NoticeTypeOK, NoticeJobs

(* A new row is a row.                                                     *)
LEMMA NewNoticeIs ==
    ASSUME NEW type \in {"assignment", "mention", "due_soon"}, NEW t \in Tasks, NEW u \in Users
    PROVE  /\ NewNotice(type, t, u) \in Notice
           /\ NewNotice(type, t, u).type = type /\ NewNotice(type, t, u).task = t
           /\ NewNotice(type, t, u).user = u /\ ~ NewNotice(type, t, u).read
BY DEF NewNotice, Notice

(* Rows are only ever marked read, or grow old; none is added or moved.    *)
OnlyMarked ==
    /\ notices' \in Seq(Notice) /\ DOMAIN notices' = DOMAIN notices
    /\ Len(notices') = Len(notices)
    /\ \A i \in DOMAIN notices :
          /\ notices'[i].type = notices[i].type /\ notices'[i].task = notices[i].task
          /\ notices'[i].user = notices[i].user
          /\ notices[i].read => notices'[i].read

(* Those whose rows moved still have somebody who will tell them.          *)
LEMMA OwesOn ==
    ASSUME NoticeInv, NEW p \in Procs, NEW job,
           noticeJob' = [noticeJob EXCEPT ![p] = job],
           crashes' = 0 => crashes = 0,
           \A u \in unsaid' : u \in noticeJob[p].recipients \/ u \notin unsaid =>
              job.step # "idle" /\ u \in job.recipients
    PROVE  UnsaidIsOwed'
<1> SUFFICES ASSUME crashes = 0, NEW u \in unsaid'
             PROVE  \E q \in Procs : noticeJob'[q].step # "idle" /\ u \in noticeJob'[q].recipients
  BY DEF UnsaidIsOwed
<1>1. noticeJob'[p] = job /\ \A q \in Procs \ {p} : noticeJob'[q] = noticeJob[q]
  BY DEF NoticeInv, NoticeTypeOK
<1>2. CASE u \in noticeJob[p].recipients \/ u \notin unsaid
  BY <1>1, <1>2
<1>3. CASE u \notin noticeJob[p].recipients /\ u \in unsaid
  <2>1. PICK q \in Procs : noticeJob[q].step # "idle" /\ u \in noticeJob[q].recipients
    BY <1>3 DEF NoticeInv, UnsaidIsOwed
  <2> QED BY <1>1, <1>3, <2>1
<1> QED BY <1>2, <1>3

(* Rows may come, but no reminder does.                                    *)
RemindersStand ==
    /\ notices' \in Seq(Notice) /\ Len(notices) <= Len(notices')
    /\ OneUnreadReminder'
    /\ \A x : UnreadReminder(x)' => UnreadReminder(x)
    /\ \A x : RemindersOf(x) \subseteq RemindersOf(x)'

(* A row's reminders are finitely many.                                    *)
LEMMA RemindersFinite ==
    ASSUME notices \in Seq(Notice), NEW x
    PROVE  IsFiniteSet(RemindersOf(x)) /\ Cardinality(RemindersOf(x)) \in Nat
<1>1. DOMAIN notices = 1 .. Len(notices) /\ Len(notices) \in Nat
  BY LenProperties
<1>2. IsFiniteSet(1 .. Len(notices))
  BY <1>1, FS_Interval
<1> QED BY <1>1, <1>2, FS_Subset, FS_CardinalityType DEF RemindersOf

(* Rows that are only marked keep the reminders.                           *)
LEMMA MarkedStand ==
    ASSUME NoticeInv, OnlyMarked
    PROVE  RemindersStand
<1>1. notices' \in Seq(Notice) /\ Len(notices) <= Len(notices')
  BY LenProperties DEF NoticeInv, NoticeTypeOK, OnlyMarked
<1>2. OneUnreadReminder'
  BY DEF NoticeInv, OneUnreadReminder, OnlyMarked
<1>3. \A x : UnreadReminder(x)' => UnreadReminder(x)
  BY DEF UnreadReminder, OnlyMarked
<1>4. \A x : RemindersOf(x) \subseteq RemindersOf(x)'
  BY DEF RemindersOf, OnlyMarked
<1> QED BY <1>1, <1>2, <1>3, <1>4 DEF RemindersStand

(* A step that adds no reminder and mails nothing.                         *)
LEMMA StandingKept ==
    ASSUME NoticeInv, NEW p \in Procs, NEW job \in NoticeJobs,
           noticeJob' = [noticeJob EXCEPT ![p] = job],
           RemindersStand, UNCHANGED <<mailed, lapped>>,
           assigned' \subseteq Pairs, due' \subseteq Tasks,
           signals' \subseteq Users, unsaid' \subseteq Users,
           crashes' \in Nat, noticeRequests' \in Nat,
           job.row \in 0 .. Len(notices), job.step = "idle" => job = FreeJob,
           JobStands(p)', UnsaidIsOwed',
           \A i \in DOMAIN job.mails : \E j \in DOMAIN noticeJob[p].mails :
              noticeJob[p].mails[j] = job.mails[i]
    PROVE  NoticeInv'
<1>1. /\ noticeJob' \in [Procs -> NoticeJobs] /\ noticeJob'[p] = job
      /\ \A q \in Procs \ {p} : noticeJob'[q] = noticeJob[q]
  BY DEF NoticeInv, NoticeTypeOK
<1>2. NoticeTypeOK'
  <2>1. Len(notices) \in Nat /\ Len(notices') \in Nat
    BY LenProperties DEF NoticeInv, NoticeTypeOK, RemindersStand
  <2> QED BY <1>1, <2>1 DEF NoticeInv, NoticeTypeOK, RemindersStand
<1>3. OneUnreadReminder'
  BY DEF RemindersStand
<1>4. \A x : UnreadReminder(x)' => UnreadReminder(x)
  BY DEF RemindersStand
<1>5. ASSUME NEW q \in Procs PROVE JobStands(q)'
  <2>1. CASE q # p
    BY <1>1, <1>4, <2>1 DEF NoticeInv, JobStands
  <2> QED BY <2>1
<1>6. MailsAreOwed'
  <2> SUFFICES ASSUME NEW x \in Pairs \ lapped
               PROVE  mailed[x] + Cardinality(Mailing(x)') <= Cardinality(RemindersOf(x)')
    BY DEF MailsAreOwed
  <2>1. /\ Cardinality(RemindersOf(x)) <= Cardinality(RemindersOf(x)')
        /\ Cardinality(RemindersOf(x)) \in Nat /\ Cardinality(RemindersOf(x)') \in Nat
    <3>1. IsFiniteSet(RemindersOf(x)')
      <4>1. DOMAIN notices' = 1 .. Len(notices') /\ Len(notices') \in Nat
        BY LenProperties DEF RemindersStand
      <4>2. IsFiniteSet(1 .. Len(notices'))
        BY <4>1, FS_Interval
      <4> QED BY <4>1, <4>2, FS_Subset DEF RemindersOf
    <3>2. RemindersOf(x) \subseteq RemindersOf(x)'
      BY DEF RemindersStand
    <3> QED BY <3>1, <3>2, FS_Subset, FS_CardinalityType
  <2>2. Mailing(x)' \subseteq Mailing(x)
    BY <1>1 DEF Mailing
  <2>3. IsFiniteSet(Mailing(x)) /\ Cardinality(Mailing(x)) \in Nat
        /\ Cardinality(Mailing(x)') \in Nat
    BY <2>2, PoolAssumption, FS_Subset, FS_CardinalityType DEF Mailing
  <2>4. Cardinality(Mailing(x)') <= Cardinality(Mailing(x))
    BY <2>2, <2>3, FS_Subset
  <2>5. mailed[x] + Cardinality(Mailing(x)) <= Cardinality(RemindersOf(x)) /\ mailed[x] \in Nat
    BY DEF NoticeInv, NoticeTypeOK, MailsAreOwed
  <2> QED BY <2>1, <2>3, <2>4, <2>5
<1> QED BY <1>2, <1>3, <1>5, <1>6 DEF NoticeInv

(* A step that only marks rows and mails nothing.                          *)
LEMMA RowsKept ==
    ASSUME NoticeInv, NEW p \in Procs, NEW job \in NoticeJobs,
           noticeJob' = [noticeJob EXCEPT ![p] = job],
           OnlyMarked, UNCHANGED <<mailed, lapped>>,
           assigned' \subseteq Pairs, due' \subseteq Tasks,
           signals' \subseteq Users, unsaid' \subseteq Users,
           crashes' \in Nat, noticeRequests' \in Nat,
           job.row \in 0 .. Len(notices), job.step = "idle" => job = FreeJob,
           JobStands(p)', UnsaidIsOwed',
           \A i \in DOMAIN job.mails : \E j \in DOMAIN noticeJob[p].mails :
              noticeJob[p].mails[j] = job.mails[i]
    PROVE  NoticeInv'
BY MarkedStand, StandingKept

(* What is not written is only marked, in the sense above.                 *)
LEMMA UnmarkedIsMarked == NoticeTypeOK /\ notices' = notices => OnlyMarked
BY DEF NoticeTypeOK, OnlyMarked

(* A mark, of one row or of all of a person's.                             *)
LEMMA MarkingMarks ==
    ASSUME NoticeTypeOK
    PROVE  /\ \A i \in DOMAIN notices :
                 notices' = [notices EXCEPT ![i].read = TRUE] => OnlyMarked
           /\ \A i \in DOMAIN notices :
                 notices' = [notices EXCEPT ![i].recent = FALSE] => OnlyMarked
           /\ \A u : notices' = [i \in DOMAIN notices |->
                                   [notices[i] EXCEPT !.read = @ \/ notices[i].user = u]] => OnlyMarked
<1> DEFINE n == Len(notices)
<1>1. n \in Nat /\ notices \in [1 .. n -> Notice] /\ DOMAIN notices = 1 .. n
  BY LenProperties DEF NoticeTypeOK
<1> HIDE DEF n
<1>2. ASSUME NEW f, f \in [1 .. n -> Notice], notices' = f,
             \A i \in 1 .. n : /\ f[i].type = notices[i].type /\ f[i].task = notices[i].task
                               /\ f[i].user = notices[i].user /\ (notices[i].read => f[i].read)
      PROVE  OnlyMarked
  <2>1. f \in Seq(Notice) /\ DOMAIN f = 1 .. n
    BY <1>1, <1>2, FunctionIsSeq
  <2>2. Len(f) = n
    BY <1>1, <2>1, LenProperties
  <2> QED BY <1>1, <1>2, <2>1, <2>2 DEF OnlyMarked, n
<1>3. ASSUME NEW i \in 1 .. n, notices' = [notices EXCEPT ![i].read = TRUE] PROVE OnlyMarked
  <2> DEFINE f == [notices EXCEPT ![i].read = TRUE]
  <2>1. f \in [1 .. n -> Notice]
        /\ \A j \in 1 .. n : /\ f[j].type = notices[j].type /\ f[j].task = notices[j].task
                             /\ f[j].user = notices[j].user /\ (notices[j].read => f[j].read)
    BY <1>1 DEF Notice
  <2> QED BY <1>2, <1>3, <2>1
<1>4. ASSUME NEW i \in 1 .. n, notices' = [notices EXCEPT ![i].recent = FALSE] PROVE OnlyMarked
  <2> DEFINE f == [notices EXCEPT ![i].recent = FALSE]
  <2>1. f \in [1 .. n -> Notice]
        /\ \A j \in 1 .. n : /\ f[j].type = notices[j].type /\ f[j].task = notices[j].task
                             /\ f[j].user = notices[j].user /\ (notices[j].read => f[j].read)
    BY <1>1 DEF Notice
  <2> QED BY <1>2, <1>4, <2>1
<1>5. ASSUME NEW u, notices' = [i \in DOMAIN notices |->
                                  [notices[i] EXCEPT !.read = @ \/ notices[i].user = u]]
      PROVE  OnlyMarked
  <2> DEFINE f == [i \in DOMAIN notices |-> [notices[i] EXCEPT !.read = @ \/ notices[i].user = u]]
  <2>1. f \in [1 .. n -> Notice]
        /\ \A j \in 1 .. n : /\ f[j].type = notices[j].type /\ f[j].task = notices[j].task
                             /\ f[j].user = notices[j].user /\ (notices[j].read => f[j].read)
    BY <1>1 DEF Notice
  <2> QED BY <1>2, <1>5, <2>1
<1> QED BY <1>1, <1>3, <1>4, <1>5

(* A step that leaves the requests and the rows alone.                     *)
LEMMA JobsKept ==
    ASSUME NoticeInv, OnlyMarked, UNCHANGED <<noticeJob, mailed, lapped, unsaid>>,
           assigned' \subseteq Pairs, due' \subseteq Tasks, signals' \subseteq Users,
           crashes' = crashes, noticeRequests' \in Nat
    PROVE  NoticeInv'
<1>1. PICK p \in Procs : TRUE
  BY PoolAssumption
<1> DEFINE job == noticeJob[p]
<1>2. /\ job \in NoticeJobs /\ noticeJob' = [noticeJob EXCEPT ![p] = job]
      /\ job.row \in 0 .. Len(notices) /\ (job.step = "idle" => job = FreeJob)
      /\ crashes' \in Nat /\ unsaid' \subseteq Users
  BY DEF NoticeInv, NoticeTypeOK
<1>3. \A x : UnreadReminder(x)' => UnreadReminder(x)
  BY DEF UnreadReminder, OnlyMarked
<1>4. JobStands(p)'
  BY <1>3 DEF NoticeInv, JobStands
<1>5. UnsaidIsOwed'
  BY DEF NoticeInv, UnsaidIsOwed
<1> QED BY <1>2, <1>4, <1>5, RowsKept

(* A request is admitted, with nothing to mail or to tell yet.             *)
LEMMA AdmitKeeps ==
    ASSUME NoticeInv, NEW p \in Procs, NEW job \in NoticeJobs, AdmitNotice(p, job),
           job.row = 0, job.mails = << >>, job.skip = {}, job.step \in {"commit", "page"},
           job.recipients = {}, job.step = "commit" => job.task \in Tasks
    PROVE  NoticeInv'
<1>1. /\ noticeJob' = [noticeJob EXCEPT ![p] = job] /\ noticeJob[p].step = "idle"
      /\ noticeRequests' = noticeRequests + 1
      /\ UNCHANGED <<assigned, due, notices, mailed, lapped, signals, unsaid, crashes>>
  BY DEF AdmitNotice, noticeRows
<1>2. noticeJob[p].recipients = {}
  BY <1>1, FreeJobIs DEF NoticeInv, NoticeTypeOK
<1>3. UnsaidIsOwed'
  BY <1>1, <1>2, OwesOn
<1>4. noticeJob'[p] = job
  BY <1>1 DEF NoticeInv, NoticeTypeOK
<1>5. DOMAIN job.mails = {}
  BY EmptySeq
<1>6. JobStands(p)'
  BY <1>4, <1>5 DEF JobStands
<1>7. OnlyMarked /\ job.row \in 0 .. Len(notices)
  BY <1>1, UnmarkedIsMarked, LenProperties DEF NoticeInv, NoticeTypeOK
<1>8. assigned' \subseteq Pairs /\ due' \subseteq Tasks /\ signals' \subseteq Users
      /\ unsaid' \subseteq Users /\ crashes' \in Nat /\ noticeRequests' \in Nat
  BY <1>1 DEF NoticeInv, NoticeTypeOK
<1> QED BY <1>1, <1>3, <1>5, <1>6, <1>7, <1>8, RowsKept

(* Assignments, comments and scans are admitted.                           *)
LEMMA BeginsKeep ==
    ASSUME NoticeInv, NEW p \in Procs, BeginScan(p) \/ \E u \in Users : BeginTell(p, u)
    PROVE  NoticeInv'
<1>1. CASE BeginScan(p)
  <2> DEFINE job == [FreeJob EXCEPT !.op = "scan", !.step = "page"]
  <2>1. job \in NoticeJobs /\ job.row = 0 /\ job.mails = << >> /\ job.skip = {} /\ job.step = "page"
        /\ job.recipients = {}
    BY FreeJobIs DEF NoticeJobs
  <2>2. AdmitNotice(p, job)
    BY <1>1 DEF BeginScan
  <2> HIDE DEF job
  <2> QED BY <2>1, <2>2, AdmitKeeps
<1>2. CASE \E u \in Users : BeginTell(p, u)
  <2>1. PICK actor \in Users, op \in {"assign", "comment"}, t \in ToldTasks, us \in SUBSET Users :
           AdmitNotice(p, [FreeJob EXCEPT !.op = op, !.step = "commit", !.actor = actor,
                                          !.users = us, !.task = t])
    BY <1>2 DEF BeginTell
  <2> DEFINE job == [FreeJob EXCEPT !.op = op, !.step = "commit", !.actor = actor,
                                    !.users = us, !.task = t]
  <2>2. t \in Tasks
    BY NoticesAssumption
  <2>3. /\ job \in NoticeJobs /\ job.row = 0 /\ job.mails = << >> /\ job.skip = {}
        /\ job.step = "commit" /\ job.task \in Tasks /\ job.recipients = {}
    BY <2>2, FreeJobIs DEF NoticeJobs
  <2>4. AdmitNotice(p, job)
    BY <2>1
  <2> HIDE DEF job
  <2> QED BY <2>3, <2>4, AdmitKeeps
<1> QED BY <1>1, <1>2

(* A person's mark: of one row, or of all.                                 *)
LEMMA MarksKeep ==
    ASSUME NoticeInv, NEW p \in Procs, NEW u \in Users,
           markAllRead(p, u) \/ \E i \in DOMAIN notices : markRead(p, u, i)
    PROVE  NoticeInv'
<1> DEFINE Tells(job) == /\ job \in NoticeJobs /\ job.row \in 0 .. Len(notices)
                         /\ job.mails = << >> /\ job.step = "emit" /\ job.recipients = {u}
           Marked(job) == noticeJob' = [noticeJob EXCEPT ![p] = job] /\ unsaid' = unsaid \cup {u}
<1>1. /\ noticeJob[p].step = "idle" /\ noticeRequests' = noticeRequests + 1
      /\ UNCHANGED <<assigned, due, mailed, lapped, signals, crashes>>
  BY DEF markRead, markAllRead
<1>2. DOMAIN notices = 1 .. Len(notices) /\ Len(notices) \in Nat
  BY LenProperties DEF NoticeInv, NoticeTypeOK
<1>3. UNCHANGED <<unsaid, noticeJob>> \/ \E job \in NoticeJobs : Tells(job) /\ Marked(job)
  <2>1. CASE markAllRead(p, u)
    <3> DEFINE job == [FreeJob EXCEPT !.op = "readAll", !.step = "emit", !.actor = u,
                                      !.recipients = {u}]
    <3>1. /\ job \in NoticeJobs /\ job.row = 0 /\ job.mails = << >> /\ job.step = "emit"
          /\ job.recipients = {u}
      BY FreeJobIs DEF NoticeJobs
    <3>2. UNCHANGED <<unsaid, noticeJob>> \/ Marked(job)
      BY <2>1 DEF markAllRead
    <3> HIDE DEF job
    <3> QED BY <1>2, <3>1, <3>2
  <2>2. CASE \E i \in DOMAIN notices : markRead(p, u, i)
    <3>1. PICK i \in DOMAIN notices : markRead(p, u, i)
      BY <2>2
    <3> DEFINE job == [FreeJob EXCEPT !.op = "read", !.step = "emit", !.row = i,
                                      !.actor = u, !.recipients = {u}]
    <3>2. i \in Nat /\ i \in 0 .. Len(notices)
      BY <1>2
    <3>3. /\ job \in NoticeJobs /\ job.row = i /\ job.mails = << >> /\ job.step = "emit"
          /\ job.recipients = {u}
      BY <3>2, FreeJobIs DEF NoticeJobs
    <3>4. UNCHANGED <<unsaid, noticeJob>> \/ Marked(job)
      BY <3>1 DEF markRead
    <3> HIDE DEF job
    <3> QED BY <3>2, <3>3, <3>4
  <2> QED BY <2>1, <2>2
<1>4. OnlyMarked
  <2>1. CASE markAllRead(p, u)
    BY <2>1, MarkingMarks DEF markAllRead, NoticeInv
  <2>2. ASSUME NEW i \in DOMAIN notices, markRead(p, u, i) PROVE OnlyMarked
    BY <2>2, MarkingMarks, UnmarkedIsMarked DEF markRead, NoticeInv
  <2> QED BY <2>1, <2>2
<1>5. assigned' \subseteq Pairs /\ due' \subseteq Tasks /\ signals' \subseteq Users
      /\ crashes' \in Nat /\ noticeRequests' \in Nat
  BY <1>1 DEF NoticeInv, NoticeTypeOK
<1>6. CASE UNCHANGED <<unsaid, noticeJob>>
  BY <1>1, <1>4, <1>5, <1>6, JobsKept
<1>7. CASE \E job \in NoticeJobs : Tells(job) /\ Marked(job)
  <2>1. PICK job \in NoticeJobs : Tells(job) /\ Marked(job)
    BY <1>7
  <2>2. noticeJob[p].recipients = {} /\ noticeJob'[p] = job
    BY <1>1, <2>1, FreeJobIs DEF NoticeInv, NoticeTypeOK
  <2>3. UnsaidIsOwed'
    BY <1>1, <2>1, <2>2, OwesOn
  <2>4. DOMAIN job.mails = {}
    BY <2>1, EmptySeq
  <2>5. JobStands(p)'
    BY <2>1, <2>2, <2>4 DEF JobStands
  <2>6. unsaid' \subseteq Users
    BY <2>1 DEF NoticeInv, NoticeTypeOK
  <2> QED BY <1>1, <1>4, <1>5, <2>1, <2>3, <2>4, <2>5, <2>6, RowsKept
<1> QED BY <1>3, <1>6, <1>7

(* An assignment goes, a reminder ages, a due date is set or cleared.      *)
LEMMA WorldKeeps ==
    ASSUME NoticeInv, Clock \/ \E p \in Procs : removeAssignee(p)
    PROVE  NoticeInv'
<1>1. /\ UNCHANGED <<noticeJob, mailed, lapped, unsaid, signals, crashes>>
      /\ assigned' \subseteq assigned /\ noticeRequests' \in {noticeRequests, noticeRequests + 1}
  BY DEF Clock, removeAssignee
<1>2. due' \subseteq Tasks
  BY DEF Clock, removeAssignee, NoticeInv, NoticeTypeOK
<1>3. OnlyMarked
  <2>1. CASE Clock
    BY <2>1, MarkingMarks, UnmarkedIsMarked DEF Clock, NoticeInv
  <2>2. CASE \E p \in Procs : removeAssignee(p)
    BY <2>2, UnmarkedIsMarked DEF removeAssignee, NoticeInv
  <2> QED BY <2>1, <2>2
<1>4. assigned' \subseteq Pairs /\ signals' \subseteq Users /\ noticeRequests' \in Nat
  BY <1>1 DEF NoticeInv, NoticeTypeOK
<1> QED BY <1>1, <1>2, <1>3, <1>4, JobsKept

(* Finitely many tasks have a last one.                                    *)
LEMMA LastTask ==
    ASSUME NEW S \in SUBSET Tasks, S # {}
    PROVE  LET t == CHOOSE t \in S : \A s \in S : s <= t
           IN  t \in S /\ \A s \in S : s <= t
<1> DEFINE above(x) == {y \in S : y > x}
           Above == {above(x) : x \in S}
<1>1. \A x \in S : x \in Nat
  BY NoticesAssumption
<1>2. IsFiniteSet(S)
  BY NoticesAssumption, FS_Subset
<1>3. Above \subseteq FiniteSubsetsOf(S) /\ Above # {}
  <2>1. \A x \in S : above(x) \in FiniteSubsetsOf(S)
    BY <1>2, FS_FiniteSubsetsOfFinite
  <2> HIDE DEF above
  <2> QED BY <2>1
<1>4. PICK A \in Above : \A B \in Above : <<B, A>> \notin StrictSubsetOrdering(S)
  <2> HIDE DEF Above
  <2> QED BY <1>3, FS_StrictSubsetOrderingWellFounded, WFMin
<1>5. PICK m \in S : A = above(m)
  OBVIOUS
<1>6. ASSUME NEW x \in S, ~ (x <= m) PROVE FALSE
  <2>1. x \in Nat /\ m \in Nat /\ m < x
    BY <1>1, <1>6
  <2>2. \A y \in S : y > x => y > m
    <3> TAKE y \in S
    <3>1. y \in Nat
      BY <1>1
    <3> QED BY <2>1, <3>1
  <2>4. above(x) \subseteq above(m)
    BY <2>2
  <2>5. x \in above(m) /\ x \notin above(x)
    BY <2>1
  <2>3. <<above(x), above(m)>> \in StrictSubsetOrdering(S) /\ above(x) \in Above
    BY <2>4, <2>5 DEF StrictSubsetOrdering
  <2> HIDE DEF above, Above
  <2> QED BY <1>4, <1>5, <2>3
<1> QED BY <1>6

(* A scan reads a page of tasks past its cursor, or finds none.            *)
LEMMA ScanPageKeeps ==
    ASSUME NoticeInv, NEW p \in Procs, ScanPage(p)
    PROVE  NoticeInv'
<1> DEFINE old == noticeJob[p]
           tasks == Batch(old.cursor)
           job == IF tasks = {} THEN [old EXCEPT !.step = "emit"]
                  ELSE [old EXCEPT !.step = "skip",
                             !.skip = {x \in assigned : x[1] \in tasks},
                             !.cursor = CHOOSE t \in tasks : \A s \in tasks : s <= t,
                             !.size = Cardinality(tasks)]
<1>1. /\ old.step = "page" /\ noticeJob' = [noticeJob EXCEPT ![p] = job]
      /\ UNCHANGED <<assigned, due, notices, mailed, lapped, signals, unsaid, crashes, noticeRequests>>
  BY DEF ScanPage, StepNotice, noticeRows, noticeBounds
<1>2. /\ old \in NoticeJobs /\ old.cursor \in Nat /\ old.mails \in Seq(Pairs)
      /\ old.row \in 0 .. Len(notices) /\ JobStands(p) /\ assigned \subseteq Pairs
  BY JobFields DEF NoticeInv, NoticeTypeOK
<1>3. /\ tasks \subseteq Tasks /\ \A t \in tasks : t \in Nat /\ t > old.cursor
      /\ IsFiniteSet(tasks) /\ Cardinality(tasks) \in Nat
  <2>1. tasks \subseteq Tasks
    BY DEF Batch, NoticeInv, NoticeTypeOK
  <2>2. IsFiniteSet(tasks)
    BY <2>1, NoticesAssumption, FS_Subset
  <2> QED BY <2>1, <2>2, NoticesAssumption, FS_CardinalityType DEF Batch
<1> DEFINE last == CHOOSE t \in tasks : \A s \in tasks : s <= t
           picked == {x \in assigned : x[1] \in tasks}
           size == Cardinality(tasks)
<1>4. tasks # {} => last \in tasks /\ \A s \in tasks : s <= last
  <2> HIDE DEF tasks
  <2> QED BY <1>3, LastTask
<1>5. picked \subseteq Pairs /\ \A x \in picked : x[1] \in tasks
  BY <1>2
<1>6. size \in Nat
  BY <1>3
<1> HIDE DEF tasks, last, picked, size
<1>7. CASE tasks = {}
  <2>1. job = [old EXCEPT !.step = "emit"]
    BY <1>7
  <2>2. /\ job \in NoticeJobs /\ job.step = "emit" /\ job.mails = old.mails
        /\ job.row = old.row /\ job.recipients = old.recipients
    BY <1>2, <2>1 DEF NoticeJobs
  <2> HIDE DEF job
  <2>3. noticeJob'[p] = job
    BY <1>1 DEF NoticeInv, NoticeTypeOK
  <2>4. JobStands(p)'
    BY <1>2, <2>2, <2>3 DEF JobStands
  <2>5. UnsaidIsOwed'
    BY <1>1, <2>2, OwesOn
  <2>6. OnlyMarked
    BY <1>1, UnmarkedIsMarked DEF NoticeInv
  <2> QED BY <1>1, <1>2, <2>2, <2>4, <2>5, <2>6, RowsKept DEF NoticeInv, NoticeTypeOK
<1>8. CASE tasks # {}
  <2>1. job = [old EXCEPT !.step = "skip", !.skip = picked, !.cursor = last, !.size = size]
    BY <1>8 DEF picked, last, size
  <2>2. last \in Nat
    BY <1>3, <1>4, <1>8
  <2>3. /\ job \in NoticeJobs /\ job.step = "skip" /\ job.mails = old.mails
        /\ job.row = old.row /\ job.recipients = old.recipients
        /\ job.skip = picked /\ job.cursor = last
    <3> HIDE DEF old, job
    <3> QED BY <1>2, <1>5, <1>6, <2>1, <2>2 DEF NoticeJobs
  <2> HIDE DEF job
  <2>4. noticeJob'[p] = job
    BY <1>1 DEF NoticeInv, NoticeTypeOK
  <2>5. \A i \in DOMAIN old.mails : old.mails[i][1] \in Nat /\ old.mails[i][1] <= old.cursor
    <3>1. \A i \in DOMAIN old.mails : old.mails[i] \in Pairs
      BY <1>2, LenProperties, ElementOfSeq
    <3> QED BY <1>1, <1>2, <3>1, NoticesAssumption DEF JobStands, Pairs
  <2>6. \A x \in picked : x[1] \in Nat /\ x[1] <= last /\ x[1] > old.cursor
    BY <1>3, <1>4, <1>5, <1>8
  <2>7. last > old.cursor
    BY <1>3, <1>4, <1>8
  <2>8. /\ \A i \in DOMAIN old.mails : old.mails[i][1] <= last
        /\ \A x \in picked, i \in DOMAIN old.mails : old.mails[i][1] < x[1]
    BY <1>2, <2>2, <2>5, <2>6, <2>7
  <2>9. JobStands(p)'
    BY <1>2, <2>3, <2>4, <2>6, <2>8 DEF JobStands
  <2>10. UnsaidIsOwed'
    BY <1>1, <2>3, OwesOn, FreeJobIs
  <2>11. OnlyMarked
    BY <1>1, UnmarkedIsMarked DEF NoticeInv
  <2> QED BY <1>1, <1>2, <2>3, <2>9, <2>10, <2>11, RowsKept DEF NoticeInv, NoticeTypeOK
<1> QED BY <1>7, <1>8

(* What was already told is dropped from the page.                         *)
LEMMA ScanSkipKeeps ==
    ASSUME NoticeInv, NEW p \in Procs, ScanSkip(p)
    PROVE  NoticeInv'
<1> DEFINE old == noticeJob[p]
           job == [old EXCEPT !.step = "insert", !.skip = @ \ AlreadyNotified]
<1>1. /\ old.step = "skip" /\ noticeJob' = [noticeJob EXCEPT ![p] = job]
      /\ UNCHANGED <<assigned, due, notices, mailed, lapped, signals, unsaid, crashes, noticeRequests>>
  BY DEF ScanSkip, StepNotice, noticeRows, noticeBounds
<1>2. old \in NoticeJobs /\ JobStands(p) /\ old.row \in 0 .. Len(notices)
  BY JobFields DEF NoticeInv
<1>3. /\ job \in NoticeJobs /\ job.step = "insert" /\ job.mails = old.mails /\ job.row = old.row
      /\ job.recipients = old.recipients /\ job.cursor = old.cursor
      /\ job.skip = old.skip \ AlreadyNotified
  <2> HIDE DEF old
  <2> QED BY <1>2 DEF NoticeJobs
<1>4. old.skip \subseteq Pairs
  BY JobFields DEF NoticeInv
<1> HIDE DEF job
<1>5. noticeJob'[p] = job
  BY <1>1 DEF NoticeInv, NoticeTypeOK
<1>6. \A x \in old.skip \ AlreadyNotified : ~ UnreadReminder(x)'
  <2>1. ASSUME NEW x \in old.skip, UnreadReminder(x) PROVE x \in AlreadyNotified
    <3>1. x = <<x[1], x[2]>>
      BY <1>4, <2>1 DEF Pairs
    <3> QED BY <2>1, <3>1 DEF UnreadReminder, AlreadyNotified
  <2> QED BY <1>1, <2>1 DEF UnreadReminder
<1>7. JobStands(p)'
  BY <1>1, <1>2, <1>3, <1>5, <1>6 DEF JobStands
<1>8. UnsaidIsOwed'
  BY <1>1, <1>3, OwesOn
<1>9. OnlyMarked
  BY <1>1, UnmarkedIsMarked DEF NoticeInv
<1> QED BY <1>1, <1>2, <1>3, <1>7, <1>8, <1>9, RowsKept DEF NoticeInv, NoticeTypeOK

(* Everyone a request owes a signal gets it; a scan goes on to its mails.  *)
LEMMA EmitKeeps ==
    ASSUME NoticeInv, NEW p \in Procs, emitUnreadChanged(p)
    PROVE  NoticeInv'
<1> DEFINE old == noticeJob[p]
           send == [FreeJob EXCEPT !.op = "scan", !.step = "mail", !.mails = old.mails,
                                   !.attempt = old.attempt]
           job == IF old.mails = << >> THEN FreeJob ELSE send
<1>1. /\ old.step = "emit" /\ noticeJob' = [noticeJob EXCEPT ![p] = job]
      /\ signals' = signals \cup old.recipients /\ unsaid' = unsaid \ old.recipients
      /\ UNCHANGED <<assigned, due, notices, mailed, lapped, crashes, noticeRequests>>
  BY DEF emitUnreadChanged, StepNotice, noticeBounds
<1>2. old \in NoticeJobs /\ JobStands(p) /\ old.recipients \subseteq Users
  BY JobFields DEF NoticeInv
<1>3. /\ send \in NoticeJobs /\ send.step = "mail" /\ send.mails = old.mails /\ send.row = 0
      /\ send.recipients = {}
  <2>1. old.mails \in Seq(Pairs) /\ old.attempt \in Nat
    BY <1>2 DEF NoticeJobs
  <2> HIDE DEF old
  <2> QED BY <2>1, FreeJobIs DEF NoticeJobs
<1> HIDE DEF send
<1>4. /\ job \in NoticeJobs /\ job.row = 0 /\ job.recipients = {}
      /\ job.step = "idle" => job = FreeJob
      /\ job.step \in {"idle", "mail"}
      /\ job.step = "mail" => job.mails = old.mails /\ old.mails # << >>
      /\ job.step = "idle" => DOMAIN job.mails = {}
  BY <1>3, FreeJobIs
<1> HIDE DEF job
<1>5. noticeJob'[p] = job
  BY <1>1 DEF NoticeInv, NoticeTypeOK
<1>6. JobStands(p)'
  BY <1>2, <1>4, <1>5 DEF JobStands
<1>7. UnsaidIsOwed'
  BY <1>1, OwesOn
<1>8. OnlyMarked
  BY <1>1, UnmarkedIsMarked DEF NoticeInv
<1>9. /\ assigned' \subseteq Pairs /\ due' \subseteq Tasks /\ signals' \subseteq Users
      /\ unsaid' \subseteq Users /\ crashes' \in Nat /\ noticeRequests' \in Nat
      /\ job.row \in 0 .. Len(notices)
  BY <1>1, <1>2, <1>4, LenProperties DEF NoticeInv, NoticeTypeOK
<1>10. \A i \in DOMAIN job.mails : \E j \in DOMAIN old.mails : old.mails[j] = job.mails[i]
  BY <1>4
<1> QED BY <1>1, <1>4, <1>6, <1>7, <1>8, <1>9, <1>10, RowsKept

(* A scan that dies mails nothing more before it starts again.             *)
LEMMA CrashKeeps ==
    ASSUME NoticeInv, NEW p \in Procs, CrashScan(p)
    PROVE  NoticeInv'
<1> DEFINE old == noticeJob[p]
           again == [FreeJob EXCEPT !.op = "scan", !.step = "page", !.attempt = old.attempt + 1]
           job == IF old.attempt + 1 < JOB_ATTEMPTS THEN again ELSE FreeJob
<1>1. /\ noticeJob' = [noticeJob EXCEPT ![p] = job] /\ crashes' = crashes + 1
      /\ UNCHANGED <<assigned, due, notices, mailed, lapped, signals, unsaid, noticeRequests>>
  BY DEF CrashScan, noticeRows
<1>2. old.attempt \in Nat
  BY JobFields DEF NoticeInv, NoticeJobs
<1>3. again \in NoticeJobs /\ again.step = "page" /\ again.mails = << >> /\ again.row = 0
  <2>1. PICK n \in Nat : n = old.attempt + 1
    BY <1>2
  <2>2. again = [FreeJob EXCEPT !.op = "scan", !.step = "page", !.attempt = n]
    BY <2>1
  <2> HIDE DEF again
  <2> QED BY <2>2, FreeJobIs DEF NoticeJobs
<1> HIDE DEF again
<1>4. /\ job \in NoticeJobs /\ job.row = 0 /\ DOMAIN job.mails = {}
      /\ job.step = "idle" => job = FreeJob
      /\ job.step \in {"idle", "page"}
  BY <1>3, FreeJobIs
<1> HIDE DEF job
<1>5. noticeJob'[p] = job
  BY <1>1 DEF NoticeInv, NoticeTypeOK
<1>6. JobStands(p)'
  BY <1>4, <1>5 DEF JobStands
<1>7. /\ assigned' \subseteq Pairs /\ due' \subseteq Tasks /\ signals' \subseteq Users
      /\ unsaid' \subseteq Users /\ crashes' \in Nat /\ crashes' # 0 /\ noticeRequests' \in Nat
      /\ job.row \in 0 .. Len(notices)
  BY <1>1, <1>4, LenProperties DEF NoticeInv, NoticeTypeOK
<1>8. UnsaidIsOwed'
  BY <1>7 DEF UnsaidIsOwed
<1>9. OnlyMarked
  BY <1>1, UnmarkedIsMarked DEF NoticeInv
<1> QED BY <1>1, <1>4, <1>6, <1>7, <1>8, <1>9, RowsKept

(* One mail is tried: the pair is mailed at most once more and this scan   *)
(* has one mail less for it.                                               *)
LEMMA SendKeeps ==
    ASSUME NoticeInv, NEW p \in Procs, sendForCreated(p)
    PROVE  NoticeInv'
<1> DEFINE old == noticeJob[p]
           item == Head(old.mails)
           rest == [old EXCEPT !.mails = Tail(@)]
           job == IF Len(old.mails) = 1 THEN FreeJob ELSE rest
<1>1. /\ old.step = "mail" /\ noticeJob' = [noticeJob EXCEPT ![p] = job]
      /\ mailed' \in {[mailed EXCEPT ![item] = @ + IF item[1] \in due THEN 1 ELSE 0], mailed}
      /\ UNCHANGED <<assigned, due, notices, lapped, signals, unsaid, crashes, noticeRequests>>
  BY DEF sendForCreated, StepNotice, noticeBounds
<1>2. /\ old \in NoticeJobs /\ JobStands(p) /\ old.mails \in Seq(Pairs)
      /\ old.row \in 0 .. Len(notices)
  BY JobFields DEF NoticeInv
<1>3. /\ old.mails # << >> /\ old.recipients = {}
      /\ \A i, j \in DOMAIN old.mails : old.mails[i] = old.mails[j] => i = j
  BY <1>1, <1>2 DEF JobStands
<1> DEFINE tail == Tail(old.mails)
<1>4. /\ item \in Pairs /\ tail \in Seq(Pairs)
      /\ \A i \in DOMAIN tail : i + 1 \in DOMAIN old.mails /\ tail[i] = old.mails[i + 1]
      /\ \A i \in DOMAIN tail : tail[i] # item
      /\ \A i, j \in DOMAIN tail : tail[i] = tail[j] => i = j
      /\ Len(old.mails) # 1 => tail # << >>
      /\ 1 \in DOMAIN old.mails /\ old.mails[1] = item
  BY <1>2, <1>3, Shortened
<1>5. /\ rest \in NoticeJobs /\ rest.mails = tail /\ rest.step = "mail" /\ rest.recipients = {}
      /\ rest.row = old.row
  <2> HIDE DEF old
  <2> QED BY <1>1, <1>2, <1>3, <1>4 DEF NoticeJobs
<1> HIDE DEF rest, tail, item
<1>6. /\ job \in NoticeJobs /\ job.recipients = {} /\ job.row \in 0 .. Len(notices)
      /\ job.step = "idle" => job = FreeJob
      /\ job.step \in {"idle", "mail"}
      /\ job.step = "mail" => job.mails = tail /\ tail # << >>
      /\ job.step = "idle" => DOMAIN job.mails = {}
  BY <1>2, <1>4, <1>5, FreeJobIs
<1> HIDE DEF job
<1>7. /\ noticeJob' \in [Procs -> NoticeJobs] /\ noticeJob'[p] = job
      /\ \A q \in Procs \ {p} : noticeJob'[q] = noticeJob[q]
  BY <1>1, <1>6 DEF NoticeInv, NoticeTypeOK
<1>8. /\ mailed' \in [Pairs -> Nat] /\ mailed'[item] <= mailed[item] + 1
      /\ \A x \in Pairs \ {item} : mailed'[x] = mailed[x]
  <2>1. mailed \in [Pairs -> Nat]
    BY DEF NoticeInv, NoticeTypeOK
  <2>2. PICK k \in {0, 1} : mailed' = [mailed EXCEPT ![item] = @ + k] \/ mailed' = mailed
    BY <1>1
  <2> QED BY <1>4, <2>1, <2>2
<1>9. NoticeTypeOK'
  BY <1>1, <1>6, <1>7, <1>8 DEF NoticeInv, NoticeTypeOK
<1>10. OneUnreadReminder'
  BY <1>1 DEF NoticeInv, OneUnreadReminder
<1>11. ASSUME NEW q \in Procs PROVE JobStands(q)'
  <2>1. CASE q # p
    <3>1. \A x : UnreadReminder(x)' <=> UnreadReminder(x)
      BY <1>1 DEF UnreadReminder
    <3> QED BY <1>1, <1>7, <2>1, <3>1 DEF NoticeInv, JobStands
  <2>2. CASE q = p
    BY <1>4, <1>6, <1>7, <2>2 DEF JobStands
  <2> QED BY <2>1, <2>2
<1>12. UnsaidIsOwed'
  BY <1>1, <1>3, OwesOn
<1>13. MailsAreOwed'
  <2> SUFFICES ASSUME NEW x \in Pairs \ lapped
               PROVE  mailed'[x] + Cardinality(Mailing(x)') <= Cardinality(RemindersOf(x)')
    BY <1>1 DEF MailsAreOwed
  <2>1. /\ mailed[x] + Cardinality(Mailing(x)) <= Cardinality(RemindersOf(x)) /\ mailed[x] \in Nat
        /\ mailed'[x] \in Nat
    BY <1>8 DEF NoticeInv, NoticeTypeOK, MailsAreOwed
  <2>2. RemindersOf(x)' = RemindersOf(x) /\ Cardinality(RemindersOf(x)) \in Nat
    BY <1>1, RemindersFinite DEF RemindersOf, NoticeInv, NoticeTypeOK
  <2>3. IsFiniteSet(Mailing(x)) /\ Cardinality(Mailing(x)) \in Nat
    BY PoolAssumption, FS_Subset, FS_CardinalityType DEF Mailing
  <2>4. Mailing(x)' \subseteq Mailing(x)
    <3>1. \A i \in DOMAIN job.mails : \E j \in DOMAIN old.mails : old.mails[j] = job.mails[i]
      BY <1>4, <1>6
    <3> QED BY <1>7, <3>1 DEF Mailing
  <2>5. Cardinality(Mailing(x)') <= Cardinality(Mailing(x)) /\ Cardinality(Mailing(x)') \in Nat
    BY <2>3, <2>4, FS_Subset, FS_CardinalityType
  <2>6. CASE x # item
    BY <1>8, <2>1, <2>2, <2>3, <2>5, <2>6
  <2>7. CASE x = item
    <3>1. p \in Mailing(x) /\ p \notin Mailing(x)'
      BY <1>4, <1>6, <1>7, <2>7 DEF Mailing
    <3>2. Mailing(x)' \subseteq Mailing(x) \ {p}
      BY <2>4, <3>1
    <3>3. Cardinality(Mailing(x) \ {p}) = Cardinality(Mailing(x)) - 1 /\ IsFiniteSet(Mailing(x) \ {p})
      BY <2>3, <3>1, FS_RemoveElement
    <3>4. Cardinality(Mailing(x)') <= Cardinality(Mailing(x)) - 1
      BY <3>2, <3>3, FS_Subset
    <3> QED BY <1>8, <2>1, <2>2, <2>3, <2>5, <2>7, <3>4
  <2> QED BY <2>6, <2>7
<1> QED BY <1>9, <1>10, <1>11, <1>12, <1>13 DEF NoticeInv

(* An assignment or a comment stores its rows, none of them a reminder, or *)
(* is refused.                                                             *)
LEMMA CommitKeeps ==
    ASSUME NoticeInv, NEW p \in Procs, CommitTell(p)
    PROVE  NoticeInv'
<1> DEFINE old == noticeJob[p]
           told == Told(old)
           type == IF old.op = "assign" THEN "assignment" ELSE "mention"
           emit == [old EXCEPT !.step = "emit", !.recipients = told]
           job == IF AlreadyAssigned(old) \/ told = {} THEN FreeJob ELSE emit
<1>1. /\ old.step = "commit" /\ noticeJob' = [noticeJob EXCEPT ![p] = job]
      /\ UNCHANGED <<due, mailed, lapped, signals, crashes, noticeRequests>>
      /\ unsaid' = IF AlreadyAssigned(old) THEN unsaid ELSE unsaid \cup told
      /\ assigned' \subseteq assigned \cup ({old.task} \X old.users)
  BY DEF CommitTell, StepNotice, noticeBounds, noticeRows
<1>2. /\ old \in NoticeJobs /\ JobStands(p) /\ old.row \in 0 .. Len(notices)
      /\ old.users \subseteq Users /\ old.task \in Tasks /\ old.recipients = {}
  BY <1>1, JobFields DEF NoticeInv, JobStands
<1>3. told \subseteq Users
  BY <1>2 DEF Told
<1> HIDE DEF told
<1>4. /\ emit \in NoticeJobs /\ emit.step = "emit" /\ emit.mails = old.mails
      /\ emit.recipients = told /\ emit.row = old.row
  <2> HIDE DEF old
  <2> QED BY <1>2, <1>3 DEF NoticeJobs
<1> HIDE DEF emit
<1>5. /\ job \in NoticeJobs /\ job.row \in 0 .. Len(notices)
      /\ job.step = "idle" => job = FreeJob
      /\ job.step \in {"idle", "emit"}
      /\ job.step = "emit" => job.mails = old.mails
      /\ job.step = "idle" => DOMAIN job.mails = {}
      /\ ~ AlreadyAssigned(old) /\ told # {} => job.step = "emit" /\ job.recipients = told
  BY <1>2, <1>4, FreeJobIs, LenProperties DEF NoticeInv, NoticeTypeOK
<1> HIDE DEF job
<1>6. noticeJob'[p] = job
  BY <1>1 DEF NoticeInv, NoticeTypeOK
<1>7. JobStands(p)'
  BY <1>2, <1>5, <1>6 DEF JobStands
<1>8. UnsaidIsOwed'
  BY <1>1, <1>2, <1>5, OwesOn
<1>9. RemindersStand
  <2>1. CASE AlreadyAssigned(old)
    <3>1. notices' = notices
      BY <2>1 DEF CommitTell, noticeRows
    <3> QED BY <3>1, MarkedStand, UnmarkedIsMarked DEF NoticeInv
  <2>2. CASE ~ AlreadyAssigned(old)
    <3> DEFINE S == {NewNotice(type, old.task, u) : u \in told}
    <3>1. notices' = notices \o InSomeOrder(S)
      BY <2>2 DEF CommitTell, Inserted, told
    <3>2. \A x \in S : x \in Notice /\ x.type # "due_soon"
      BY <1>2, <1>3, NewNoticeIs
    <3>3. IsFiniteSet(S)
      <4> DEFINE f == [u \in told |-> NewNotice(type, old.task, u)]
      <4>1. IsFiniteSet(told)
        BY <1>3, PairsFinite
      <4>2. S = {f[u] : u \in told}
        OBVIOUS
      <4>3. DOMAIN f = told /\ f = [u \in told |-> f[u]]
        OBVIOUS
      <4> HIDE DEF f, S, told
      <4> QED BY <4>1, <4>2, <4>3, ValuesFinite
    <3> HIDE DEF S
    <3>0. notices \in Seq(Notice) /\ S \in SUBSET Notice
      BY <3>2 DEF NoticeInv, NoticeTypeOK
    <3>9. notices' \in Seq(Notice) /\ Extends(notices', notices, S)
      BY <3>0, <3>1, <3>3, Extended
    <3>4. /\ notices' \in Seq(Notice) /\ DOMAIN notices \subseteq DOMAIN notices'
          /\ Len(notices) <= Len(notices')
          /\ \A i \in DOMAIN notices : notices'[i] = notices[i]
          /\ \A i \in DOMAIN notices' \ DOMAIN notices : notices'[i] \in S
      BY <3>9 DEF Extends
    <3>5. \A i \in DOMAIN notices' : notices'[i].type = "due_soon" =>
             i \in DOMAIN notices /\ notices'[i] = notices[i]
      BY <3>2, <3>4
    <3>6. OneUnreadReminder'
      BY <3>5 DEF NoticeInv, OneUnreadReminder
    <3>7. \A x : UnreadReminder(x)' => UnreadReminder(x)
      BY <3>5 DEF UnreadReminder
    <3>8. \A x : RemindersOf(x) \subseteq RemindersOf(x)'
      BY <3>4 DEF RemindersOf
    <3> QED BY <3>4, <3>6, <3>7, <3>8 DEF RemindersStand
  <2> QED BY <2>1, <2>2
<1>10. /\ assigned' \subseteq Pairs /\ due' \subseteq Tasks /\ signals' \subseteq Users
       /\ unsaid' \subseteq Users /\ crashes' \in Nat /\ noticeRequests' \in Nat
  BY <1>1, <1>2, <1>3 DEF NoticeInv, NoticeTypeOK, Pairs
<1>11. \A i \in DOMAIN job.mails : \E j \in DOMAIN old.mails : old.mails[j] = job.mails[i]
  BY <1>5
<1> QED BY <1>1, <1>5, <1>7, <1>8, <1>9, <1>10, <1>11, StandingKept

(* What notifyBatch writes: a reminder for every pair of the batch that    *)
(* the unique index lets in, and nothing else.                             *)
LEMMA BatchRows ==
    ASSUME NoticeInv, NEW fresh \in SUBSET Pairs, \A x \in fresh : ~ UnreadReminder(x),
           notices' = Inserted({NewNotice("due_soon", x[1], x[2]) : x \in fresh})
    PROVE  /\ notices' \in Seq(Notice) /\ Len(notices) <= Len(notices')
           /\ OneUnreadReminder'
           /\ \A x \in Pairs : UnreadReminder(x)' => UnreadReminder(x) \/ x \in fresh
           /\ \A x : RemindersOf(x) \subseteq RemindersOf(x)'
           /\ \A x \in fresh : \E i : i \in RemindersOf(x)' \ RemindersOf(x)
<1> DEFINE row(x) == NewNotice("due_soon", x[1], x[2])
           S == {row(x) : x \in fresh}
<1>1. notices' = notices \o InSomeOrder(S)
  BY DEF Inserted
<1>2. \A x \in Pairs : /\ row(x) \in Notice /\ row(x).type = "due_soon" /\ row(x).task = x[1]
                       /\ row(x).user = x[2] /\ ~ row(x).read
                       /\ x[1] \in Tasks /\ x[2] \in Users /\ x = <<x[1], x[2]>>
  <2> TAKE x \in Pairs
  <2>1. x[1] \in Tasks /\ x[2] \in Users /\ x = <<x[1], x[2]>>
    BY DEF Pairs
  <2> QED BY <2>1, NewNoticeIs
<1> HIDE DEF row
<1>3. IsFiniteSet(S)
  <2> DEFINE f == [x \in fresh |-> row(x)]
  <2>1. S = {f[x] : x \in fresh} /\ DOMAIN f = fresh /\ f = [x \in fresh |-> f[x]]
    OBVIOUS
  <2>2. IsFiniteSet(fresh)
    BY PairsFinite
  <2> HIDE DEF f, S
  <2> QED BY <2>1, <2>2, ValuesFinite
<1>4. S \subseteq Notice
  BY <1>2
<1>5. \A y \in S : \E x \in fresh : y = row(x)
  OBVIOUS
<1>6. \A x \in fresh : row(x) \in S
  OBVIOUS
<1> HIDE DEF S
<1>0. notices \in Seq(Notice)
  BY DEF NoticeInv, NoticeTypeOK
<1>15. notices' \in Seq(Notice) /\ Extends(notices', notices, S)
  BY <1>0, <1>1, <1>3, <1>4, Extended
<1>7. /\ notices' \in Seq(Notice) /\ DOMAIN notices \subseteq DOMAIN notices'
      /\ Len(notices) <= Len(notices')
      /\ \A i \in DOMAIN notices : notices'[i] = notices[i]
      /\ \A i \in DOMAIN notices' \ DOMAIN notices : notices'[i] \in S
      /\ \A x \in S : \E i \in DOMAIN notices' \ DOMAIN notices : notices'[i] = x
      /\ \A i, j \in DOMAIN notices' \ DOMAIN notices : notices'[i] = notices'[j] => i = j
  BY <1>15 DEF Extends
<1>8. \A i \in DOMAIN notices' \ DOMAIN notices : \E x \in fresh : notices'[i] = row(x)
  BY <1>5, <1>7
<1>9. OneUnreadReminder'
  <2> SUFFICES ASSUME NEW i \in DOMAIN notices', NEW j \in DOMAIN notices',
                      notices'[i].type = "due_soon", notices'[j].type = "due_soon",
                      ~notices'[i].read, ~notices'[j].read,
                      notices'[i].task = notices'[j].task, notices'[i].user = notices'[j].user
               PROVE  i = j
    BY DEF OneUnreadReminder
  <2>1. CASE i \in DOMAIN notices /\ j \in DOMAIN notices
    BY <1>7, <2>1 DEF NoticeInv, OneUnreadReminder
  <2>2. ASSUME NEW k \in DOMAIN notices, NEW l \in DOMAIN notices' \ DOMAIN notices,
               notices'[k].type = "due_soon", ~notices'[k].read,
               notices'[k].task = notices'[l].task, notices'[k].user = notices'[l].user
        PROVE  FALSE
    <3>1. PICK x \in fresh : notices'[l] = row(x)
      BY <1>8
    <3>2. notices[k].task = x[1] /\ notices[k].user = x[2]
      BY <1>2, <1>7, <2>2, <3>1
    <3>3. UnreadReminder(x)
      BY <1>7, <2>2, <3>2 DEF UnreadReminder
    <3> QED BY <3>3
  <2>3. CASE i \notin DOMAIN notices /\ j \notin DOMAIN notices
    <3>1. PICK x \in fresh : notices'[i] = row(x)
      BY <1>8, <2>3
    <3>2. PICK y \in fresh : notices'[j] = row(y)
      BY <1>8, <2>3
    <3>3. x = y
      BY <1>2, <3>1, <3>2
    <3> QED BY <1>7, <2>3, <3>1, <3>2, <3>3
  <2> QED BY <2>1, <2>2, <2>3
<1>10. ASSUME NEW x \in Pairs, UnreadReminder(x)' PROVE UnreadReminder(x) \/ x \in fresh
  <2>1. PICK i \in DOMAIN notices' : /\ notices'[i].type = "due_soon" /\ ~notices'[i].read
                                     /\ notices'[i].task = x[1] /\ notices'[i].user = x[2]
    BY <1>10 DEF UnreadReminder
  <2>2. CASE i \in DOMAIN notices
    BY <1>7, <2>1, <2>2 DEF UnreadReminder
  <2>3. CASE i \notin DOMAIN notices
    <3>1. PICK y \in fresh : notices'[i] = row(y)
      BY <1>8, <2>3
    <3>2. y = x
      BY <1>2, <2>1, <3>1
    <3> QED BY <3>2
  <2> QED BY <2>2, <2>3
<1>11. \A x : RemindersOf(x) \subseteq RemindersOf(x)'
  BY <1>7 DEF RemindersOf
<1>12. ASSUME NEW x \in fresh PROVE \E i : i \in RemindersOf(x)' \ RemindersOf(x)
  <2>1. PICK i \in DOMAIN notices' \ DOMAIN notices : notices'[i] = row(x)
    BY <1>6, <1>7
  <2>2. i \in RemindersOf(x)' /\ i \notin RemindersOf(x)
    BY <1>2, <2>1 DEF RemindersOf
  <2> QED BY <2>2
<1> QED BY <1>7, <1>9, <1>10, <1>11, <1>12

(* The mails of a batch go behind those of the scan's earlier pages, which *)
(* are all of earlier tasks.                                               *)
LEMMA MailsQueued ==
    ASSUME NoticeInv, NEW p \in Procs, noticeJob[p].step = "insert",
           NEW mails, mails = noticeJob[p].mails \o InSomeOrder(noticeJob[p].skip)
    PROVE  /\ mails \in Seq(Pairs)
           /\ \A i, j \in DOMAIN mails : mails[i] = mails[j] => i = j
           /\ \A i \in DOMAIN mails : mails[i][1] <= noticeJob[p].cursor
           /\ \A i \in DOMAIN mails : \/ mails[i] \in noticeJob[p].skip
                                      \/ \E j \in DOMAIN noticeJob[p].mails : noticeJob[p].mails[j] = mails[i]
<1> DEFINE old == noticeJob[p]
<1>1. /\ old.mails \in Seq(Pairs) /\ old.skip \in SUBSET Pairs /\ IsFiniteSet(old.skip) /\ JobStands(p)
  BY JobFields, PairsFinite DEF NoticeInv
<1>2. /\ mails \in Seq(Pairs) /\ DOMAIN old.mails \subseteq DOMAIN mails
      /\ \A i \in DOMAIN old.mails : mails[i] = old.mails[i]
      /\ \A i \in DOMAIN mails \ DOMAIN old.mails : mails[i] \in old.skip
      /\ \A i, j \in DOMAIN mails \ DOMAIN old.mails : mails[i] = mails[j] => i = j
  <2>1. PICK ms, sk : ms = old.mails /\ sk = old.skip
    OBVIOUS
  <2>2. ms \in Seq(Pairs) /\ sk \in SUBSET Pairs /\ IsFiniteSet(sk) /\ mails = ms \o InSomeOrder(sk)
    BY <1>1, <2>1
  <2>3. mails \in Seq(Pairs) /\ Extends(mails, ms, sk)
    BY <2>2, Extended
  <2> QED BY <2>1, <2>3 DEF Extends
<1>3. /\ \A i, j \in DOMAIN old.mails : old.mails[i] = old.mails[j] => i = j
      /\ \A i \in DOMAIN old.mails : old.mails[i][1] <= old.cursor
      /\ \A x \in old.skip : /\ x[1] <= old.cursor
                             /\ \A i \in DOMAIN old.mails : old.mails[i][1] < x[1]
  BY <1>1 DEF JobStands
<1>4. \A i \in DOMAIN old.mails : old.mails[i] \in Pairs
  BY <1>1, LenProperties, ElementOfSeq
<1>5. \A i \in DOMAIN old.mails, x \in old.skip : old.mails[i] # x
  <2> TAKE i \in DOMAIN old.mails, x \in old.skip
  <2>1. old.mails[i][1] < x[1] /\ x[1] \in Nat
    BY <1>1, <1>3, NoticesAssumption DEF Pairs
  <2> QED BY <2>1
<1> HIDE DEF old
<1>6. \A i, j \in DOMAIN mails : mails[i] = mails[j] => i = j
  <2> SUFFICES ASSUME NEW i \in DOMAIN mails, NEW j \in DOMAIN mails, mails[i] = mails[j]
               PROVE  i = j
    OBVIOUS
  <2>1. CASE i \in DOMAIN old.mails /\ j \in DOMAIN old.mails
    BY <1>2, <1>3, <2>1
  <2>2. CASE i \notin DOMAIN old.mails /\ j \notin DOMAIN old.mails
    BY <1>2, <2>2
  <2>3. CASE i \in DOMAIN old.mails /\ j \notin DOMAIN old.mails
    BY <1>2, <1>5, <2>3
  <2>4. CASE i \notin DOMAIN old.mails /\ j \in DOMAIN old.mails
    BY <1>2, <1>5, <2>4
  <2> QED BY <2>1, <2>2, <2>3, <2>4
<1>7. \A i \in DOMAIN mails : mails[i][1] <= old.cursor
  <2> TAKE i \in DOMAIN mails
  <2>1. CASE i \in DOMAIN old.mails
    BY <1>2, <1>3, <2>1
  <2>2. CASE i \notin DOMAIN old.mails
    <3>1. PICK x \in old.skip : x = mails[i]
      BY <1>2, <2>2
    <3> QED BY <1>3, <3>1
  <2> QED BY <2>1, <2>2
<1>8. \A i \in DOMAIN mails : \/ mails[i] \in old.skip
                              \/ \E j \in DOMAIN old.mails : old.mails[j] = mails[i]
  BY <1>2
<1> QED BY <1>2, <1>6, <1>7, <1>8 DEF old

(* A batch is inserted: whoever gets a reminder will be signalled, and no  *)
(* pair gets a mail to send without a row, unless two scans met over it.   *)
LEMMA BatchKeeps ==
    ASSUME NoticeInv, NEW p \in Procs, notifyBatch(p)
    PROVE  NoticeInv'
<1> DEFINE old == noticeJob[p]
           fresh == {x \in old.skip : ~UnreadReminder(x)}
           met == {x \in fresh : \E q \in Procs \ {p} :
                                    noticeJob[q].step = "insert" /\ x \in noticeJob[q].skip}
           more == old.mails \o InSomeOrder(old.skip)
           step == IF old.size < SCAN_BATCH_SIZE THEN "emit" ELSE "page"
           mails == IF fresh = {} THEN old.mails ELSE more
           told == {x[2] : x \in fresh}
           batch == {x[2] : x \in old.skip}
           recipients == IF fresh = {} THEN old.recipients ELSE old.recipients \cup batch
           job == [old EXCEPT !.step = step, !.skip = {}, !.size = 0,
                              !.recipients = recipients, !.mails = mails]
<1>1. /\ old.step = "insert" /\ noticeJob' = [noticeJob EXCEPT ![p] = job]
      /\ notices' = Inserted({NewNotice("due_soon", x[1], x[2]) : x \in fresh})
      /\ unsaid' = unsaid \cup told
      /\ lapped' = lapped \cup met
      /\ UNCHANGED <<assigned, due, mailed, signals, crashes, noticeRequests>>
  BY DEF notifyBatch, StepNotice, noticeBounds
<1>2. /\ old \in NoticeJobs /\ JobStands(p) /\ old.mails \in Seq(Pairs)
      /\ old.skip \subseteq Pairs /\ old.recipients \subseteq Users /\ old.row \in 0 .. Len(notices)
  BY JobFields DEF NoticeInv
<1>3. /\ fresh \subseteq old.skip /\ fresh \in SUBSET Pairs /\ \A x \in fresh : ~ UnreadReminder(x)
      /\ \A x \in old.skip : ~ UnreadReminder(x) => x \in fresh
  BY <1>2
<1>4. /\ \A x \in old.skip \ lapped : ~ UnreadReminder(x)
      /\ \A i, j \in DOMAIN old.mails : old.mails[i] = old.mails[j] => i = j
      /\ \A i \in DOMAIN old.mails : old.mails[i][1] <= old.cursor
  BY <1>1, <1>2 DEF JobStands
<1>5. /\ more \in Seq(Pairs)
      /\ \A i, j \in DOMAIN more : more[i] = more[j] => i = j
      /\ \A i \in DOMAIN more : more[i][1] <= old.cursor
      /\ \A i \in DOMAIN more : \/ more[i] \in old.skip
                                \/ \E j \in DOMAIN old.mails : old.mails[j] = more[i]
  BY <1>1, MailsQueued
<1>6. /\ batch \subseteq Users /\ told \subseteq batch
  <2>1. \A x \in old.skip : x[2] \in Users
    BY <1>2 DEF Pairs
  <2> QED BY <2>1
<1>7. \A x \in met : x \in fresh
  OBVIOUS
<1>8. \A q \in Procs \ {p} : \A x \in fresh :
         noticeJob[q].step = "insert" /\ x \in noticeJob[q].skip => x \in met
  OBVIOUS
<1>9. fresh = {} => told = {}
  OBVIOUS
<1>10. /\ notices' \in Seq(Notice) /\ Len(notices) <= Len(notices')
       /\ OneUnreadReminder'
       /\ \A x \in Pairs : UnreadReminder(x)' => UnreadReminder(x) \/ x \in fresh
       /\ \A x : RemindersOf(x) \subseteq RemindersOf(x)'
       /\ \A x \in fresh : \E i : i \in RemindersOf(x)' \ RemindersOf(x)
  BY <1>1, <1>3, BatchRows
<1> HIDE DEF fresh, met, more, told, batch
<1>11. /\ mails \in Seq(Pairs)
       /\ \A i, j \in DOMAIN mails : mails[i] = mails[j] => i = j
       /\ \A i \in DOMAIN mails : mails[i][1] <= old.cursor
       /\ \A i \in DOMAIN mails : \/ mails[i] \in old.skip /\ fresh # {}
                                  \/ \E j \in DOMAIN old.mails : old.mails[j] = mails[i]
  BY <1>2, <1>4, <1>5
<1>12. /\ recipients \subseteq Users /\ old.recipients \subseteq recipients
       /\ told \subseteq recipients
  BY <1>2, <1>6, <1>9
<1>13. step \in {"emit", "page"}
  OBVIOUS
<1> HIDE DEF mails, recipients, step
<1>14. /\ job \in NoticeJobs /\ job.step \in {"emit", "page"} /\ job.skip = {}
       /\ job.recipients = recipients /\ job.mails = mails /\ job.row = old.row
       /\ job.cursor = old.cursor
  <2> HIDE DEF old
  <2> QED BY <1>2, <1>11, <1>12, <1>13 DEF NoticeJobs
<1> HIDE DEF job
<1>15. /\ noticeJob' \in [Procs -> NoticeJobs] /\ noticeJob'[p] = job
       /\ \A q \in Procs \ {p} : noticeJob'[q] = noticeJob[q]
  BY <1>1, <1>14 DEF NoticeInv, NoticeTypeOK
<1>16. NoticeTypeOK'
  <2>1. lapped' \subseteq Pairs /\ unsaid' \subseteq Users
    BY <1>1, <1>3, <1>6, <1>7 DEF NoticeInv, NoticeTypeOK
  <2>2. Len(notices) \in Nat /\ Len(notices') \in Nat
    BY <1>10, LenProperties DEF NoticeInv, NoticeTypeOK
  <2>3. ASSUME NEW q \in Procs
        PROVE  /\ noticeJob'[q].row \in 0 .. Len(notices')
               /\ noticeJob'[q].step = "idle" => noticeJob'[q] = FreeJob
    <3>1. CASE q = p
      BY <1>2, <1>10, <1>14, <1>15, <2>2, <3>1
    <3>2. CASE q # p
      BY <1>10, <1>15, <2>2, <3>2 DEF NoticeInv, NoticeTypeOK
    <3> QED BY <3>1, <3>2
  <2> QED BY <1>1, <1>10, <1>15, <2>1, <2>3 DEF NoticeInv, NoticeTypeOK
<1>17. ASSUME NEW q \in Procs PROVE JobStands(q)'
  <2>1. CASE q = p
    BY <1>11, <1>14, <1>15, <2>1 DEF JobStands
  <2>2. CASE q # p
    <3>1. \A x \in noticeJob[q].skip \ lapped' :
             noticeJob[q].step = "insert" => ~ UnreadReminder(x)'
      <4> SUFFICES ASSUME NEW x \in noticeJob[q].skip \ lapped', noticeJob[q].step = "insert",
                          UnreadReminder(x)'
                   PROVE  FALSE
        OBVIOUS
      <4>1. x \in Pairs /\ x \notin lapped
        BY <1>1, JobFields DEF NoticeInv
      <4>2. ~ UnreadReminder(x)
        BY <4>1 DEF NoticeInv, JobStands
      <4>3. x \in fresh
        BY <1>10, <4>1, <4>2
      <4> QED BY <1>1, <1>8, <2>2, <4>3
    <3>2. noticeJob'[q] = noticeJob[q] /\ JobStands(q)
      BY <1>15, <2>2 DEF NoticeInv
    <3> QED BY <3>1, <3>2 DEF JobStands
  <2> QED BY <2>1, <2>2
<1>18. UnsaidIsOwed'
  <2>1. \A u \in unsaid' : u \in old.recipients \/ u \notin unsaid =>
           job.step # "idle" /\ u \in job.recipients
    BY <1>1, <1>12, <1>14
  <2> QED BY <1>1, <2>1, OwesOn
<1>19. MailsAreOwed'
  <2> SUFFICES ASSUME NEW x \in Pairs \ lapped'
               PROVE  mailed[x] + Cardinality(Mailing(x)') <= Cardinality(RemindersOf(x)')
    BY <1>1 DEF MailsAreOwed
  <2>1. x \notin lapped
    BY <1>1
  <2>2. /\ mailed[x] + Cardinality(Mailing(x)) <= Cardinality(RemindersOf(x)) /\ mailed[x] \in Nat
    BY <2>1 DEF NoticeInv, NoticeTypeOK, MailsAreOwed
  <2>3. /\ IsFiniteSet(RemindersOf(x)) /\ Cardinality(RemindersOf(x)) \in Nat
    BY RemindersFinite DEF NoticeInv, NoticeTypeOK
  <2>4. IsFiniteSet(RemindersOf(x)') /\ Cardinality(RemindersOf(x)') \in Nat
    <3>1. DOMAIN notices' = 1 .. Len(notices') /\ Len(notices') \in Nat
      BY <1>10, LenProperties
    <3>2. IsFiniteSet(1 .. Len(notices'))
      BY <3>1, FS_Interval
    <3> QED BY <3>1, <3>2, FS_Subset, FS_CardinalityType DEF RemindersOf
  <2>5. IsFiniteSet(Mailing(x)) /\ Cardinality(Mailing(x)) \in Nat
    BY PoolAssumption, FS_Subset, FS_CardinalityType DEF Mailing
  <2>6. Cardinality(RemindersOf(x)) <= Cardinality(RemindersOf(x)')
    BY <1>10, <2>4, FS_Subset
  <2>7. CASE x \in old.skip
    <3>1. x \in fresh
      BY <1>3, <1>4, <2>1, <2>7
    <3>2. PICK i : i \in RemindersOf(x)' \ RemindersOf(x)
      BY <1>10, <3>1
    <3>3. /\ Cardinality(RemindersOf(x) \cup {i}) = Cardinality(RemindersOf(x)) + 1
          /\ RemindersOf(x) \cup {i} \subseteq RemindersOf(x)'
      BY <1>10, <2>3, <3>2, FS_AddElement
    <3>4. Cardinality(RemindersOf(x)) + 1 <= Cardinality(RemindersOf(x)')
      BY <2>4, <3>3, FS_Subset
    <3>5. Mailing(x)' \subseteq Mailing(x) \cup {p}
      BY <1>15 DEF Mailing
    <3>6. /\ IsFiniteSet(Mailing(x) \cup {p})
          /\ Cardinality(Mailing(x) \cup {p}) <= Cardinality(Mailing(x)) + 1
          /\ Cardinality(Mailing(x) \cup {p}) \in Nat
      BY <2>5, FS_AddElement, FS_CardinalityType
    <3>7. Cardinality(Mailing(x)') <= Cardinality(Mailing(x) \cup {p}) /\ Cardinality(Mailing(x)') \in Nat
      BY <3>5, <3>6, FS_Subset, FS_CardinalityType
    <3> QED BY <2>2, <2>3, <2>4, <2>5, <3>4, <3>6, <3>7
  <2>8. CASE x \notin old.skip
    <3>1. Mailing(x)' \subseteq Mailing(x)
      BY <1>11, <1>14, <1>15, <2>8 DEF Mailing
    <3>2. Cardinality(Mailing(x)') <= Cardinality(Mailing(x)) /\ Cardinality(Mailing(x)') \in Nat
      BY <2>5, <3>1, FS_Subset, FS_CardinalityType
    <3> QED BY <2>2, <2>3, <2>4, <2>5, <2>6, <3>2
  <2> QED BY <2>7, <2>8
<1> QED BY <1>10, <1>16, <1>17, <1>18, <1>19 DEF NoticeInv

(* Nothing is owed before the first request.                               *)
LEMMA InitNotices == NoticesInit => NoticeInv
<1> SUFFICES ASSUME NoticesInit PROVE NoticeInv
  OBVIOUS
<1>1. notices = << >> /\ DOMAIN notices = {} /\ Len(notices) = 0 /\ notices \in Seq(Notice)
  BY EmptySeq DEF NoticesInit
<1>2. \A p \in Procs : noticeJob[p] = FreeJob
  BY DEF NoticesInit
<1>3. NoticeTypeOK
  BY <1>1, NoticesAssumption, FreeJobIs DEF NoticesInit, NoticeTypeOK, Pairs
<1>4. OneUnreadReminder
  BY <1>1 DEF OneUnreadReminder
<1>5. MailsAreOwed
  <2> SUFFICES ASSUME NEW x \in Pairs \ lapped
               PROVE  mailed[x] + Cardinality(Mailing(x)) <= Cardinality(RemindersOf(x))
    BY DEF MailsAreOwed
  <2>1. Mailing(x) = {} /\ RemindersOf(x) = {}
    BY <1>1, <1>2, FreeJobIs DEF Mailing, RemindersOf
  <2>2. mailed[x] = 0
    BY DEF NoticesInit
  <2> QED BY <2>1, <2>2, FS_EmptySet
<1>6. UnsaidIsOwed
  BY DEF NoticesInit, UnsaidIsOwed
<1>7. \A p \in Procs : JobStands(p)
  BY <1>2, FreeJobIs DEF JobStands
<1> QED BY <1>3, <1>4, <1>5, <1>6, <1>7 DEF NoticeInv

(* Every step of the server keeps what is owed.                            *)
LEMMA ServerKeepsNotices ==
    ASSUME NoticeInv, NEW p \in Procs, NoticeStep(p)
    PROVE  NoticeInv'
<1>1. ASSUME NEW i \in DOMAIN notices, markRead(p, notices[i].user, i) PROVE NoticeInv'
  <2>0. notices[i] \in Notice
    BY LenProperties, ElementOfSeq DEF NoticeInv, NoticeTypeOK
  <2>1. notices[i].user \in Users
    BY <2>0 DEF Notice
  <2> QED BY <1>1, <2>1, MarksKeep
<1>2. CASE removeAssignee(p)
  BY <1>2, WorldKeeps
<1> QED BY <1>1, <1>2, BeginsKeep, CommitKeeps, ScanPageKeeps, ScanSkipKeeps, BatchKeeps,
           EmitKeeps, SendKeeps, CrashKeeps DEF NoticeStep

(* So does every step of a tab.                                            *)
LEMMA TabKeepsNotices ==
    ASSUME NoticeInv, BadgeTypeOK, TabStep
    PROVE  NoticeInv'
<1>1. CASE UNCHANGED noticeVars
  BY <1>1, JobsKept, UnmarkedIsMarked
     DEF noticeVars, noticeRows, noticeBounds, NoticeInv, NoticeTypeOK
<1>2. CASE Signalled \/ Resync \/ RoomDropped
  <2>1. /\ UNCHANGED <<noticeJob, assigned, due, notices, mailed, lapped, unsaid>>
        /\ UNCHANGED noticeBounds /\ signals' = signals \ {Me}
    BY <1>2 DEF Signalled, Resync, RoomDropped
  <2> QED BY <2>1, JobsKept, UnmarkedIsMarked DEF noticeBounds, NoticeInv, NoticeTypeOK
<1>3. ASSUME NEW p \in Procs, OpenNotification(p) \/ MarkAll(p) \/ OtherTab(p) PROVE NoticeInv'
  <2>1. markAllRead(p, Me) \/ \E i \in DOMAIN notices : markRead(p, Me, i)
    BY <1>3 DEF OpenNotification, MarkAll, OtherTab, BadgeTypeOK, UnreadOf
  <2> QED BY <2>1, BadgeAssumption, MarksKeep
<1>4. CASE CountUnread \/ ApplyRead \/ FailRead \/ Poll \/ VisibilityChange \/ Reply
  BY <1>1, <1>4 DEF CountUnread, ApplyRead, FailRead, Poll, VisibilityChange, Reply
<1> QED BY <1>2, <1>3, <1>4 DEF TabStep

-----------------------------------------------------------------------------
(* The badge.                                                              *)

(* What the tab may trust: rows stay, and whenever its person's unread     *)
(* rows move, a signal is owed or under way.                               *)
MovesAreSaid == /\ DOMAIN notices \subseteq DOMAIN notices'
                /\ Me \notin signals' \cup unsaid' =>
                     /\ Me \notin signals \cup unsaid
                     /\ UnreadOf(Me)' = UnreadOf(Me)

(* Rows for others leave this person's count alone.                        *)
LEMMA OthersRows ==
    ASSUME NoticeTypeOK, NEW S \in SUBSET Notice, IsFiniteSet(S), notices' = Inserted(S)
    PROVE  /\ DOMAIN notices \subseteq DOMAIN notices'
           /\ (\A x \in S : x.user # Me) => UnreadOf(Me)' = UnreadOf(Me)
<1>1. /\ DOMAIN notices \subseteq DOMAIN notices'
      /\ \A i \in DOMAIN notices : notices'[i] = notices[i]
      /\ \A i \in DOMAIN notices' \ DOMAIN notices : notices'[i] \in S
  <2>1. notices \in Seq(Notice) /\ notices' = notices \o InSomeOrder(S)
    BY DEF NoticeTypeOK, Inserted
  <2>2. Extends(notices', notices, S)
    BY <2>1, Extended
  <2> QED BY <2>2 DEF Extends
<1> QED BY <1>1 DEF UnreadOf

(* A mark moves only the rows of the person it is for.                     *)
LEMMA MarksAreSaid ==
    ASSUME NoticeTypeOK, NEW p \in Procs, NEW u,
           markAllRead(p, u) \/ \E i \in DOMAIN notices : markRead(p, u, i)
    PROVE  MovesAreSaid
<1>1. CASE markAllRead(p, u)
  <2>1. /\ DOMAIN notices' = DOMAIN notices
        /\ \A i \in DOMAIN notices : /\ notices'[i].user = notices[i].user
                                     /\ notices'[i].read <=> notices[i].read \/ notices[i].user = u
        /\ signals' = signals /\ unsaid' = IF UnreadOf(u) = {} THEN unsaid ELSE unsaid \cup {u}
    <3>1. notices' = [i \in DOMAIN notices |-> [notices[i] EXCEPT !.read = @ \/ notices[i].user = u]]
      BY <1>1 DEF markAllRead
    <3>2. \A i \in DOMAIN notices : notices[i] \in Notice
      BY LenProperties, ElementOfSeq DEF NoticeTypeOK
    <3>3. \A i \in DOMAIN notices : notices'[i] = [notices[i] EXCEPT !.read = @ \/ notices[i].user = u]
      BY <3>1
    <3>4. \A i \in DOMAIN notices : /\ notices'[i].user = notices[i].user
                                    /\ notices'[i].read <=> notices[i].read \/ notices[i].user = u
      BY <3>2, <3>3 DEF Notice
    <3> QED BY <1>1, <3>1, <3>4 DEF markAllRead
  <2>2. CASE u # Me
    BY <2>1, <2>2 DEF MovesAreSaid, UnreadOf
  <2>3. CASE u = Me
    BY <2>1, <2>3 DEF MovesAreSaid, UnreadOf
  <2> QED BY <2>2, <2>3
<1>2. ASSUME NEW i \in DOMAIN notices, markRead(p, u, i) PROVE MovesAreSaid
  <2>1. notices[i].user = u /\ signals' = signals
    BY <1>2 DEF markRead
  <2>2. CASE notices[i].read
    BY <1>2, <2>1, <2>2 DEF markRead, MovesAreSaid, UnreadOf
  <2>3. CASE ~ notices[i].read
    <3>1. notices' = [notices EXCEPT ![i].read = TRUE] /\ unsaid' = unsaid \cup {u}
      BY <1>2, <2>3 DEF markRead
    <3>2. /\ DOMAIN notices' = DOMAIN notices
          /\ \A j \in DOMAIN notices \ {i} : notices'[j] = notices[j]
          /\ notices'[i] = [notices[i] EXCEPT !.read = TRUE]
      BY <3>1
    <3>3. notices[i] \in Notice
      BY LenProperties, ElementOfSeq DEF NoticeTypeOK
    <3>4. notices'[i].user = notices[i].user
      BY <3>2, <3>3 DEF Notice
    <3>5. CASE u = Me
      BY <2>1, <3>1, <3>2, <3>5 DEF MovesAreSaid
    <3>6. CASE u # Me
      <4>1. UnreadOf(Me)' = UnreadOf(Me)
        BY <2>1, <3>2, <3>4, <3>6 DEF UnreadOf
      <4> QED BY <2>1, <3>1, <3>2, <4>1 DEF MovesAreSaid
    <3> QED BY <3>5, <3>6
  <2> QED BY <2>2, <2>3
<1> QED BY <1>1, <1>2

(* Every step of the server says so when it moves this person's rows.      *)
LEMMA ServerSays ==
    ASSUME NoticeInv, Clock \/ \E p \in Procs : NoticeStep(p)
    PROVE  MovesAreSaid
<1>1. CASE UNCHANGED <<notices, signals, unsaid>>
  BY <1>1 DEF MovesAreSaid, UnreadOf
<1>2. CASE Clock
  <2>1. UNCHANGED <<signals, unsaid>>
    BY <1>2 DEF Clock
  <2>2. CASE UNCHANGED notices
    BY <1>1, <2>1, <2>2
  <2>3. ASSUME NEW i \in DOMAIN notices, notices' = [notices EXCEPT ![i].recent = FALSE]
        PROVE  MovesAreSaid
    <3>1. notices[i] \in Notice
      BY LenProperties, ElementOfSeq DEF NoticeInv, NoticeTypeOK
    <3>2. /\ DOMAIN notices' = DOMAIN notices
          /\ \A j \in DOMAIN notices : /\ notices'[j].user = notices[j].user
                                       /\ notices'[j].read = notices[j].read
      BY <2>3, <3>1 DEF Notice
    <3> QED BY <2>1, <3>2 DEF MovesAreSaid, UnreadOf
  <2> QED BY <1>2, <2>2, <2>3 DEF Clock
<1>3. ASSUME NEW p \in Procs, NoticeStep(p) PROVE MovesAreSaid
  <2>1. CASE (\E u \in Users : BeginTell(p, u)) \/ BeginScan(p)
    BY <1>1, <2>1 DEF BeginTell, BeginScan, AdmitNotice, noticeRows
  <2>2. CASE removeAssignee(p) \/ ScanPage(p) \/ ScanSkip(p) \/ sendForCreated(p) \/ CrashScan(p)
    BY <1>1, <2>2 DEF removeAssignee, ScanPage, ScanSkip, sendForCreated, CrashScan, noticeRows
  <2>3. CASE emitUnreadChanged(p)
    <3>1. UNCHANGED notices /\ signals \cup unsaid \subseteq signals' \cup unsaid'
      BY <2>3 DEF emitUnreadChanged
    <3> QED BY <3>1 DEF MovesAreSaid, UnreadOf
  <2>4. CASE \E i \in DOMAIN notices : markRead(p, notices[i].user, i)
    BY <2>4, MarksAreSaid DEF NoticeInv
  <2>5. CASE CommitTell(p)
    <3> DEFINE job == noticeJob[p]
               type == IF job.op = "assign" THEN "assignment" ELSE "mention"
               S == {NewNotice(type, job.task, u) : u \in Told(job)}
    <3>1. CASE AlreadyAssigned(job)
      BY <1>1, <2>5, <3>1 DEF CommitTell, noticeRows
    <3>2. CASE ~ AlreadyAssigned(job)
      <4>1. notices' = Inserted(S) /\ unsaid' = unsaid \cup Told(job) /\ signals' = signals
        BY <2>5, <3>2 DEF CommitTell
      <4>2. job.task \in Tasks /\ Told(job) \subseteq Users /\ IsFiniteSet(Told(job))
        BY <2>5, JobFields, PairsFinite DEF CommitTell, NoticeInv, JobStands, Told
      <4>3. S \in SUBSET Notice /\ (Me \notin Told(job) => \A x \in S : x.user # Me)
        BY <4>2, NewNoticeIs
      <4>4. IsFiniteSet(S)
        <5> DEFINE f == [u \in Told(job) |-> NewNotice(type, job.task, u)]
        <5>1. S = {f[u] : u \in Told(job)} /\ DOMAIN f = Told(job) /\ f = [u \in Told(job) |-> f[u]]
          OBVIOUS
        <5> HIDE DEF f, S
        <5> QED BY <4>2, <5>1, ValuesFinite
      <4> HIDE DEF S
      <4> QED BY <4>1, <4>3, <4>4, OthersRows DEF MovesAreSaid, NoticeInv
    <3> QED BY <3>1, <3>2
  <2>6. CASE notifyBatch(p)
    <3> DEFINE job == noticeJob[p]
               fresh == {x \in job.skip : ~UnreadReminder(x)}
               S == {NewNotice("due_soon", x[1], x[2]) : x \in fresh}
    <3>1. notices' = Inserted(S) /\ unsaid' = unsaid \cup {x[2] : x \in fresh} /\ signals' = signals
      BY <2>6 DEF notifyBatch
    <3>2. fresh \in SUBSET Pairs /\ IsFiniteSet(fresh)
      BY JobFields, PairsFinite DEF NoticeInv
    <3>3. \A x \in fresh : x[1] \in Tasks /\ x[2] \in Users
      BY <3>2 DEF Pairs
    <3> HIDE DEF fresh
    <3>4. S \in SUBSET Notice /\ (Me \notin {x[2] : x \in fresh} => \A x \in S : x.user # Me)
      BY <3>3, NewNoticeIs
    <3>5. IsFiniteSet(S)
      <4> DEFINE f == [x \in fresh |-> NewNotice("due_soon", x[1], x[2])]
      <4>1. S = {f[x] : x \in fresh} /\ DOMAIN f = fresh /\ f = [x \in fresh |-> f[x]]
        OBVIOUS
      <4> HIDE DEF f, S
      <4> QED BY <3>2, <4>1, ValuesFinite
    <3> HIDE DEF S
    <3> QED BY <3>1, <3>4, <3>5, OthersRows DEF MovesAreSaid, NoticeInv
  <2> QED BY <1>3, <2>1, <2>2, <2>3, <2>4, <2>5, <2>6 DEF NoticeStep
<1> QED BY <1>2, <1>3

(* Steps the tab has no part in keep what it may trust.                    *)
LEMMA ElsewhereKeeps ==
    ASSUME BadgeInv, MovesAreSaid, UNCHANGED tabVars
    PROVE  BadgeInv'
<1>1. BadgeTypeOK'
  BY DEF BadgeInv, BadgeTypeOK, MovesAreSaid, tabVars
<1>2. ReadsAreCurrent'
  <2> SUFFICES ASSUME tabJoined, Me \notin signals' \cup unsaid' PROVE ReadsAreCurrent'
    BY DEF ReadsAreCurrent, tabVars
  <2>1. Me \notin signals \cup unsaid /\ UnreadOf(Me)' = UnreadOf(Me)
    BY DEF MovesAreSaid
  <2>2. \A r : Harmless(r)' <=> Harmless(r)
    BY <2>1 DEF Harmless
  <2> QED BY <2>1, <2>2 DEF BadgeInv, ReadsAreCurrent, tabVars
<1> QED BY <1>1, <1>2 DEF BadgeInv, tabVars

(* A read of the count, and one that has just been asked for.              *)
LEMMA ReadIs ==
    /\ \A c \in BOOLEAN, i, k \in SUBSET Nat :
          [counted |-> c, ids |-> i, covers |-> k]
             \in [counted : BOOLEAN, ids : SUBSET Nat, covers : SUBSET Nat]
    /\ AskedRead \in [counted : BOOLEAN, ids : SUBSET Nat, covers : SUBSET Nat]
    /\ AskedRead # NoRead /\ ~ AskedRead.counted /\ AskedRead.ids = {}
<1>1. \A c \in BOOLEAN, i, k \in SUBSET Nat :
         [counted |-> c, ids |-> i, covers |-> k]
            \in [counted : BOOLEAN, ids : SUBSET Nat, covers : SUBSET Nat]
  OBVIOUS
<1>2. PICK c \in BOOLEAN : c = FALSE
  OBVIOUS
<1>3. AskedRead = [counted |-> c, ids |-> {}, covers |-> {}]
  BY <1>2 DEF AskedRead
<1>4. AskedRead \in [counted : BOOLEAN, ids : SUBSET Nat, covers : SUBSET Nat]
  BY <1>1, <1>3
<1>5. ~ AskedRead.counted /\ AskedRead.ids = {}
  BY DEF AskedRead
<1> QED BY <1>1, <1>4, <1>5, BadgeAssumption

(* The tab starts with a badge of nothing or a read on its way.            *)
LEMMA InitBadge == BadgeInit => BadgeInv
<1> SUFFICES ASSUME BadgeInit PROVE BadgeInv
  OBVIOUS
<1>1. /\ ~ tabJoined /\ badge = 0 /\ shown = {} /\ visible = TRUE /\ replies = {}
      /\ reading \in {AskedRead, NoRead}
  BY DEF BadgeInit
<1>2. BadgeTypeOK
  <2>1. visible \in BOOLEAN /\ tabJoined \in BOOLEAN
    BY DEF BadgeInit
  <2> QED BY <1>1, <2>1, ReadIs DEF BadgeTypeOK
<1>3. reading # NoRead => reading \in [counted : BOOLEAN, ids : SUBSET Nat, covers : SUBSET Nat]
  BY <1>1, ReadIs
<1> QED BY <1>1, <1>2, <1>3 DEF BadgeInv, ReadsAreCurrent

(* This person's unread rows are rows, finitely many.                      *)
LEMMA UnreadFinite ==
    ASSUME NoticeTypeOK, NEW u
    PROVE  /\ UnreadOf(u) \subseteq DOMAIN notices /\ DOMAIN notices \in SUBSET Nat
           /\ \A S \in SUBSET DOMAIN notices : IsFiniteSet(S) /\ Cardinality(S) \in Nat
<1>1. DOMAIN notices = 1 .. Len(notices) /\ Len(notices) \in Nat
  BY LenProperties DEF NoticeTypeOK
<1>2. IsFiniteSet(DOMAIN notices)
  BY <1>1, FS_Interval
<1>3. \A S \in SUBSET DOMAIN notices : IsFiniteSet(S) /\ Cardinality(S) \in Nat
  BY <1>2, FS_Subset, FS_CardinalityType
<1>4. UnreadOf(u) \subseteq DOMAIN notices
  BY DEF UnreadOf
<1> QED BY <1>1, <1>3, <1>4

(* A read that starts has counted nothing yet.                             *)
LEMMA AsksAreFresh ==
    ASSUME BadgeInv, reading' = AskedRead,
           UNCHANGED <<notices, badge, shown, replies>>,
           tabJoined' \in BOOLEAN, visible' \in BOOLEAN
    PROVE  BadgeInv'
<1>1. AskedRead # NoRead /\ ~ AskedRead.counted /\ AskedRead.ids = {}
      /\ AskedRead \in [counted : BOOLEAN, ids : SUBSET Nat, covers : SUBSET Nat]
  BY ReadIs
<1>2. BadgeTypeOK'
  BY <1>1 DEF BadgeInv, BadgeTypeOK
<1>3. ReadsAreCurrent'
  BY <1>1 DEF ReadsAreCurrent
<1> QED BY <1>1, <1>2, <1>3 DEF BadgeInv

(* The server counts; what it knows by then, the tab need not subtract.    *)
LEMMA CountKeeps ==
    ASSUME NoticeInv, BadgeInv, CountUnread
    PROVE  BadgeInv'
<1> DEFINE read == [counted |-> TRUE, ids |-> UnreadOf(Me), covers |-> {r.id : r \in replies}]
<1>1. /\ reading' = read
      /\ UNCHANGED <<notices, signals, unsaid, badge, shown, tabJoined, visible, readFailed,
                     replies, miscounted>>
  BY DEF CountUnread, noticeVars, noticeRows
<1>2. UnreadOf(Me) \subseteq DOMAIN notices /\ DOMAIN notices \in SUBSET Nat
  BY UnreadFinite DEF NoticeInv
<1>3. {r.id : r \in replies} \subseteq Nat
  BY DEF BadgeInv
<1>4. read \in [counted : BOOLEAN, ids : SUBSET Nat, covers : SUBSET Nat]
  BY <1>2, <1>3
<1>5. read # NoRead
  BY <1>4, BadgeAssumption
<1>6. BadgeTypeOK'
  BY <1>1, <1>2 DEF BadgeInv, BadgeTypeOK
<1>7. ReadsAreCurrent'
  BY <1>1, <1>5 DEF ReadsAreCurrent, UnreadOf
<1> QED BY <1>1, <1>4, <1>6, <1>7 DEF BadgeInv

(* The answer is shown.                                                    *)
LEMMA ApplyKeeps ==
    ASSUME NoticeInv, BadgeInv, ApplyRead
    PROVE  BadgeInv'
<1> DEFINE sent(r) == [r EXCEPT !.late = @ \/ r.id \in reading.covers]
<1>1. /\ reading # NoRead /\ reading.counted
      /\ badge' = Cardinality(reading.ids) /\ shown' = reading.ids
      /\ replies' = {sent(r) : r \in replies} /\ reading' = NoRead
      /\ UNCHANGED <<notices, signals, unsaid, tabJoined, visible>>
  BY DEF ApplyRead, noticeVars, noticeRows
<1>2. reading.ids \subseteq DOMAIN notices /\ replies \in SUBSET [id : Nat, row : Nat, late : BOOLEAN]
  BY <1>1 DEF BadgeInv, BadgeTypeOK
<1>3. Cardinality(reading.ids) \in Nat
  BY <1>2, UnreadFinite DEF NoticeInv
<1>4. \A r \in replies : /\ sent(r) \in [id : Nat, row : Nat, late : BOOLEAN]
                         /\ sent(r).row = r.row
                         /\ r.late \/ r.id \in reading.covers => sent(r).late
  BY <1>2
<1> HIDE DEF sent
<1>5. BadgeTypeOK'
  BY <1>1, <1>2, <1>3 DEF BadgeInv, BadgeTypeOK
<1>6. ReadsAreCurrent'
  <2> SUFFICES ASSUME tabJoined, Me \notin signals \cup unsaid
               PROVE  badge' = Cardinality(UnreadOf(Me)') /\ \A r \in replies' : Harmless(r)'
    BY <1>1 DEF ReadsAreCurrent
  <2>1. /\ reading.ids = UnreadOf(Me)
        /\ \A r \in replies : r.id \in reading.covers \/ Harmless(r)
    BY <1>1 DEF BadgeInv, ReadsAreCurrent
  <2>2. UnreadOf(Me)' = UnreadOf(Me)
    BY <1>1 DEF UnreadOf
  <2>3. ASSUME NEW s \in replies' PROVE Harmless(s)'
    <3>1. PICK r \in replies : s = sent(r)
      BY <1>1
    <3>2. s.row = r.row /\ (r.late \/ r.id \in reading.covers => s.late)
      BY <1>4, <3>1
    <3>3. r.late \/ r.id \in reading.covers \/ (r.row = 0 /\ UnreadOf(Me) = {})
      BY <2>1 DEF Harmless
    <3> QED BY <2>2, <3>2, <3>3 DEF Harmless
  <2> QED BY <1>1, <2>1, <2>2, <2>3
<1>7. replies' \in SUBSET [id : Nat, row : Nat, late : BOOLEAN]
  BY <1>1, <1>4
<1> QED BY <1>1, <1>5, <1>6, <1>7 DEF BadgeInv

(* The answer to a mark corrects the number it finds.                      *)
LEMMA ReplyKeeps ==
    ASSUME NoticeInv, BadgeInv, Reply
    PROVE  BadgeInv'
<1>1. PICK r \in replies :
        /\ replies' = replies \ {r}
        /\ badge' = Corrected(r)
        /\ shown' = IF r.row = 0 THEN {} ELSE shown \ {r.row}
        /\ miscounted' = (miscounted \/ r.late)
        /\ UNCHANGED <<noticeVars, tabJoined, visible, reading, readFailed>>
  BY DEF Reply
<1>2. UNCHANGED <<notices, signals, unsaid>>
  BY <1>1 DEF noticeVars, noticeRows
<1>3. BadgeTypeOK'
  BY <1>1, <1>2 DEF BadgeInv, BadgeTypeOK, Corrected
<1>4. UnreadOf(Me)' = UnreadOf(Me)
  BY <1>2 DEF UnreadOf
<1>5. \A s : Harmless(s)' <=> Harmless(s)
  BY <1>4 DEF Harmless
<1>6. ReadsAreCurrent'
  <2>1. ASSUME tabJoined', Me \notin signals' \cup unsaid', reading' # NoRead, reading'.counted
        PROVE  /\ reading'.ids = UnreadOf(Me)'
               /\ \A s \in replies' : s.id \in reading'.covers \/ Harmless(s)'
    BY <1>1, <1>2, <1>4, <1>5, <2>1 DEF BadgeInv, ReadsAreCurrent
  <2>2. ASSUME tabJoined', Me \notin signals' \cup unsaid', reading' = NoRead, ~ readFailed', ~ miscounted'
        PROVE  badge' = Cardinality(UnreadOf(Me)') /\ \A s \in replies' : Harmless(s)'
    <3>1. \A s \in replies : Harmless(s)
      BY <1>1, <1>2, <2>2 DEF BadgeInv, ReadsAreCurrent
    <3>2. r.row = 0 /\ UnreadOf(Me) = {}
      BY <1>1, <2>2, <3>1 DEF Harmless
    <3>3. badge' = Cardinality(UnreadOf(Me)')
      BY <1>1, <1>4, <3>2, FS_EmptySet DEF Corrected
    <3> QED BY <1>1, <1>5, <3>1, <3>3
  <2> QED BY <2>1, <2>2 DEF ReadsAreCurrent
<1> QED BY <1>1, <1>3, <1>6 DEF BadgeInv

(* A mark of this tab: its answer can do no harm, or a signal is owed.     *)
LEMMA MarkOfTabKeeps ==
    ASSUME NoticeInv, BadgeInv, NEW p \in Procs, OpenNotification(p) \/ MarkAll(p)
    PROVE  BadgeInv'
<1>1. PICK new :
        /\ new \in [id : Nat, row : Nat, late : BOOLEAN]
        /\ replies' = replies \cup {new}
        /\ Me \notin unsaid' => Harmless(new)'
        /\ MovesAreSaid
        /\ UNCHANGED <<badge, shown, tabJoined, visible, reading, readFailed, miscounted>>
  <2>1. noticeRequests' \in Nat
    <3>1. noticeRequests' = noticeRequests + 1
      BY DEF OpenNotification, MarkAll, markRead, markAllRead
    <3> QED BY <3>1 DEF NoticeInv, NoticeTypeOK
  <2>2. CASE OpenNotification(p)
    <3>1. PICK i \in shown :
            /\ markRead(p, Me, i)
            /\ replies' = replies \cup {[id |-> noticeRequests', row |-> i, late |-> notices[i].read]}
            /\ UNCHANGED <<badge, shown, tabJoined, visible, reading, readFailed, miscounted>>
      BY <2>2 DEF OpenNotification
    <3>0. PICK n, late : n = noticeRequests' /\ late = notices[i].read
      OBVIOUS
    <3> DEFINE new == [id |-> n, row |-> i, late |-> late]
    <3>2. i \in DOMAIN notices /\ i \in Nat
      BY UnreadFinite DEF BadgeInv, BadgeTypeOK, NoticeInv
    <3>3. notices[i].read \in BOOLEAN
      <4>1. notices[i] \in Notice
        BY <3>2, LenProperties, ElementOfSeq DEF NoticeInv, NoticeTypeOK
      <4> QED BY <4>1 DEF Notice
    <3>4. Me \notin unsaid' => notices[i].read
      BY <3>1 DEF markRead
    <3>5. new \in [id : Nat, row : Nat, late : BOOLEAN] /\ (Me \notin unsaid' => new.late)
      <4>1. n \in Nat /\ i \in Nat /\ late \in BOOLEAN /\ (Me \notin unsaid' => late)
        BY <2>1, <3>0, <3>2, <3>3, <3>4
      <4> QED BY <4>1
    <3>6. Me \notin unsaid' => Harmless(new)'
      BY <3>5 DEF Harmless
    <3>7. MovesAreSaid
      BY <3>1, <3>2, MarksAreSaid DEF NoticeInv
    <3>8. replies' = replies \cup {new}
      BY <3>0, <3>1
    <3> HIDE DEF new
    <3> QED BY <3>1, <3>5, <3>6, <3>7, <3>8
  <2>3. CASE MarkAll(p)
    <3>0. PICK n, late : n = noticeRequests' /\ late = FALSE
      OBVIOUS
    <3> DEFINE new == [id |-> n, row |-> 0, late |-> late]
    <3>1. /\ markAllRead(p, Me) /\ replies' = replies \cup {new}
          /\ UNCHANGED <<badge, shown, tabJoined, visible, reading, readFailed, miscounted>>
      BY <2>3, <3>0 DEF MarkAll
    <3>2. new \in [id : Nat, row : Nat, late : BOOLEAN] /\ new.row = 0
      <4>1. n \in Nat /\ late \in BOOLEAN
        BY <2>1, <3>0
      <4> QED BY <4>1
    <3>3. MovesAreSaid
      BY <3>1, MarksAreSaid DEF NoticeInv
    <3>4. Me \notin unsaid' => UnreadOf(Me) = {} /\ signals' = signals
      BY <3>1 DEF markAllRead
    <3>5. Me \notin unsaid' => UnreadOf(Me)' = {}
      <4> SUFFICES ASSUME Me \notin unsaid', NEW i \in UnreadOf(Me)' PROVE FALSE
        OBVIOUS
      <4>1. notices' = [j \in DOMAIN notices |-> [notices[j] EXCEPT !.read = @ \/ notices[j].user = Me]]
        BY <3>1 DEF markAllRead
      <4>2. i \in DOMAIN notices /\ ~ notices'[i].read /\ notices'[i].user = Me
        BY <4>1 DEF UnreadOf
      <4>3. notices[i] \in Notice
        BY <4>2, LenProperties, ElementOfSeq DEF NoticeInv, NoticeTypeOK
      <4>4. notices'[i] = [notices[i] EXCEPT !.read = @ \/ notices[i].user = Me]
        BY <4>1, <4>2
      <4>5. notices'[i].user = notices[i].user /\ (notices[i].user = Me => notices'[i].read)
        BY <4>3, <4>4 DEF Notice
      <4> QED BY <4>2, <4>5
    <3> HIDE DEF new
    <3>6. Me \notin unsaid' => Harmless(new)'
      BY <3>2, <3>5 DEF Harmless
    <3> QED BY <3>1, <3>2, <3>3, <3>6
  <2> QED BY <2>2, <2>3
<1>2. BadgeTypeOK'
  BY <1>1 DEF BadgeInv, BadgeTypeOK, MovesAreSaid
<1>3. ReadsAreCurrent'
  <2> SUFFICES ASSUME tabJoined, Me \notin signals' \cup unsaid' PROVE ReadsAreCurrent'
    BY <1>1 DEF ReadsAreCurrent
  <2>1. Me \notin signals \cup unsaid /\ UnreadOf(Me)' = UnreadOf(Me)
    BY <1>1 DEF MovesAreSaid
  <2>2. \A r : Harmless(r)' <=> Harmless(r)
    BY <2>1 DEF Harmless
  <2> QED BY <1>1, <2>1, <2>2 DEF BadgeInv, ReadsAreCurrent
<1>4. replies' \in SUBSET [id : Nat, row : Nat, late : BOOLEAN]
  BY <1>1 DEF BadgeInv
<1> QED BY <1>1, <1>2, <1>3, <1>4 DEF BadgeInv

(* Every step of the tab keeps what it may trust.                          *)
LEMMA TabKeepsBadge ==
    ASSUME NoticeInv, BadgeInv, TabStep
    PROVE  BadgeInv'
<1>1. CASE FailRead
  <2>1. /\ reading' = NoRead /\ readFailed' = TRUE
        /\ UNCHANGED <<notices, badge, shown, tabJoined, visible, replies>>
    BY <1>1 DEF FailRead, noticeVars, noticeRows
  <2> QED BY <2>1 DEF BadgeInv, BadgeTypeOK, ReadsAreCurrent
<1>2. CASE Signalled \/ Resync \/ RoomDropped \/ Poll
  <2>1. /\ reading' = AskedRead /\ UNCHANGED <<notices, badge, shown, replies>>
        /\ tabJoined' \in {tabJoined, TRUE, FALSE} /\ visible' = visible
    BY <1>2 DEF Signalled, Resync, RoomDropped, Poll, noticeVars, noticeRows
  <2>2. tabJoined' \in BOOLEAN /\ visible' \in BOOLEAN
    BY <2>1 DEF BadgeInv, BadgeTypeOK
  <2> QED BY <2>1, <2>2, AsksAreFresh
<1>3. CASE VisibilityChange
  <2>1. /\ visible' = ~ visible /\ UNCHANGED <<notices, signals, unsaid, badge, shown, tabJoined,
                                              readFailed, replies, miscounted>>
        /\ reading' = AskedRead \/ reading' = reading
    BY <1>3 DEF VisibilityChange, noticeVars, noticeRows
  <2>2. tabJoined' \in BOOLEAN /\ visible' \in BOOLEAN
    BY <2>1 DEF BadgeInv, BadgeTypeOK
  <2>3. CASE reading' = reading
    <3>1. BadgeTypeOK'
      BY <2>1, <2>2, <2>3 DEF BadgeInv, BadgeTypeOK
    <3>2. ReadsAreCurrent'
      BY <2>1, <2>3 DEF BadgeInv, ReadsAreCurrent, Harmless, UnreadOf
    <3> QED BY <2>1, <2>3, <3>1, <3>2 DEF BadgeInv
  <2> QED BY <2>1, <2>2, <2>3, AsksAreFresh
<1>4. ASSUME NEW p \in Procs, OtherTab(p) PROVE BadgeInv'
  <2>1. UNCHANGED tabVars /\ (markAllRead(p, Me) \/ \E i \in DOMAIN notices : markRead(p, Me, i))
    BY <1>4 DEF OtherTab, UnreadOf
  <2>2. MovesAreSaid
    BY <2>1, MarksAreSaid DEF NoticeInv
  <2> QED BY <2>1, <2>2, ElsewhereKeeps
<1> QED BY <1>1, <1>2, <1>3, <1>4, CountKeeps, ApplyKeeps, ReplyKeeps, MarkOfTabKeeps DEF TabStep

-----------------------------------------------------------------------------
(* Inductive: what is owed to the members, and what the tab may trust.     *)
LEMMA NoticesAreSound == BadgeSpec => [](NoticeInv /\ BadgeInv)
<1>1. BadgeInit => NoticeInv /\ BadgeInv
  BY InitNotices, InitBadge DEF BadgeInit
<1>2. NoticeInv /\ BadgeInv /\ [BadgeNext]_badgeVars => NoticeInv' /\ BadgeInv'
  <2> SUFFICES ASSUME NoticeInv, BadgeInv, [BadgeNext]_badgeVars PROVE NoticeInv' /\ BadgeInv'
    OBVIOUS
  <2>1. ASSUME NEW p \in Procs, NoticeStep(p), UNCHANGED tabVars PROVE NoticeInv' /\ BadgeInv'
    BY <2>1, ServerKeepsNotices, ServerSays, ElsewhereKeeps
  <2>2. CASE Clock /\ UNCHANGED tabVars
    BY <2>2, WorldKeeps, ServerSays, ElsewhereKeeps
  <2>3. CASE TabStep
    BY <2>3, TabKeepsNotices, TabKeepsBadge DEF BadgeInv
  <2>4. CASE UNCHANGED badgeVars
    <3>1. UNCHANGED noticeVars /\ UNCHANGED tabVars
      BY <2>4 DEF badgeVars
    <3>2. NoticeInv'
      BY <3>1, JobsKept, UnmarkedIsMarked
         DEF noticeVars, noticeRows, noticeBounds, NoticeInv, NoticeTypeOK
    <3>3. MovesAreSaid
      BY <3>1 DEF noticeVars, noticeRows, MovesAreSaid, UnreadOf
    <3> QED BY <3>1, <3>2, <3>3, ElsewhereKeeps
  <2> QED BY <2>1, <2>2, <2>3, <2>4 DEF BadgeNext
<1> QED BY <1>1, <1>2, PTL DEF BadgeSpec

(* However many scans overlap, die and are tried again, a person has at    *)
(* most one unread reminder of a task and no more mails than reminders     *)
(* (but for pairs two scans met over), and when the server is quiet and no *)
(* scan died everyone whose unread rows moved has been signalled           *)
(* (due-soon.worker.ts, notification.service.ts, notification-mailer.ts).  *)
THEOREM RemindersAreSound == BadgeSpec => []NoticesSound
<1>1. ASSUME NoticeInv PROVE NoticesSound
  <2>1. OneMailPerRow
    <3> SUFFICES ASSUME NEW x \in Pairs \ lapped PROVE mailed[x] <= Cardinality(RemindersOf(x))
      BY DEF OneMailPerRow
    <3>1. mailed[x] + Cardinality(Mailing(x)) <= Cardinality(RemindersOf(x)) /\ mailed[x] \in Nat
      BY <1>1 DEF NoticeInv, NoticeTypeOK, MailsAreOwed
    <3>2. IsFiniteSet(Mailing(x)) /\ Cardinality(Mailing(x)) \in Nat
      BY PoolAssumption, FS_Subset, FS_CardinalityType DEF Mailing
    <3>3. Cardinality(RemindersOf(x)) \in Nat
      BY <1>1, RemindersFinite DEF NoticeInv, NoticeTypeOK
    <3> QED BY <3>1, <3>2, <3>3
  <2>2. QuietUsersAreTold
    BY <1>1 DEF NoticeInv, UnsaidIsOwed, QuietUsersAreTold
  <2> QED BY <1>1, <2>1, <2>2 DEF NoticeInv, NoticesSound
<1> QED BY <1>1, NoticesAreSound, PTL

(* Once the room is joined and nothing is under way, the badge is the      *)
(* number of unread rows, whatever the order in which marks, their         *)
(* answers, signals and reads arrived, unless an answer came late          *)
(* (use-notification-unread.ts, use-notification-menu.ts).                 *)
THEOREM BadgeIsSound == BadgeSpec => []BadgeSound
<1>1. NoticeInv /\ BadgeInv => BadgeSound
  BY DEF BadgeInv, ReadsAreCurrent, BadgeSound, BadgeIsCurrent, Settled
<1> QED BY <1>1, NoticesAreSound, PTL
=============================================================================
