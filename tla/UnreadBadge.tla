---------------------------- MODULE UnreadBadge ----------------------------
(***************************************************************************)
(* The unread badge of one tab over the server's rows of Notices:          *)
(* use-notification-unread.ts, notification-unread-provider.tsx,           *)
(* use-poll-fallback.ts and the marks of use-notification-menu.ts and      *)
(* notifications-list.tsx, which correct the number without a round trip.  *)
(*                                                                         *)
(* The answer to a mark, the signal it causes and the read that signal     *)
(* causes travel separately.  A newer read aborts an older one.            *)
(***************************************************************************)
EXTENDS Notices

CONSTANTS Me,         \* the person at the tab
          NoRead,
          MaxFaults   \* bound: dropped rooms, failed reads, hidden tabs

ASSUME BadgeAssumption ==
    /\ Me \in Users
    /\ NoRead \notin [counted : BOOLEAN, ids : SUBSET Nat, covers : SUBSET Nat]

VARIABLES badge,      \* count
          shown,      \* notifications the tab shows as unread
          tabJoined,  \* the notification room is joined
          visible,    \* document.visibilityState
          reading,    \* the read that is not aborted, or NoRead
          readFailed, \* the last read failed: the count was kept
          replies,    \* answers to marks of this tab on their way
          miscounted, \* a correction hit a count that already had it
          faults

tabVars == <<badge, shown, tabJoined, visible, reading, readFailed, replies, miscounted, faults>>
badgeVars == <<noticeVars, tabVars>>

(* A read before and after the server has counted.                         *)
AskedRead == [counted |-> FALSE, ids |-> {}, covers |-> {}]

BadgeInit ==
    /\ NoticesInit
    /\ badge = 0 /\ shown = {} /\ tabJoined = FALSE /\ visible = TRUE
    /\ reading = IF "badge" \in kinds THEN AskedRead ELSE NoRead
    /\ readFailed = FALSE /\ replies = {} /\ miscounted = FALSE /\ faults = 0

-----------------------------------------------------------------------------
(* The read: useApiResource with keepStaleOnError.                         *)

CountUnread ==
    /\ reading # NoRead /\ ~reading.counted
    /\ reading' = [counted |-> TRUE, ids |-> UnreadOf(Me), covers |-> {r.id : r \in replies}]
    /\ UNCHANGED <<noticeVars, badge, shown, tabJoined, visible, readFailed, replies,
                   miscounted, faults>>

(* The marks the count already knew of will be subtracted a second time.   *)
ApplyRead ==
    /\ reading # NoRead /\ reading.counted
    /\ badge' = Cardinality(reading.ids)
    /\ shown' = reading.ids
    /\ replies' = {[r EXCEPT !.late = @ \/ r.id \in reading.covers] : r \in replies}
    /\ reading' = NoRead
    /\ readFailed' = FALSE
    /\ miscounted' = FALSE
    /\ UNCHANGED <<noticeVars, tabJoined, visible, faults>>

(* Faulty variant: a failed read blanks the badge.                         *)
FailReadBlank ==
    /\ reading # NoRead /\ faults < MaxFaults
    /\ faults' = faults + 1
    /\ reading' = NoRead
    /\ badge' = 0
    /\ UNCHANGED <<noticeVars, shown, tabJoined, visible, readFailed, replies, miscounted>>

FailRead ==
    /\ reading # NoRead /\ faults < MaxFaults
    /\ faults' = faults + 1
    /\ reading' = NoRead
    /\ readFailed' = TRUE
    /\ UNCHANGED <<noticeVars, badge, shown, tabJoined, visible, replies, miscounted>>

-----------------------------------------------------------------------------
(* The room: a signal, a join and a lost join each start a read.           *)

Signalled ==
    /\ tabJoined /\ Me \in signals
    /\ signals' = signals \ {Me}
    /\ reading' = AskedRead
    /\ UNCHANGED <<noticeBounds, noticeJob, assigned, due, notices, mailed, lapped, unsaid,
                   badge, shown, tabJoined, visible, readFailed, replies, miscounted, faults>>

(* Faulty variant: a join starts no read.                                  *)
ResyncLazy ==
    /\ "badge" \in kinds /\ ~tabJoined
    /\ tabJoined' = TRUE
    /\ signals' = signals \ {Me}
    /\ UNCHANGED <<noticeBounds, noticeJob, assigned, due, notices, mailed, lapped, unsaid, reading,
                   badge, shown, visible, readFailed, replies, miscounted, faults>>

(* A (re)join replays nothing: what was said before it is lost.            *)
Resync ==
    /\ "badge" \in kinds /\ ~tabJoined
    /\ tabJoined' = TRUE
    /\ signals' = signals \ {Me}
    /\ reading' = AskedRead
    /\ UNCHANGED <<noticeBounds, noticeJob, assigned, due, notices, mailed, lapped, unsaid,
                   badge, shown, visible, readFailed, replies, miscounted, faults>>

RoomDropped ==
    /\ tabJoined /\ faults < MaxFaults
    /\ faults' = faults + 1
    /\ tabJoined' = FALSE
    /\ signals' = signals \ {Me}
    /\ reading' = AskedRead
    /\ UNCHANGED <<noticeBounds, noticeJob, assigned, due, notices, mailed, lapped, unsaid,
                   badge, shown, visible, readFailed, replies, miscounted>>

(* usePollFallback: a timer while the room is not joined and the tab is    *)
(* visible.                                                                *)
Poll ==
    /\ "badge" \in kinds /\ ~tabJoined /\ visible
    /\ reading' = AskedRead
    /\ UNCHANGED <<noticeVars, badge, shown, tabJoined, visible, readFailed, replies,
                   miscounted, faults>>

(* A tab that comes back reads at once while the room is not joined.       *)
VisibilityChange ==
    /\ "badge" \in kinds
    /\ IF visible THEN faults < MaxFaults /\ faults' = faults + 1
                  ELSE UNCHANGED faults
    /\ visible' = ~visible
    /\ reading' = IF ~visible /\ ~tabJoined THEN AskedRead ELSE reading
    /\ UNCHANGED <<noticeVars, badge, shown, tabJoined, readFailed, replies, miscounted>>

-----------------------------------------------------------------------------
(* Marks of this tab, and of another tab of the same person.               *)

(* A row the tab shows as unread is posted, whatever the server has.       *)
OpenNotification(p) ==
    \E i \in shown :
        /\ markRead(p, Me, i)
        /\ replies' = replies \cup {[id |-> noticeRequests', row |-> i,
                                     late |-> notices[i].read]}
        /\ UNCHANGED <<badge, shown, tabJoined, visible, reading, readFailed, miscounted, faults>>

MarkAll(p) ==
    /\ "badge" \in kinds
    /\ markAllRead(p, Me)
    /\ replies' = replies \cup {[id |-> noticeRequests', row |-> 0, late |-> FALSE]}
    /\ UNCHANGED <<badge, shown, tabJoined, visible, reading, readFailed, miscounted, faults>>

OtherTab(p) ==
    /\ "badge" \in kinds
    /\ markAllRead(p, Me) \/ \E i \in UnreadOf(Me) : markRead(p, Me, i)
    /\ UNCHANGED tabVars

(* setUnreadCount(0), or one less and never below zero.                    *)
Corrected(r) == IF r.row = 0 \/ badge = 0 THEN 0 ELSE badge - 1

(* The answer arrives.  It is wrong to subtract what was never counted     *)
(* or has been subtracted, and to clear what came since.                   *)
Reply ==
    \E r \in replies :
        /\ replies' = replies \ {r}
        /\ badge' = Corrected(r)
        /\ shown' = IF r.row = 0 THEN {} ELSE shown \ {r.row}
        /\ miscounted' = (miscounted \/ r.late)
        /\ UNCHANGED <<noticeVars, tabJoined, visible, reading, readFailed, faults>>

TabStep == \/ CountUnread \/ ApplyRead \/ FailRead
           \/ Signalled \/ Resync \/ RoomDropped
           \/ Poll \/ VisibilityChange \/ Reply
           \/ (\E p \in Procs : OpenNotification(p) \/ MarkAll(p) \/ OtherTab(p))

BadgeNext == \/ (\E p \in Procs : NoticeStep(p)) /\ UNCHANGED tabVars
             \/ Clock /\ UNCHANGED tabVars
             \/ TabStep

BadgeSpec == BadgeInit /\ [][BadgeNext]_badgeVars

(* A request that was admitted ends, a message that was sent arrives, and  *)
(* the timer of a visible tab without a room fires.                        *)
ServerMoves == /\ \E p \in Procs : CommitTell(p) \/ emitUnreadChanged(p)
               /\ UNCHANGED tabVars

BadgeFairness == /\ WF_badgeVars(ServerMoves)
                 /\ SF_badgeVars(CountUnread) /\ SF_badgeVars(ApplyRead)
                 /\ WF_badgeVars(Signalled) /\ WF_badgeVars(Reply) /\ WF_badgeVars(Poll)
-----------------------------------------------------------------------------
(* The tab's state keeps its type, and the badge is never negative.        *)
BadgeTypeOK ==
    /\ badge \in Nat
    /\ shown \subseteq DOMAIN notices
    /\ tabJoined \in BOOLEAN /\ visible \in BOOLEAN
    /\ reading # NoRead => reading.ids \subseteq DOMAIN notices

(* Nothing about the count is under way.                                   *)
Settled == /\ "badge" \in kinds
           /\ tabJoined /\ reading = NoRead /\ ~readFailed /\ replies = {}
           /\ Me \notin signals /\ Me \notin unsaid

(* Once the room is joined and nothing is under way, the badge is the      *)
(* server's count, unless the answer to a mark of this tab came after the  *)
(* read which that very mark had caused.                                   *)
BadgeIsCurrent == (Settled /\ ~miscounted) => badge = Cardinality(UnreadOf(Me))

(* With or without the room, a visible badge comes to the server's count   *)
(* when the traffic stops, if the last read of a joined tab did not fail.  *)
BadgeCatchesUp ==
    <>[](("badge" \in kinds /\ visible /\ ~(tabJoined /\ readFailed))
            => (miscounted \/ badge = Cardinality(UnreadOf(Me))))

(* An answer is harmless when it is known to be late, or when it clears a  *)
(* count of nothing.                                                       *)
Harmless(r) == r.late \/ (r.row = 0 /\ UnreadOf(Me) = {})

(* With the room joined and no signal owed, a counted read has the rows    *)
(* that are unread now, and knows of every answer that could do harm; when *)
(* it has been shown, so does the badge.                                   *)
ReadsAreCurrent ==
    tabJoined /\ Me \notin signals \cup unsaid =>
       /\ reading # NoRead /\ reading.counted =>
             /\ reading.ids = UnreadOf(Me)
             /\ \A r \in replies : r.id \in reading.covers \/ Harmless(r)
       /\ reading = NoRead /\ ~readFailed /\ ~miscounted =>
             /\ badge = Cardinality(UnreadOf(Me))
             /\ \A r \in replies : Harmless(r)

BadgeInv == /\ BadgeTypeOK /\ ReadsAreCurrent
            /\ replies \in SUBSET [id : Nat, row : Nat, late : BOOLEAN]
            /\ reading # NoRead => reading \in [counted : BOOLEAN, ids : SUBSET Nat, covers : SUBSET Nat]

(* The tab keeps its types and a settled badge is the count.               *)
BadgeSound == BadgeTypeOK /\ BadgeIsCurrent
=============================================================================
