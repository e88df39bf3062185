----------------------------- MODULE MCNotices -----------------------------
(* Scans and mails, or one tab's badge under assignments, mentions and     *)
(* marks.                                                                  *)
EXTENDS UnreadBadge, TLC

MCAssigned == {<<1, 1>>, <<2, 1>>, <<2, 2>>}
MCKinds == {{"scan"}, {"assign", "badge"}, {"comment", "badge"}}

Spec == BadgeSpec /\ BadgeFairness
=============================================================================
