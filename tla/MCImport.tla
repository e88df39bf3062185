------------------------------ MODULE MCImport ------------------------------
(* The exports of the import's instance: two lists, two cards, a checklist with two items; or one list and card  *)
(* with labels and attachments.                                            *)
EXTENDS TrelloImport, TLC

Section(rows) == [absent |-> FALSE, rows |-> rows]

List(id, pos, kind) == [id |-> id, pos |-> pos, closed |-> kind = "archived",
                        named |-> kind # "unnamed", typed |-> kind # "unread"]
Shapes == {"good", "archived", "unnamed", "unread"}

Card(id, pos, kind, idList, labels, files) ==
    [id |-> id, pos |-> pos, closed |-> kind = "archived", named |-> kind # "unnamed",
     typed |-> kind # "unread", long |-> kind = "long", idList |-> idList,
     idLabels |-> labels, attachments |-> files]

Item(id, pos, kind) == [id |-> id, pos |-> pos, named |-> kind # "unnamed", typed |-> kind # "unread"]

Checklist(id, kind, idCard, items) ==
    [id |-> id, pos |-> 0, named |-> kind # "unnamed", typed |-> kind # "unread",
     idCard |-> idCard, items |-> items]

Label(id, kind) == [id |-> id, typed |-> kind # "unread", long |-> kind = "unnamed"]
File(id, url) == [id |-> id, url |-> url, pos |-> 0]

Items == <<Item(42, 1, "good"), Item(41, 1, "good"), Item(43, 0, "unnamed"), Item(44, 0, "unread")>>

Structures ==
    {[lists |-> Section(<<List(12, 0, "good"), List(11, pos, l)>>),
      cards |-> Section(<<Card(22, 1, "good", 12, << >>, << >>), Card(21, p2, c, on, << >>, << >>)>>),
      labels |-> Section(<< >>),
      checklists |-> Section(<<k>>)] :
        pos \in {0, 2}, l \in Shapes, p2 \in {0, 1}, c \in Shapes \cup {"long"}, on \in {11, 12, 19},
        k \in {Checklist(31, "good", 21, Items), Checklist(31, "unnamed", 21, Items),
               Checklist(31, "unread", 21, Items), Checklist(31, "good", 29, Items),
               Checklist(31, "good", 21, << >>)}}

Decorated ==
    {[lists |-> Section(<<List(11, 1, "good")>>),
      cards |-> [absent |-> b, rows |-> <<Card(21, 1, c, 11, labels, <<File(61, u), File(62, "web")>>)>>],
      labels |-> [absent |-> a, rows |-> <<Label(51, k), Label(52, "good")>>],
      checklists |-> Section(<< >>)] :
        c \in {"good", "unread"}, labels \in {<<51, 52, 51>>, <<59>>},
        u \in {"web", "none", "broken", "scheme"}, a \in BOOLEAN, b \in BOOLEAN,
        k \in {"good", "unnamed", "unread"}}

(* One list more than is accepted.                                         *)
Oversized == [lists |-> Section(<<List(11, 1, "good"), List(12, 1, "good"), List(13, 1, "good")>>),
              cards |-> Section(<< >>), labels |-> Section(<< >>), checklists |-> Section(<< >>)]

MCExports == Structures \cup Decorated \cup {Oversized}

(* Digests in the order of the ids, and in the opposite one.               *)
MCHashes == {[i \in 1..9 |-> i], [i \in 1..9 |-> 10 - i]}
=============================================================================
