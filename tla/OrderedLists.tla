---------------------------- MODULE OrderedLists ----------------------------
(***************************************************************************)
(* What the positions of a board are for, without positions: lists of      *)
(* items, each in one order, on which a step puts an item somewhere, takes *)
(* one out or drops a whole list, and never touches the order of the rest. *)
(***************************************************************************)
CONSTANTS Items, Lists, NoList,
          FirstMember, FirstAhead   \* the lists at first

VARIABLES open,    \* the lists there are
          member,  \* the list each item is in, or NoList
          ahead,   \* the pairs of items of one list, the first one ahead
          used     \* the items that were ever in a list

listVars == <<open, member, ahead, used>>

Pairs(m) == {p \in Items \X Items : p[1] # p[2] /\ m[p[1]] = m[p[2]] /\ m[p[1]] # NoList}

(* The order o lists every item of every list once.                        *)
Listing(m, o) ==
    /\ o \subseteq Pairs(m)
    /\ \A p \in Pairs(m) : p \in o <=> <<p[2], p[1]>> \notin o
    /\ \A p, q \in o : p[2] = q[1] => <<p[1], q[2]>> \in o

ListInit ==
    /\ open = Lists /\ member = FirstMember /\ ahead = FirstAhead
    /\ Listing(member, ahead)
    /\ used = {x \in Items : member[x] # NoList}

(* An item goes to some place of a list; the others keep their order.      *)
Others(x, o) == {p \in o : x \notin {p[1], p[2]}}

PutIn(x, l) ==
    /\ l \in open /\ member' = [member EXCEPT ![x] = l]
    /\ ahead' \in SUBSET (Items \X Items)
    /\ Others(x, ahead') = Others(x, ahead) /\ Listing(member', ahead')
    /\ UNCHANGED open

Insert(x, l) == x \notin used /\ used' = used \cup {x} /\ PutIn(x, l)

Move(x, l) == /\ member[x] # NoList /\ UNCHANGED used
              /\ member[x] # l \/ ahead' # ahead
              /\ PutIn(x, l)

(* The items go out of their lists.                                        *)
TakeOut(S) ==
    /\ member' = [x \in Items |-> IF x \in S THEN NoList ELSE member[x]]
    /\ ahead' = {pair \in ahead : pair[1] \notin S /\ pair[2] \notin S}
    /\ UNCHANGED used

Remove(x) == member[x] # NoList /\ TakeOut({x}) /\ UNCHANGED open

Close(l) ==
    /\ l \in open /\ open' = open \ {l}
    /\ TakeOut({x \in Items : member[x] = l})

ListNext == \/ \E x \in Items, l \in Lists : Insert(x, l) \/ Move(x, l)
            \/ \E x \in Items : Remove(x)
            \/ \E l \in Lists : Close(l)

ListSpec == ListInit /\ [][ListNext]_listVars
=============================================================================
