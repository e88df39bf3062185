----------------------------- MODULE TaskPanel -----------------------------
(***************************************************************************)
(* The card behind an open task panel: the board's copy of one task, the   *)
(* panel's detail read and the sections that write to it - checklists      *)
(* (use-task-checklists.ts), title and description (task-panel-fields.tsx),*)
(* properties and labels (task-properties-panel.tsx) - while room events   *)
(* and board reads refresh the same copy.                                  *)
(*                                                                         *)
(* A call is sent, handled by the server and answered, three steps; an     *)
(* answer may be lost after the server wrote.  The tab is connected, so    *)
(* every announced write is followed by a read.                            *)
(***************************************************************************)
EXTENDS Integers, FiniteSets

CONSTANTS Items, Labels,  \* ids of checklist items and of the board's labels
          StartItems,     \* the items of the task at first
          Texts,          \* titles, descriptions and priorities; "" is none
          SectionSets,    \* the kinds of writes used together
          MaxWork         \* bound: writes of the panel and of others, reads of
                          \* the board's list and calls that fail, together

ASSUME PanelAssumption ==
    /\ IsFiniteSet(Items) /\ StartItems \subseteq Items /\ IsFiniteSet(Labels) /\ "" \in Texts
    /\ MaxWork \in Nat

VARIABLES task,       \* the server's row
          palette,    \* the labels of its board
          edits,      \* writes so far
          card,       \* the tasks cache's copy
          calls,
          toasts,     \* failed saves that offer a retry
          echo,       \* an event is on its way or its debounce runs
          failedRead, \* failedTaskId
          draft,      \* title and description fields
          typed,      \* history: the fields typed into since they were synced
          newest,     \* history: the newest answer applied, or missed
          raced,      \* history: an older one was applied over it, or the
                      \* read that follows an event failed
          section,
          work

panelVars == <<task, palette, edits, card, calls, toasts, echo, failedRead, draft,
               typed, newest, raced, section, work>>

ListWrites == {"tick", "add", "remove"}
WriteKinds == ListWrites \cup {"save", "field", "label", "drop"}

NotLoaded == [loaded |-> FALSE, items |-> {}, done |-> {}]
summarize(l) == [total |-> Cardinality(l.items), done |-> Cardinality(l.done)]

(* toTaskDetailDto, and the row of a list read, which has the summary only. *)
Detail(t) == [lists |-> [loaded |-> TRUE, items |-> t.items, done |-> t.done],
              sum |-> summarize(t), labels |-> t.labels,
              title |-> t.title, text |-> t.text, prio |-> t.prio]
Row(t) == [Detail(t) EXCEPT !.lists = NotLoaded]

NoArg == [id |-> "", on |-> FALSE, title |-> "", text |-> "", prio |-> ""]
Blank == [lists |-> NotLoaded, sum |-> summarize(NotLoaded), labels |-> {},
          title |-> "", text |-> "", prio |-> ""]
Read(kind) == [kind |-> kind, arg |-> NoArg, phase |-> "sent", prev |-> Blank,
               base |-> 0, typed |-> {}, dto |-> Blank, ver |-> 0]
Write(kind, arg) ==
    [Read(kind) EXCEPT !.arg = arg, !.prev = card, !.typed = typed,
                         !.base = IF raced THEN -1 ELSE newest]

(* A panel opens with its read out.                                         *)
PanelWith(reads, failed) ==
    /\ \E t \in Texts \ {""} :
          task = [items |-> StartItems, done |-> {}, labels |-> {}, title |-> t,
                  text |-> "", prio |-> ""]
    /\ palette = Labels /\ edits = 0 /\ card = Row(task)
    /\ newest = 0 /\ raced = FALSE
    /\ draft = [title |-> task.title, text |-> task.text] /\ typed = {}
    /\ calls = reads /\ failedRead = failed
    /\ toasts = {} /\ echo = FALSE /\ section \in SectionSets /\ work = 0

PanelInit == PanelWith({Read("detail")}, FALSE)

Spend == work < MaxWork /\ work' = work + 1

loading == ~card.lists.loaded /\ ~failedRead

(* What a render of the new copy brings with it: the detail read starts or  *)
(* is aborted when needsDetail changes, and the fields take over a title or *)
(* description that changed.                                                *)
TakeOver(new) ==
    IF new.title # card.title \/ new.text # card.text
    THEN draft' = [title |-> new.title, text |-> new.text] /\ typed' = {}
    ELSE UNCHANGED <<draft, typed>>

Show(new, out) ==
    /\ card' = new
    /\ calls' = IF new.lists.loaded THEN {c \in out : c.kind # "detail"}
                ELSE IF card.lists.loaded THEN out \cup {Read("detail")}
                ELSE out
    /\ TakeOver(new)

-----------------------------------------------------------------------------
(* The sections.                                                            *)
Out(kinds) == \E c \in calls : c.kind \in kinds

Send(kind, arg, shown) ==
    /\ kind \in section /\ Spend
    /\ Show(shown, calls \cup {Write(kind, arg)})
    /\ UNCHANGED <<task, palette, edits, echo, failedRead, newest, raced,
                   section>>

(* The lists' controls show once the lists are there and no write is out.   *)
ListsOffered == ~loading /\ ~failedRead /\ ~Out(ListWrites)

ticked(l, i, on) == [l EXCEPT !.done = IF on THEN @ \cup {i} ELSE @ \ {i}]

TickedShown(i, on) ==
    [card EXCEPT !.lists = ticked(@, i, on), !.sum = summarize(ticked(card.lists, i, on))]

toggleItem(i) ==
    /\ ListsOffered /\ i \in card.lists.items
    /\ LET on == i \notin card.lists.done
       IN Send("tick", [NoArg EXCEPT !.id = i, !.on = on], TickedShown(i, on))
    /\ UNCHANGED toasts

addItem(i) ==
    /\ ListsOffered /\ i \notin task.items
    /\ Send("add", [NoArg EXCEPT !.id = i], card) /\ UNCHANGED toasts

removeItem(i) ==
    /\ ListsOffered /\ i \in card.lists.items
    /\ Send("remove", [NoArg EXCEPT !.id = i], card) /\ UNCHANGED toasts

Type(f, v) ==
    /\ "save" \in section /\ ~Out({"save"}) /\ draft[f] # v
    /\ draft' = [draft EXCEPT ![f] = v] /\ typed' = typed \cup {f}
    /\ UNCHANGED <<task, palette, edits, card, calls, toasts, echo, failedRead,
                   newest, raced, section, work>>

(* The blur that saves; a retry runs the failed save's closure again.       *)
save ==
    /\ draft.title # "" /\ draft # [title |-> card.title, text |-> card.text]
    /\ Send("save", [NoArg EXCEPT !.title = draft.title, !.text = draft.text],
            [card EXCEPT !.title = draft.title, !.text = draft.text])
    /\ UNCHANGED toasts

RetrySave(c) ==
    /\ Spend /\ toasts' = toasts \ {c}
    /\ Show([card EXCEPT !.title = c.arg.title, !.text = c.arg.text],
            calls \cup {[c EXCEPT !.phase = "sent"]})
    /\ UNCHANGED <<task, palette, edits, echo, failedRead, newest, raced,
                   section>>

patchTask(v) ==
    /\ ~Out({"field"}) /\ v # card.prio
    /\ Send("field", [NoArg EXCEPT !.prio = v], card) /\ UNCHANGED toasts

LabelBusy(l) == \E c \in calls : c.kind \in {"label", "drop"} /\ c.arg.id = l

toggleLabel(l) ==
    /\ ~LabelBusy(l)
    /\ Send("label", [NoArg EXCEPT !.id = l, !.on = l \notin card.labels], card)
    /\ UNCHANGED toasts

deleteBoardLabel(l) ==
    /\ ~LabelBusy(l)
    /\ Send("drop", [NoArg EXCEPT !.id = l], card) /\ UNCHANGED toasts

-----------------------------------------------------------------------------
(* The server.                                                              *)
ItemWrite(kind, a, t) ==
    CASE kind = "tick" -> [ok |-> a.id \in t.items, row |-> ticked(t, a.id, a.on)]
      [] kind = "add" -> [ok |-> TRUE, row |-> [t EXCEPT !.items = @ \cup {a.id}]]
      [] kind = "remove" -> [ok |-> a.id \in t.items,
             row |-> [t EXCEPT !.items = @ \ {a.id}, !.done = @ \ {a.id}]]

TaskLabelWrite(a, t) ==
    [ok |-> a.id \in palette /\ (a.on <=> a.id \notin t.labels),
     row |-> [t EXCEPT !.labels = IF a.on THEN @ \cup {a.id} ELSE @ \ {a.id}]]

LabelRemove(a, t) ==
    [ok |-> a.id \in palette, row |-> [t EXCEPT !.labels = @ \ {a.id}]]

(* planTaskUpdate: the fields that were sent.                               *)
planTaskUpdate(kind, a, t) ==
    IF kind = "save" THEN [t EXCEPT !.title = a.title, !.text = a.text]
                     ELSE [t EXCEPT !.prio = a.prio]

Written(kind, a) ==
    CASE kind \in ListWrites -> ItemWrite(kind, a, task)
      [] kind = "label" -> TaskLabelWrite(a, task)
      [] kind = "drop" -> LabelRemove(a, task)
      [] OTHER -> [ok |-> TRUE, row |-> planTaskUpdate(kind, a, task)]

(* One commit.  An update that changes nothing writes and announces         *)
(* nothing; the removal of a label is announced to nobody.                  *)
Commit(kind, a) ==
    LET new == Written(kind, a).row
        quiet == kind \in {"save", "field"} /\ new = task
    IN /\ task' = new
       /\ palette' = IF kind = "drop" THEN palette \ {a.id} ELSE palette
       /\ edits' = IF quiet THEN edits ELSE edits + 1
       /\ echo' = (echo \/ ~(quiet \/ kind = "drop"))

Phase(c, p) == calls' = (calls \ {c}) \cup {p}

ServeWrite(c) ==
    /\ c.phase = "sent" /\ c.kind \in WriteKinds /\ Written(c.kind, c.arg).ok
    /\ Commit(c.kind, c.arg)
    /\ \/ Phase(c, [c EXCEPT !.phase = "ok", !.dto = Detail(task'), !.ver = edits'])
          /\ UNCHANGED work
       \/ Spend /\ c.kind # "drop"
          /\ Phase(c, [c EXCEPT !.phase = "failed"])
    /\ UNCHANGED <<card, toasts, failedRead, draft, typed, newest, raced,
                   section>>

ServeRead(c) ==
    /\ c.phase = "sent" /\ c.kind \notin WriteKinds
    /\ Phase(c, [c EXCEPT !.phase = "ok", !.ver = edits,
                          !.dto = IF c.kind = "board" THEN Row(task) ELSE Detail(task)])
    /\ UNCHANGED <<task, palette, edits, card, toasts, echo, failedRead, draft,
                   typed, newest, raced, section, work>>

Refuse(c) ==
    /\ c.phase = "sent"
    /\ \/ c.kind \in WriteKinds /\ ~Written(c.kind, c.arg).ok /\ UNCHANGED work
       \/ Spend
    /\ Phase(c, [c EXCEPT !.phase = "failed"])
    /\ UNCHANGED <<task, palette, edits, card, toasts, echo, failedRead, draft,
                   typed, newest, raced, section>>

RemoteWrite(kind, a) ==
    /\ Spend
    /\ Written(kind, a).ok /\ Written(kind, a).row # task /\ Commit(kind, a)
    /\ UNCHANGED <<card, calls, toasts, failedRead, draft, typed, newest,
                   raced, section>>

-----------------------------------------------------------------------------
(* What comes back.                                                         *)
Patched(c) ==
    IF c.kind = "drop" THEN [c.prev EXCEPT !.labels = @ \ {c.arg.id}] ELSE c.dto

(* deleteBoardLabel puts back the card its closure saw: older than what was *)
(* applied since, short of what another wrote in between, or with a change  *)
(* in it that has been taken back.                                          *)
PutsBackOlder(c) ==
    c.base # newest \/ c.ver # c.base + 1 \/ [card EXCEPT !.labels = c.prev.labels] # c.prev

Answered(c) ==
    /\ c.phase = "ok"
    /\ Show(Patched(c), calls \ {c})
    /\ newest' = (IF c.ver > newest THEN c.ver ELSE newest)
    /\ raced' = (c.ver < newest \/ (c.kind = "drop" /\ (raced \/ PutsBackOlder(c))))
    /\ failedRead' = (failedRead /\ c.kind # "detail")
    /\ UNCHANGED <<task, palette, edits, toasts, echo, section, work>>

(* Faulty variant: a refused tick stays on the card.                        *)
RolledBackNot(c) ==
    CASE c.kind = "save" -> [card EXCEPT !.title = c.prev.title, !.text = c.prev.text]
      [] c.kind = "field" -> [card EXCEPT !.prio = c.prev.prio]
      [] OTHER -> card

RolledBack(c) ==
    CASE c.kind = "tick" -> [card EXCEPT !.lists = c.prev.lists, !.sum = c.prev.sum]
      [] c.kind = "save" -> [card EXCEPT !.title = c.prev.title, !.text = c.prev.text]
      [] c.kind = "field" -> [card EXCEPT !.prio = c.prev.prio]
      [] OTHER -> card

Failed(c) ==
    /\ c.phase = "failed"
    /\ Show(RolledBack(c), calls \ {c})
    /\ raced' = (raced \/ c.kind = "upsert"
                     \/ (c.kind \in {"tick", "save", "field"} /\ c.base < newest))
    /\ newest' = (IF c.kind = "upsert" THEN edits ELSE newest)
    /\ toasts' = IF c.kind = "save" THEN toasts \cup {c} ELSE toasts
    /\ failedRead' = (failedRead \/ c.kind = "detail")
    /\ UNCHANGED <<task, palette, edits, echo, section, work>>

(* The debounced read after an event, and a read of the whole list.         *)
Upsert ==
    /\ echo /\ echo' = FALSE /\ calls' = calls \cup {Read("upsert")}
    /\ UNCHANGED <<task, palette, edits, card, toasts, failedRead, draft,
                   typed, newest, raced, section, work>>

Reload ==
    /\ Spend
    /\ calls' = calls \cup {Read("board")}
    /\ UNCHANGED <<task, palette, edits, card, toasts, echo, failedRead, draft,
                   typed, newest, raced, section>>

User == \/ \E i \in Items : toggleItem(i) \/ addItem(i) \/ removeItem(i)
        \/ \E f \in {"title", "text"}, v \in Texts : Type(f, v)
        \/ save
        \/ \E c \in toasts : RetrySave(c)
        \/ \E v \in Texts : patchTask(v)
        \/ \E l \in Labels : toggleLabel(l) \/ deleteBoardLabel(l)

Others == \/ \E i \in Items, on \in BOOLEAN :
                RemoteWrite("tick", [NoArg EXCEPT !.id = i, !.on = on])
          \/ \E v \in Texts : RemoteWrite("save", [NoArg EXCEPT !.title = task.title, !.text = v])

Network == \E c \in calls : ServeWrite(c) \/ ServeRead(c) \/ Refuse(c) \/ Answered(c) \/ Failed(c)

PanelNext == User \/ Others \/ Network \/ Upsert \/ Reload

(* The server handles what it gets and the browser hands over the answer.   *)
PanelFairness == WF_panelVars(Network) /\ WF_panelVars(Upsert)

-----------------------------------------------------------------------------
(* The row, the card, the calls and the fields keep their shape.            *)
PanelTypeOK ==
    /\ task.done \subseteq task.items /\ task.items \subseteq Items
    /\ task.labels \subseteq palette /\ palette \subseteq Labels
    /\ card.lists.done \subseteq card.lists.items
    /\ draft \in [title : Texts, text : Texts] /\ typed \subseteq {"title", "text"}
    /\ {c.kind : c \in calls} \subseteq WriteKinds \cup {"detail", "upsert", "board"}
    /\ {c.kind : c \in toasts} \subseteq {"save"}
    /\ newest <= edits

(* The badge counts what the panel shows: whenever the lists are on the     *)
(* card, the summary beside them is their count, through every optimistic   *)
(* tick, rollback, event and reload (use-task-checklists.ts:63).            *)
SummaryMatchesLists == card.lists.loaded => card.sum = summarize(card.lists)

(* When nothing is out, the card is the server's task - with its lists, or  *)
(* with the failure of their read on the panel - unless an answer or a      *)
(* rollback older than one already applied came last, or the read after an  *)
(* event failed: no failed, lost or overlapping write of any section leaves *)
(* anything else behind.                                                    *)
QuietCardIsCurrent ==
    (calls = {} /\ ~echo /\ ~raced) =>
        /\ card.lists.loaded \/ failedRead
        /\ card = IF card.lists.loaded THEN Detail(task) ELSE Row(task)

(* A save changes no field that its writer did not type in: what it sends   *)
(* for the other field is what the card showed (task-panel-fields.tsx:66).  *)
UntypedFieldSentAsShown ==
    \A c \in calls : c.kind = "save" =>
        \A f \in {"title", "text"} : c.arg[f] # c.prev[f] => f \in c.typed

(* The lists of an open panel do not load for ever: the read ends in the    *)
(* lists or in the message that it failed (use-task-checklists.ts:93).      *)
LoadingEnds == loading ~> ~loading

(* The card beside the panel counts what it lists, is the server's once    *)
(* quiet, and a save sends what was shown or typed.                        *)
PanelSound == PanelTypeOK /\ SummaryMatchesLists /\ QuietCardIsCurrent /\ UntypedFieldSentAsShown

-----------------------------------------------------------------------------
(* Why the card is the server's once quiet: an inductive invariant.         *)

PanelSpec == PanelInit /\ [][PanelNext]_panelVars

PanelArgs == [id : Items \cup Labels \cup {""}, on : BOOLEAN,
              title : Texts, text : Texts, prio : Texts]
TaskRows == [items : SUBSET Items, done : SUBSET Items, labels : SUBSET Labels,
             title : Texts, text : Texts, prio : Texts]
ListCopies == [loaded : BOOLEAN, items : SUBSET Items, done : SUBSET Items]
Cards == [lists : ListCopies, sum : [total : Nat, done : Nat], labels : SUBSET Labels,
          title : Texts, text : Texts, prio : Texts]
PanelCalls == [kind : WriteKinds \cup {"detail", "upsert", "board"}, arg : PanelArgs,
               phase : {"sent", "ok", "failed"}, prev : Cards, base : Int,
               typed : SUBSET {"title", "text"}, dto : Cards, ver : Nat]

PanelShape ==
    /\ task \in TaskRows /\ task.done \subseteq task.items
    /\ task.labels \subseteq palette /\ palette \subseteq Labels
    /\ card \in Cards /\ calls \subseteq PanelCalls
    /\ toasts \subseteq {c \in PanelCalls : c.kind = "save"}
    /\ \A c \in calls : c.kind = "add" => c.arg.id \in Items
    /\ draft \in [title : Texts, text : Texts] /\ typed \subseteq {"title", "text"}
    /\ edits \in Nat /\ newest \in 0 .. edits
    /\ raced \in BOOLEAN /\ echo \in BOOLEAN /\ failedRead \in BOOLEAN

(* A copy counts its own lists, or has none.                                *)
ListsCounted(x) ==
    /\ x.lists.done \subseteq x.lists.items
    /\ IF x.lists.loaded THEN x.sum = summarize(x.lists) ELSE x.lists = NotLoaded

(* A call keeps counted copies; a save differs from what was shown only     *)
(* where it was typed into.                                                 *)
CopiesFit(c) ==
    /\ ListsCounted(c.prev) /\ ListsCounted(c.dto)
    /\ c.kind = "save" =>
          \A f \in {"title", "text"} : c.arg[f] # c.prev[f] => f \in c.typed

CopiesHold == ListsCounted(card) /\ \A c \in calls \cup toasts : CopiesFit(c)
DraftTyped == \A f \in {"title", "text"} : draft[f] # card[f] => f \in typed

(* The lists are there, their read has failed, or it is out.                *)
ListsAsked == card.lists.loaded \/ failedRead \/ Out({"detail"})

(* The removal of a label that is the only write since the card's version   *)
(* and is not answered yet.                                                 *)
LastDrop(d) == /\ d.kind = "drop" /\ d.phase = "ok"
               /\ d.base = newest /\ d.ver = edits /\ edits = newest + 1

(* The row of version newest is known: it is the one there is, but for a    *)
(* label.                                                                   *)
Known == newest = edits \/ \E d \in calls : LastDrop(d)

ListsAgree(x) == /\ x.lists.loaded => x.lists = Detail(task).lists
                 /\ x.sum = summarize(task)
FieldsAgree(x) == x.title = task.title /\ x.text = task.text
LabelsAgree(x) ==
    /\ newest = edits => x.labels = task.labels
    /\ \A d \in calls : LastDrop(d) => x.labels \ {d.arg.id} = task.labels

(* An answer is the row of its version, as far as that is known.            *)
AnswerFits(c) ==
    c.phase = "ok" =>
        /\ c.ver <= edits
        /\ c.kind = "detail" => c.dto.lists.loaded
        /\ c.kind # "drop" /\ (c.ver = edits \/ (c.ver = newest /\ Known)) =>
              ListsAgree(c.dto) /\ FieldsAgree(c.dto) /\ c.dto.prio = task.prio
        /\ c.kind # "drop" /\ c.ver = edits => c.dto.labels = task.labels
        /\ c.kind # "drop" /\ c.ver = newest => LabelsAgree(c.dto)

AnswersHold == \A c \in calls : AnswerFits(c)

(* What a write puts back is the row of the version it was sent over.       *)
RollbackFits(c) ==
    /\ c.base <= newest
    /\ c.base = newest /\ Known =>
          /\ c.kind = "tick" => ListsAgree(c.prev)
          /\ c.kind = "save" => FieldsAgree(c.prev)
          /\ c.kind = "field" => c.prev.prio = task.prio
          /\ c.kind = "drop" => LabelsAgree(c.prev)

RollbacksHold == \A c \in calls \cup toasts : RollbackFits(c)

(* The card is that row, but for what a tick or a save under way has put    *)
(* there; the fields follow the card while a save is out.                   *)
CardHolds ==
    Known /\ ~raced =>
        /\ Out({"tick"}) \/ ListsAgree(card)
        /\ Out({"save"}) \/ FieldsAgree(card)
        /\ Out({"save"}) =>
              FieldsAgree(card) \/ draft = [title |-> card.title, text |-> card.text]
        /\ card.prio = task.prio /\ LabelsAgree(card)

(* What is not shown yet is on its way.                                     *)
NewsComes ==
    newest < edits =>
        \/ echo
        \/ \E c \in calls : c.kind = "upsert" /\ (c.phase = "ok" => c.ver = edits)
        \/ \E c \in calls : c.kind = "drop" /\ c.phase = "ok" /\ c.ver = edits

PanelInv == /\ PanelShape /\ CopiesHold /\ DraftTyped /\ ListsAsked
            /\ AnswersHold /\ RollbacksHold /\ CardHolds /\ NewsComes
=============================================================================
