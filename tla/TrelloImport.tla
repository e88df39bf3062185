---------------------------- MODULE TrelloImport ----------------------------
(***************************************************************************)
(* The import of a Trello export: the reader (trello-export.ts), the       *)
(* planner (trello-import-planner.ts), the transaction that writes the     *)
(* plan in chunks (trello-import.service.ts) and the dialog that waits for *)
(* the report; and the script that anonymises exports for the fixtures     *)
(* (scripts/lib/trello-anonymiser.mjs).                                    *)
(*                                                                         *)
(* An entry of the export keeps what decides its fate: its id, its pos (0  *)
(* is none), whether its fields have their types, whether it has a name,   *)
(* whether it is archived, whether its text is too long, what it refers to.*)
(***************************************************************************)
EXTENDS FractionalIndex, Sequences, SequencesExt

CONSTANTS Exports,             \* the exports that are tried
          Hashes,              \* ways the digests of the ids may come out
          IMPORT_CHUNK_SIZE,
          MaxLists, MaxCards,  \* TRELLO_IMPORT_MAX_LISTS, _CARDS
          BoardCeiling,        \* the plan's boards
          MaxSubmits           \* bound: how often the user submits

ASSUME ImportAssumption ==
    /\ IMPORT_CHUNK_SIZE \in Nat \ {0}
    /\ MaxLists \in Nat /\ MaxCards \in Nat /\ BoardCeiling \in Nat /\ MaxSubmits \in Nat

VARIABLES export,    \* the file
          hash,      \* what the anonymiser's digests happen to be
          dialog,    \* "idle", "pending", "error", "report" or "closed"
          plan,      \* what planTrelloImport made of it
          todo,      \* the chunks the transaction still has to write
          tx,        \* the rows it has written
          boards,    \* the boards of the workspace, each with its rows
          reply,     \* the answer under way
          refused,   \* an insert broke a constraint
          submits

importVars == <<export, hash, dialog, plan, todo, tx, boards, reply, refused, submits>>

Ids(seq) == {seq[i].id : i \in DOMAIN seq}
-----------------------------------------------------------------------------
(* The reader.                                                             *)

(* readList, readLabel, readCheckItem: an entry with an unusable field is  *)
(* no row; a card with an unusable attachment is none either.              *)
readEntry(e) == e.typed
readCard(c) == c.typed /\ \A i \in DOMAIN c.attachments : c.attachments[i].url # "none"

Readable(scope, e) == IF scope = "card" THEN readCard(e) ELSE readEntry(e)

Rows(section) == IF section.absent THEN << >> ELSE section.rows

(* A section that is no array counts as one thing that was not read.       *)
readSection(scope, section) == SelectSeq(Rows(section), LAMBDA e : Readable(scope, e))

Issue(scope, of) == [scope |-> scope, reason |-> "malformed", of |-> <<of>>]

SectionIssues(scope, section) ==
    IF section.absent THEN {Issue(scope, 0)}
    ELSE {Issue(scope, e.id) : e \in {x \in Range(section.rows) : ~Readable(scope, x)}}

readChecklist(k) == [k EXCEPT !.items = SelectSeq(@, readEntry)]

ItemIssues(k) == {Issue("item", k.items[i].id) : i \in {j \in DOMAIN k.items : ~readEntry(k.items[j])}}

parseTrelloExport(e) ==
    LET checklists == Rows(e.checklists)
        kept == SelectSeq(checklists, readEntry)
    IN [lists |-> readSection("list", e.lists),
        cards |-> readSection("card", e.cards),
        labels |-> readSection("label", e.labels),
        checklists |-> [i \in DOMAIN kept |-> readChecklist(kept[i])],
        issues |-> SectionIssues("list", e.lists)
                    \cup SectionIssues("card", e.cards)
                    \cup SectionIssues("label", e.labels)
                    \cup SectionIssues("checklist", e.checklists)
                    \cup UNION {ItemIssues(checklists[i]) : i \in DOMAIN checklists}]
-----------------------------------------------------------------------------
(* The planner.                                                            *)

(* By position, those without one last, ties by id.                        *)
orderedByPos(rows) ==
    SortSeq(rows, LAMBDA a, b : IF a.pos # b.pos
                                THEN a.pos # 0 /\ (b.pos = 0 \/ a.pos < b.pos)
                                ELSE a.id < b.id)

positionsFor(index) == index * POSITION_GAP

Row(e, index, parent) == [id |-> e.id, refs |-> parent, position |-> positionsFor(index)]

(* Faulty variant: a card of a list that is not there passes for imported. *)
CardVerdictLoose(c, columns, archived) ==
    IF c.closed \/ c.idList \in archived THEN "archived"
    ELSE IF ~c.named THEN "malformed" ELSE "imported"

(* Whether a card has a row, and if not, why.                              *)
CardVerdict(c, columns, archived) ==
    IF c.closed THEN "archived"
    ELSE IF ~c.named THEN "malformed"
    ELSE IF c.idList \in columns THEN "imported"
    ELSE IF c.idList \in archived THEN "archived" ELSE "malformed"

(* The labels of a card, each once.                                        *)
attached(card, labels) ==
    FoldLeft(LAMBDA acc, l : IF l \in labels /\ l \notin Range(acc) THEN Append(acc, l) ELSE acc,
             << >>, card.idLabels)

(* Only web links are stored; a broken one is malformed.                   *)
classifyUrl(a) == [web |-> "imported", broken |-> "malformed", scheme |-> "unsupportedScheme"][a.url]

ChecklistVerdict(k, cardVerdict) ==
    IF k.idCard \notin DOMAIN cardVerdict THEN "malformed"
    ELSE IF cardVerdict[k.idCard] # "imported" THEN cardVerdict[k.idCard]
    ELSE IF ~k.named \/ k.items = << >> THEN "malformed" ELSE "imported"

(* An entry that has no row has a line in the report.                      *)
Skip(scope, e, verdict) ==
    IF verdict = "imported" THEN {} ELSE {[scope |-> scope, reason |-> verdict, of |-> <<e.id>>]}

Defaulted(scope, rows) ==
    {[scope |-> scope, reason |-> "defaulted", of |-> <<rows[i].id>>] :
        i \in {j \in DOMAIN rows : rows[j].long}}

ListVerdict(l) == IF l.closed THEN "archived" ELSE IF l.named THEN "imported" ELSE "malformed"

Placed(seq, parent) == [i \in DOMAIN seq |-> Row(seq[i], i, parent)]

(* The lists that become columns, in their order.                          *)
ColumnLists(read) == orderedByPos(SelectSeq(read.lists, LAMBDA l : ListVerdict(l) = "imported"))

(* Every label that was read is written, whatever became of its colour.    *)
LabelRows(read) ==
    [i \in DOMAIN read.labels |-> [id |-> read.labels[i].id, refs |-> {}, position |-> 1]]

(* The tasks of a column.                                                  *)
TaskRows(list, cards) == Placed(cards, {<<"columns", list.id>>})

planTrelloImport(read) ==
    LET ordered == ColumnLists(read)
        archived == {l.id : l \in {x \in Range(read.lists) : x.closed}}
        verdict(c) == CardVerdict(c, Ids(ordered), archived)
        cardVerdict == [i \in Ids(read.cards) |->
                          verdict(CHOOSE c \in Range(read.cards) : c.id = i)]
        cardsOf(l) == orderedByPos(SelectSeq(read.cards,
                          LAMBDA c : verdict(c) = "imported" /\ c.idList = l.id))
        cards == FlattenSeq([i \in DOMAIN ordered |-> cardsOf(ordered[i])])
        labels == Ids(read.labels)
        kept(k) == ChecklistVerdict(k, cardVerdict)
        listsOf(c) == orderedByPos(SelectSeq(read.checklists,
                          LAMBDA k : kept(k) = "imported" /\ k.idCard = c.id))
        checklists == FlattenSeq([i \in DOMAIN cards |-> listsOf(cards[i])])
        itemsOf(k) == SelectSeq(orderedByPos(k.items), LAMBDA it : it.named)
        linksOf(c) == SelectSeq(c.attachments, LAMBDA a : classifyUrl(a) = "imported")
    IN [columns |-> Placed(ordered, {}),
        labels |-> LabelRows(read),
        tasks |-> FlattenSeq([i \in DOMAIN ordered |-> TaskRows(ordered[i], cardsOf(ordered[i]))]),
        taskLabels |-> FlattenSeq([i \in DOMAIN cards |->
            LET mine == attached(cards[i], labels)
            IN [n \in DOMAIN mine |-> [id |-> <<cards[i].id, mine[n]>>, position |-> 1,
                                       refs |-> {<<"tasks", cards[i].id>>, <<"labels", mine[n]>>}]]]),
        checklists |-> FlattenSeq([i \in DOMAIN cards |->
                          Placed(listsOf(cards[i]), {<<"tasks", cards[i].id>>})]),
        checklistItems |-> FlattenSeq([i \in DOMAIN checklists |->
                              Placed(itemsOf(checklists[i]), {<<"checklists", checklists[i].id>>})]),
        attachments |-> FlattenSeq([i \in DOMAIN cards |->
                           Placed(linksOf(cards[i]), {<<"tasks", cards[i].id>>})]),
        skipped |-> read.issues
            \cup UNION {Skip("list", l, ListVerdict(l)) : l \in Range(read.lists)}
            \cup {[scope |-> "column", reason |-> "defaulted", of |-> <<ordered[i].id>>] : i \in DOMAIN ordered}
            \cup Defaulted("label", read.labels)
            \cup UNION {Skip("card", c, verdict(c)) : c \in Range(read.cards)}
            \cup Defaulted("card", cards)
            \cup UNION {{[scope |-> "label", reason |-> "malformed", of |-> <<cards[i].id, l>>] :
                            l \in Range(cards[i].idLabels) \ labels} : i \in DOMAIN cards}
            \cup UNION {Skip("attachment", a, classifyUrl(a)) :
                            a \in UNION {Range(cards[i].attachments) : i \in DOMAIN cards}}
            \cup UNION {Skip("checklist", k, kept(k)) : k \in Range(read.checklists)}
            \cup UNION {Skip("item", it, IF it.named THEN "imported" ELSE "malformed") :
                            it \in UNION {Range(checklists[i].items) : i \in DOMAIN checklists}}]

Tables == <<"columns", "labels", "tasks", "taskLabels", "checklists", "checklistItems", "attachments">>

importedCounts(p) == [t \in Range(Tables) |-> Len(p[t])]

(* SkipCollector.toReport: how many of each scope and reason.              *)
toReport(skipped) ==
    [g \in {<<s.scope, s.reason>> : s \in skipped} |->
        Cardinality({s \in skipped : <<s.scope, s.reason>> = g})]
-----------------------------------------------------------------------------
(* The anonymiser.                                                         *)

(* Ids made in the same second share their prefix.                         *)
Prefix(id) == id \div 10

Nth(S, n) == SetToSortSeq(S, <)[n]
RankIn(S, x) == Cardinality({y \in S : y <= x})

(* Within a prefix the digests are dealt out in the order of the ids.      *)
buildIdMap(ids) ==
    [i \in ids |-> LET group == {j \in ids : Prefix(j) = Prefix(i)}
                   IN 10 * Prefix(i) + Nth({hash[j % 10] : j \in group}, RankIn(group, i))]

(* collectIds: every id the file mentions, references included.            *)
collectIds(e) ==
    UNION {Ids(e[s].rows) : s \in {"lists", "cards", "labels", "checklists"}}
        \cup {e.cards.rows[i].idList : i \in DOMAIN e.cards.rows}
        \cup UNION {Range(e.cards.rows[i].idLabels) : i \in DOMAIN e.cards.rows}
        \cup UNION {Ids(e.cards.rows[i].attachments) : i \in DOMAIN e.cards.rows}
        \cup {e.checklists.rows[i].idCard : i \in DOMAIN e.checklists.rows}
        \cup UNION {Ids(e.checklists.rows[i].items) : i \in DOMAIN e.checklists.rows}

Renamed(rows, m) == [i \in DOMAIN rows |-> [rows[i] EXCEPT !.id = m[@]]]

(* Ids are mapped; positions, states, colours and dates are kept; a text   *)
(* keeps its length and a link its scheme, so the rest of an entry stays.  *)
anonymiseTrelloExport(e) ==
    LET m == buildIdMap(collectIds(e))
        card(c) == [c EXCEPT !.id = m[@], !.idList = m[@],
                             !.idLabels = [i \in DOMAIN @ |-> m[@[i]]],
                             !.attachments = Renamed(@, m)]
        checklist(k) == [k EXCEPT !.id = m[@], !.idCard = m[@], !.items = Renamed(@, m)]
    IN [lists |-> [e.lists EXCEPT !.rows = Renamed(@, m)],
        labels |-> [e.labels EXCEPT !.rows = Renamed(@, m)],
        cards |-> [e.cards EXCEPT !.rows = [i \in DOMAIN @ |-> card(@[i])]],
        checklists |-> [e.checklists EXCEPT !.rows = [i \in DOMAIN @ |-> checklist(@[i])]]]
-----------------------------------------------------------------------------
(* The request.                                                            *)

NoPlan == [skipped |-> {}]
Nobody == [status |-> 0, report |-> << >>]

ImportInit ==
    /\ export \in Exports
    /\ hash \in Hashes
    /\ dialog = "idle"
    /\ plan = NoPlan
    /\ todo = << >> /\ tx = {} /\ boards = << >>
    /\ reply = Nobody
    /\ refused = FALSE
    /\ submits = 0

(* chunked: runs of rows of one table.                                     *)
chunked(t, rows) ==
    LET n == (Len(rows) + IMPORT_CHUNK_SIZE - 1) \div IMPORT_CHUNK_SIZE
    IN [i \in 1..n |->
          [table |-> t,
           rows |-> SubSeq(rows, (i - 1) * IMPORT_CHUNK_SIZE + 1,
                           IF i = n THEN Len(rows) ELSE i * IMPORT_CHUNK_SIZE)]]

(* submit: one request at a time; over the row limits, or at the board     *)
(* ceiling, it is refused before anything is written.                      *)
Submit ==
    /\ dialog \in {"idle", "error"} /\ reply = Nobody /\ submits < MaxSubmits
    /\ dialog' = "pending" /\ submits' = submits + 1
    /\ LET read == parseTrelloExport(export) IN
       IF Len(read.lists) > MaxLists \/ Len(read.cards) > MaxCards
       THEN reply' = [Nobody EXCEPT !.status = 400] /\ UNCHANGED <<plan, todo, tx>>
       ELSE IF Len(boards) >= BoardCeiling
       THEN reply' = [Nobody EXCEPT !.status = 403] /\ UNCHANGED <<plan, todo, tx>>
       ELSE /\ plan' = planTrelloImport(read)
            /\ tx' = {<<"board", submits'>>}
            /\ todo' = FlattenSeq([n \in DOMAIN Tables |-> chunked(Tables[n], plan'[Tables[n]])])
                         \o <<[table |-> "activity", rows |-> <<[id |-> 0, refs |-> {}]>>]>>
            /\ UNCHANGED reply
    /\ UNCHANGED <<export, hash, boards, refused>>

Written(chunk) == {<<chunk.table, chunk.rows[i].id>> : i \in DOMAIN chunk.rows}

(* createMany: a row whose reference is not there, or that is there        *)
(* already, fails the transaction.                                         *)
Breaks(chunk) ==
    \/ \E i \in DOMAIN chunk.rows : ~(chunk.rows[i].refs \subseteq tx)
    \/ Cardinality(Written(chunk)) # Len(chunk.rows)
    \/ Written(chunk) \cap tx # {}

(* Faulty variant: a chunk is written outside the transaction.             *)
WriteChunkDirect ==
    /\ todo # << >>
    /\ todo' = Tail(todo)
    /\ tx' = tx \cup Written(Head(todo))
    /\ boards' = IF Head(todo).table = "columns" THEN Append(boards, tx') ELSE boards
    /\ UNCHANGED <<export, hash, dialog, plan, reply, refused, submits>>

WriteChunk ==
    /\ todo # << >>
    /\ IF Breaks(Head(todo))
       THEN /\ refused' = TRUE /\ todo' = << >> /\ tx' = {}
            /\ reply' = [Nobody EXCEPT !.status = 409]
       ELSE /\ tx' = tx \cup Written(Head(todo))
            /\ todo' = Tail(todo)
            /\ UNCHANGED <<reply, refused>>
    /\ UNCHANGED <<export, hash, plan, dialog, boards, submits>>

(* The transaction runs out of time, or the database goes away.            *)
Abort ==
    /\ todo # << >>
    /\ todo' = << >> /\ tx' = {}
    /\ reply' = [Nobody EXCEPT !.status = 500]
    /\ UNCHANGED <<export, hash, plan, dialog, boards, refused, submits>>

Commit ==
    /\ todo = << >> /\ tx # {}
    /\ boards' = Append(boards, tx)
    /\ tx' = {}
    /\ reply' = [status |-> 201, report |-> <<importedCounts(plan), toReport(plan.skipped)>>]
    /\ UNCHANGED <<export, hash, plan, dialog, todo, refused, submits>>

(* The dialog gets its reply, or the connection is gone.                  *)
Deliver ==
    /\ reply # Nobody
    /\ reply' = Nobody
    /\ dialog' \in {IF reply.status = 201 THEN "report" ELSE "error", "error"}
    /\ UNCHANGED <<export, hash, plan, todo, tx, boards, refused, submits>>

(* Only a dialog that is not waiting can be closed.                        *)
Close ==
    /\ dialog \in {"idle", "error", "report"}
    /\ dialog' = "closed"
    /\ UNCHANGED <<export, hash, plan, todo, tx, boards, reply, refused, submits>>

ImportNext == Submit \/ WriteChunk \/ Abort \/ Commit \/ Deliver \/ Close
-----------------------------------------------------------------------------
(* The plan has just been made.                                            *)
Planned == tx = {<<"board", submits>>}

(* Positions are positive and the parts have their types.                  *)
ImportTypeOK ==
    /\ dialog \in {"idle", "pending", "error", "report", "closed"}
    /\ reply.status \in {0, 201, 400, 403, 409, 500}
    /\ Planned => \A t \in Range(Tables) : \A i \in DOMAIN plan[t] : plan[t][i].position \in Nat \ {0}

Lost(scope) == {s.of[1] : s \in {x \in plan.skipped : x.scope = scope /\ x.reason # "defaulted"}}

Accounted(entries, rows, scope) ==
    entries = (Ids(rows) \cup Lost(scope)) \ {0} /\ Ids(rows) \cap Lost(scope) = {}

ImportedIn(seq, table) == SelectSeq(seq, LAMBDA e : e.id \in Ids(plan[table]))

(* Every list, card and checklist of the file is either on the board or in *)
(* the report, never in neither and never in both; so is every attachment  *)
(* of an imported card and every item of an imported checklist.            *)
NothingDroppedSilently ==
    Planned =>
    /\ Accounted(Ids(Rows(export.lists)), plan.columns, "list")
    /\ Accounted(Ids(Rows(export.cards)), plan.tasks, "card")
    /\ Accounted(Ids(Rows(export.checklists)), plan.checklists, "checklist")
    /\ \A c \in Range(ImportedIn(Rows(export.cards), "tasks")) :
          Ids(c.attachments) \subseteq Ids(plan.attachments) \cup Lost("attachment")
    /\ \A k \in Range(ImportedIn(Rows(export.checklists), "checklists")) :
          Ids(k.items) \subseteq Ids(plan.checklistItems) \cup Lost("item")

(* "Everything in the returned plan is a row that is known to be writable":*)
(* no insert of an import breaks a reference or a unique key.              *)
PlanIsWritable == ~refused

(* A board is there with all its rows and its activity, or not at all,     *)
(* however the transaction ends.                                           *)
BoardWholeOrAbsent ==
    \A n \in DOMAIN boards :
        /\ <<"activity", 0>> \in boards[n]
        /\ \A t \in Range(Tables) : {r \in boards[n] : r[1] = t} = {<<t, i>> : i \in Ids(plan[t])}

(* The report the user reads counts the rows of a board that exists.       *)
ReportMatchesBoard ==
    (dialog = "report" \/ reply.status = 201) =>
        \E n \in DOMAIN boards : \A t \in Range(Tables) :
            (reply.status = 201 => Cardinality({r \in boards[n] : r[1] = t}) = reply.report[1][t])

Shape(p) == [t \in {"columns", "tasks", "checklists", "checklistItems"} |-> Range(p[t])]
Reversed(e) == [s \in DOMAIN e |-> [e[s] EXCEPT !.rows = Reverse(@)]]

(* "Two runs over the same export produce the same board": the order of    *)
(* the file's arrays does not matter.                                      *)
SameBoardInAnyOrder ==
    Planned => Shape(planTrelloImport(parseTrelloExport(Reversed(export)))) = Shape(plan)

(* An anonymised export imports as the original does, row for row: the     *)
(* fixtures exercise what a real export would.                             *)
AnonymisedImportsAlike ==
    Planned =>
    LET m == buildIdMap(collectIds(export))
        p == planTrelloImport(parseTrelloExport(anonymiseTrelloExport(export)))
    IN /\ toReport(p.skipped) = toReport(plan.skipped)
       /\ \A t \in {"columns", "tasks", "checklists", "checklistItems"} :
             [i \in DOMAIN plan[t] |-> [id |-> m[plan[t][i].id], position |-> plan[t][i].position]]
                = [i \in DOMAIN p[t] |-> [id |-> p[t][i].id, position |-> p[t][i].position]]

(* The plan says what is in the file: every entry is a row or a line of    *)
(* the report, every row can be written, neither the order of the arrays   *)
(* nor the anonymiser changes it.                                          *)
PlanIsFaithful ==
    /\ ImportTypeOK /\ NothingDroppedSilently /\ PlanIsWritable
    /\ SameBoardInAnyOrder /\ AnonymisedImportsAlike

(* However a submission is cut off and made again, boards are whole and    *)
(* the report is of one of them.                                           *)
ImportIsWhole == BoardWholeOrAbsent /\ ReportMatchesBoard
=============================================================================
