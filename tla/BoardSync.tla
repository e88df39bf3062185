----------------------------- MODULE BoardSync -----------------------------
(***************************************************************************)
(* How an open board follows the server: the initial load and every later  *)
(* drain (use-board-load.ts, use-board-fetch.ts), the room events with     *)
(* their debounced reads and the resync after a join                       *)
(* (use-board-realtime.ts, use-board-socket.ts), and optimistic task moves *)
(* (use-board-mutations.ts).                                               *)
(*                                                                         *)
(* A task is its position and the rest of it, each the number of the write *)
(* that set it.  Reads are three steps: asked, answered by the server and  *)
(* applied.  Events reach one connection in the order of the writes.       *)
(***************************************************************************)
EXTENDS Integers, Sequences, FiniteSets

CONSTANTS Tasks,       \* ids, in the order of the API's pages
          Seeded,      \* the tasks of the board when the page opens
          PageSize,    \* BOARD_TASK_PAGE_LIMIT
          MaxWrites,   \* bound: writes of all users together
          MaxMoves,    \* bound: moves of this tab
          MaxDrops,    \* bound: lost connections
          MaxFailures  \* bound: requests that fail

ASSUME SyncAssumption ==
    /\ Tasks \subseteq Nat \ {0} /\ IsFiniteSet(Tasks) /\ Seeded \subseteq Tasks
    /\ PageSize \in Nat \ {0}
    /\ MaxWrites \in Nat /\ MaxMoves \in 0 .. 2
    /\ MaxDrops \in Nat /\ MaxFailures \in Nat

VARIABLES tasks,     \* the server's tasks
          born,      \* the ids given out; none is used twice
          writes,    \* writes so far
          view,      \* the tasks cache
          link,      \* "off", "room" (in it, ack under way) or "live"
          drops, failures,
          net,       \* events and acks on their way
          timers,    \* upsertTimersRef
          asked,     \* GETs of a task the server has not answered yet
          answers,   \* answers not yet applied
          drains,    \* pages being fetched, by what started them
          loading,
          rs,        \* the four refs of requestResync
          moves,     \* commitTaskMove, by generation
          generation,
          lost,      \* history: an event missed since the last drain began
          skipped,   \* history: a join after that asked for no drain
          raced      \* history: a read, move or rollback overtaken or failed

serverVars == <<tasks, born, writes>>
boundVars == <<drops, failures>>
readVars == <<timers, asked, answers>>
moveVars == <<moves, generation>>
syncVars == <<serverVars, view, link, boundVars, net, readVars, drains, loading, rs,
          moveVars, lost, skipped, raced>>

Gone == [pos |-> -1, body |-> -1]
Guess == MaxWrites + 1      \* an optimistic position
Rec == [pos : 0 .. Guess, body : 0 .. MaxWrites]
Cache == [Tasks -> Rec \cup {Gone}]

(* reload awaits the board's details too: when they fail, runResync ends    *)
(* and its pages go on as "stray".                                         *)
Drain == {"load", "resync", "stray", "retry"}
NoDrain == [pc |-> "idle", cursor |-> 0, page |-> [t \in Tasks |-> Gone],
            more |-> FALSE]
FirstPage == [NoDrain EXCEPT !.pc = "asked"]

NoMove == [pc |-> "none", task |-> 0, snap |-> [t \in Tasks |-> Gone], rec |-> Gone]

SyncInit ==
    /\ tasks = [t \in Tasks |-> IF t \in Seeded THEN [pos |-> 0, body |-> 0] ELSE Gone]
    /\ born = Seeded /\ writes = 0
    /\ view = [t \in Tasks |-> Gone]
    /\ link = "off" /\ drops = 0 /\ failures = 0 /\ net = << >>
    /\ timers = {} /\ asked = [t \in Tasks |-> 0] /\ answers = {}
    /\ drains = [d \in Drain |-> IF d = "load" THEN FirstPage ELSE NoDrain]
    /\ loading = TRUE
    /\ rs = [fresh |-> TRUE, timer |-> FALSE, running |-> FALSE, queued |-> FALSE]
    /\ moves = [g \in 1 .. MaxMoves |-> NoMove] /\ generation = 0
    /\ lost = FALSE /\ skipped = FALSE /\ raced = FALSE

-----------------------------------------------------------------------------
Fails == /\ failures < MaxFailures
         /\ failures' = failures + 1
         /\ UNCHANGED drops

(* The writes left, less those of the moves on their way.                  *)
WritesLeft ==
    MaxWrites - writes - Cardinality({g \in 1 .. MaxMoves : moves[g].pc = "sent"})

(* A write commits and is announced to the room.                           *)
Overtakes(t) ==
    \/ \E a \in answers : a.task = t
    \/ \E d \in Drain : drains[d].pc = "read"
    \/ \E g \in 1 .. MaxMoves : moves[g].pc = "answered" /\ moves[g].task = t

Write(t, rec, event) ==
    /\ writes' = writes + 1
    /\ tasks' = [tasks EXCEPT ![t] = rec]
    /\ net' = IF link = "off" THEN net ELSE Append(net, event)
    /\ lost' = (lost \/ link = "off")
    /\ raced' = (raced \/ Overtakes(t))

RemoteWrite(t) ==
    LET n == writes + 1 IN
    /\ WritesLeft > 0
    /\ \/ /\ t \notin born /\ born' = born \cup {t}
          /\ Write(t, [pos |-> n, body |-> n], [type |-> "created", task |-> t])
       \/ /\ tasks[t] # Gone
          /\ Write(t, [tasks[t] EXCEPT !.body = n], [type |-> "updated", task |-> t])
       \/ /\ tasks[t] # Gone
          /\ \E own \in BOOLEAN : Write(t, [tasks[t] EXCEPT !.pos = n],
                [type |-> "moved", task |-> t, pos |-> n, own |-> own])
       \/ /\ tasks[t] # Gone
          /\ Write(t, Gone, [type |-> "deleted", task |-> t])
    /\ t \in born => UNCHANGED born
    /\ UNCHANGED <<view, link, boundVars, readVars, drains, loading, rs, moveVars,
                   skipped>>

-----------------------------------------------------------------------------
(* useBoardSocket: the hook is enabled once the board has loaded.  The     *)
(* gateway puts the socket in the room, then acknowledges.                 *)
Join ==
    /\ link = "off" /\ ~ loading
    /\ link' = "room"
    /\ net' = <<[type |-> "ack", task |-> 0]>>
    /\ UNCHANGED <<serverVars, view, boundVars, readVars, drains, loading, rs,
                   moveVars, lost, skipped, raced>>

Dropped ==
    /\ link # "off" /\ drops < MaxDrops
    /\ link' = "off" /\ drops' = drops + 1 /\ UNCHANGED failures
    /\ net' = << >>
    /\ lost' = (lost \/ \E i \in DOMAIN net : net[i].type # "ack")
    /\ UNCHANGED <<serverVars, view, readVars, drains, loading, rs, moveVars,
                   skipped, raced>>

(* A faulty request that forgets a join acknowledged during a long drain.  *)
requestResyncUnqueued(s) ==
    IF s.fresh \/ s.running THEN s ELSE [s EXCEPT !.timer = TRUE]

requestResync(s) ==
    IF s.fresh THEN s
    ELSE IF s.running THEN [s EXCEPT !.queued = TRUE]
    ELSE [s EXCEPT !.timer = TRUE]

onTaskMoved(e) ==
    /\ view' = [view EXCEPT ![e.task] = IF @ = Gone THEN @ ELSE [@ EXCEPT !.pos = e.pos]]
    /\ timers' = timers \cup {t \in {e.task} : ~ e.own /\ view[t] = Gone}

onTaskUpdated(e) == timers' = timers \cup {e.task} /\ UNCHANGED view

onTaskCreated(e) ==
    /\ timers' = timers \cup {t \in {e.task} : view[t] = Gone}
    /\ UNCHANGED view

onTaskDeleted(e) ==
    /\ view' = [view EXCEPT ![e.task] = Gone]
    /\ UNCHANGED timers

HandleEvent ==
    LET e == Head(net) IN
    /\ net # << >>
    /\ net' = Tail(net)
    /\ \/ /\ e.type = "ack"
          /\ link' = "live" /\ rs' = requestResync(rs)
          /\ skipped' = (skipped \/ (lost /\ rs.fresh))
          /\ UNCHANGED <<view, timers>>
       \/ /\ UNCHANGED <<link, rs, skipped>>
          /\ \/ e.type = "created" /\ onTaskCreated(e)
             \/ e.type = "updated" /\ onTaskUpdated(e)
             \/ e.type = "moved" /\ onTaskMoved(e)
             \/ e.type = "deleted" /\ onTaskDeleted(e)
    /\ UNCHANGED <<serverVars, boundVars, asked, answers, drains, loading, moveVars,
                   lost, raced>>

-----------------------------------------------------------------------------
(* upsertRemoteTask.                                                       *)
UpsertFires(t) ==
    /\ t \in timers
    /\ timers' = timers \ {t}
    /\ asked' = [asked EXCEPT ![t] = @ + 1]
    /\ UNCHANGED <<serverVars, view, link, boundVars, net, answers, drains, loading,
                   rs, moveVars, lost, skipped, raced>>

(* The server reads the task; a 404 and a failure are both swallowed.      *)
TaskRead(t) ==
    /\ asked[t] > 0
    /\ asked' = [asked EXCEPT ![t] = @ - 1]
    /\ \/ /\ answers' = answers \cup
                 {a \in {[task |-> t, rec |-> tasks[t]]} : tasks[t] # Gone}
          /\ UNCHANGED <<raced, boundVars>>
       \/ /\ Fails /\ raced' = TRUE
          /\ UNCHANGED answers
    /\ UNCHANGED <<serverVars, view, link, net, timers, drains, loading,
                   rs, moveVars, lost, skipped>>

ApplyRead(a) ==
    /\ a \in answers
    /\ answers' = answers \ {a}
    /\ view' = [view EXCEPT ![a.task] = a.rec]
    /\ UNCHANGED <<serverVars, link, boundVars, net, timers, asked, drains, loading,
                   rs, moveVars, lost, skipped, raced>>

-----------------------------------------------------------------------------
(* drainTasks: fetchAllBoardTasks, page by page.                           *)
FirstN(n, S) == {t \in S : Cardinality({u \in S : u < t}) < n}

Undisturbed(d) ==
    /\ answers = {} /\ \A t \in Tasks : asked[t] = 0
    /\ \A e \in Drain \ {d} : drains[e].pc # "read"
    /\ \A g \in 1 .. MaxMoves : moves[g].pc \in {"none", "done"}

ReadPage(d) ==
    LET rest == {t \in Tasks : tasks[t] # Gone /\ t > drains[d].cursor}
        page == FirstN(PageSize, rest) IN
    /\ drains[d].pc = "asked"
    /\ drains' = [drains EXCEPT ![d].pc = "read", ![d].more = (rest # page),
                     ![d].page = [t \in Tasks |-> IF t \in page THEN tasks[t] ELSE Gone]]
    /\ lost' = (lost /\ drains[d].cursor # 0)
    /\ skipped' = (skipped /\ drains[d].cursor # 0)
    /\ raced' = (raced /\ ~ (drains[d].cursor = 0 /\ Undisturbed(d)))
    /\ UNCHANGED <<serverVars, view, link, boundVars, net, readVars, loading, rs,
                   moveVars>>

LastId(page) == CHOOSE t \in Tasks : /\ page[t] # Gone
                                     /\ \A u \in Tasks : page[u] # Gone => u <= t

onPage(first, page) ==
    IF first THEN page
    ELSE [t \in Tasks |-> IF view[t] = Gone THEN page[t] ELSE view[t]]

(* The last page of a resync frees the next one (finally of runResync).    *)
ResyncEnds(d, s) ==
    IF d # "resync" THEN s
    ELSE IF s.queued THEN requestResync([s EXCEPT !.running = FALSE, !.queued = FALSE])
    ELSE [s EXCEPT !.running = FALSE]

ApplyPage(d) ==
    LET this == drains[d] IN
    /\ this.pc = "read"
    /\ view' = onPage(this.cursor = 0, this.page)
    /\ drains' = [drains EXCEPT ![d] =
                     IF this.more THEN [FirstPage EXCEPT !.cursor = LastId(this.page)]
                     ELSE NoDrain]
    /\ rs' = IF this.more THEN rs ELSE ResyncEnds(d, rs)
    /\ UNCHANGED <<serverVars, link, boundVars, net, readVars, loading, moveVars,
                   lost, skipped, raced>>

(* reveal, once the details and the first page have arrived or one failed. *)
Reveal ==
    /\ loading
    /\ \/ /\ drains["load"].cursor # 0 \/ drains["load"].pc = "idle"
          /\ UNCHANGED boundVars
       \/ Fails
    /\ loading' = FALSE
    /\ rs' = [rs EXCEPT !.fresh = TRUE]
    /\ UNCHANGED <<serverVars, view, link, net, readVars, drains, moveVars,
                   lost, skipped, raced>>

(* A drain fails: the board keeps what it has.                             *)
DrainFails(d) ==
    /\ drains[d].pc = "asked"
    /\ drains' = [drains EXCEPT ![d] = NoDrain]
    /\ rs' = ResyncEnds(d, rs)
    /\ Fails /\ raced' = TRUE
    /\ UNCHANGED <<serverVars, view, link, net, readVars, loading, moveVars,
                   lost, skipped>>

(* Only the details of a resync fail (at most one stray drain at a time).  *)
DetailsFail ==
    /\ drains["resync"].pc # "idle" /\ drains["stray"].pc = "idle"
    /\ drains' = [drains EXCEPT !["resync"] = NoDrain, !["stray"] = drains["resync"]]
    /\ rs' = ResyncEnds("resync", rs)
    /\ Fails
    /\ UNCHANGED <<serverVars, view, link, net, readVars, loading, moveVars,
                   lost, skipped, raced>>

runResync ==
    /\ rs.timer
    /\ rs' = [fresh |-> TRUE, timer |-> FALSE, running |-> TRUE, queued |-> FALSE]
    /\ drains' = [drains EXCEPT !["resync"] = FirstPage]
    /\ UNCHANGED <<serverVars, view, link, boundVars, net, readVars, loading,
                   moveVars, lost, skipped, raced>>

(* RESYNC_FRESH_WINDOW_MS is over.                                         *)
FreshEnds ==
    /\ rs.fresh
    /\ rs' = [rs EXCEPT !.fresh = FALSE]
    /\ UNCHANGED <<serverVars, view, link, boundVars, net, readVars, drains, loading,
                   moveVars, lost, skipped, raced>>

-----------------------------------------------------------------------------
(* commitTaskMove: optimistic, then PATCH.                                 *)
commitTaskMove(t) ==
    LET g == generation + 1 IN
    /\ ~ loading /\ g <= MaxMoves /\ WritesLeft > 0
    /\ view[t] # Gone
    /\ generation' = g
    /\ moves' = [moves EXCEPT ![g] =
                     [NoMove EXCEPT !.pc = "sent", !.task = t, !.snap = view]]
    /\ view' = [view EXCEPT ![t].pos = Guess]
    /\ UNCHANGED <<serverVars, link, boundVars, net, readVars, drains, loading, rs,
                   lost, skipped, raced>>

(* The PATCH commits and answers, or commits and its answer is lost ...    *)
MoveCommits(g) ==
    LET t == moves[g].task
        rec == [tasks[t] EXCEPT !.pos = writes + 1] IN
    /\ moves[g].pc = "sent" /\ tasks[t] # Gone
    /\ Write(t, rec, [type |-> "moved", task |-> t, pos |-> writes + 1, own |-> TRUE])
    /\ \/ /\ moves' = [moves EXCEPT ![g].pc = "answered", ![g].rec = rec]
          /\ UNCHANGED boundVars
       \/ Fails /\ moves' = [moves EXCEPT ![g].pc = "failed"]
    /\ UNCHANGED <<born, view, link, readVars, drains, loading, rs, generation,
                   skipped>>

(* ... or it does not: refused (the task may be gone) or never received.   *)
MoveRefused(g) ==
    /\ moves[g].pc = "sent"
    /\ moves' = [moves EXCEPT ![g].pc = "failed"]
    /\ Fails \/ (tasks[moves[g].task] = Gone /\ UNCHANGED boundVars)
    /\ UNCHANGED <<serverVars, view, link, net, readVars, drains, loading,
                   rs, generation, lost, skipped, raced>>

MoveAnswered(g) ==
    LET t == moves[g].task IN
    /\ moves[g].pc = "answered"
    /\ view' = [view EXCEPT ![t] = IF @ = Gone THEN @ ELSE moves[g].rec]
    /\ moves' = [moves EXCEPT ![g] = [NoMove EXCEPT !.pc = "done"]]
    /\ UNCHANGED <<serverVars, link, boundVars, net, readVars, drains, loading, rs,
                   generation, lost, skipped, raced>>

(* The latest move rolls back to its snapshot, an older one reloads.       *)
MoveFailed(g) ==
    LET t == moves[g].task IN
    /\ moves[g].pc = "failed"
    /\ moves' = [moves EXCEPT ![g] = [NoMove EXCEPT !.pc = "done"]]
    /\ IF g = generation
       THEN /\ view' = moves[g].snap
            /\ raced' = (raced \/ view # [moves[g].snap EXCEPT ![t].pos = Guess])
            /\ UNCHANGED drains
       ELSE /\ drains' = [drains EXCEPT !["retry"] = FirstPage]
            /\ UNCHANGED <<view, raced>>
    /\ UNCHANGED <<serverVars, link, boundVars, net, readVars, loading, rs,
                   generation, lost, skipped>>

-----------------------------------------------------------------------------
ReadStep == \/ \E t \in Tasks : UpsertFires(t) \/ TaskRead(t)
            \/ \E a \in answers : ApplyRead(a)

DrainStep == \E d \in Drain : ReadPage(d) \/ ApplyPage(d) \/ DrainFails(d)

MoveStep == \E g \in 1 .. MaxMoves : \/ MoveCommits(g) \/ MoveRefused(g)
                                     \/ MoveAnswered(g) \/ MoveFailed(g)

Settled ==
    /\ link = "live" /\ net = << >>
    /\ timers = {} /\ answers = {} /\ \A t \in Tasks : asked[t] = 0
    /\ \A d \in Drain : drains[d].pc = "idle"
    /\ ~ loading /\ ~ rs.timer
    /\ \A g \in 1 .. MaxMoves : moves[g].pc \in {"none", "done"}

(* Nothing is left to happen within the bounds.                            *)
Quiet == Settled /\ ~ rs.fresh /\ UNCHANGED syncVars

SyncNext == \/ DetailsFail \/ Reveal
        \/ \E t \in Tasks : RemoteWrite(t) \/ commitTaskMove(t)
        \/ Join \/ Dropped \/ HandleEvent
        \/ ReadStep \/ DrainStep \/ runResync \/ FreshEnds \/ MoveStep
        \/ Quiet

-----------------------------------------------------------------------------
(* Properties.                                                             *)

(* The cache, the requests under way and the refs of requestResync keep    *)
(* their shapes: a row of the board is a whole task or none.               *)
SyncTypeOK ==
    /\ tasks \in Cache /\ view \in Cache
    /\ writes \in 0 .. MaxWrites /\ drops \in 0 .. MaxDrops
    /\ failures \in 0 .. MaxFailures
    /\ link \in {"off", "room", "live"}
    /\ \A i \in DOMAIN net :
          net[i].type \in {"ack", "created", "updated", "moved", "deleted"}
    /\ timers \subseteq Tasks /\ asked \in [Tasks -> Nat]
    /\ answers \subseteq [task : Tasks, rec : Rec]
    /\ \A d \in Drain : /\ drains[d].pc \in {"idle", "asked", "read"}
                        /\ drains[d].page \in Cache
    /\ loading \in BOOLEAN
    /\ rs \in [fresh : BOOLEAN, timer : BOOLEAN, running : BOOLEAN, queued : BOOLEAN]
    /\ \A g \in 1 .. MaxMoves :
          moves[g].pc \in {"none", "sent", "answered", "failed", "done"}
    /\ generation \in 0 .. MaxMoves
    /\ born \subseteq Tasks
    /\ lost \in BOOLEAN /\ skipped \in BOOLEAN /\ raced \in BOOLEAN

(* A board that shows itself live and has nothing under way is the         *)
(* server's board, unless a read or a move failed or was overtaken by a    *)
(* write, or the fresh window dropped the resync of a join that had missed *)
(* an event: the handlers, the debounced reads, the queued resyncs and the *)
(* paged drains lose nothing of their own.                                 *)
SettledBoardIsCurrent == Settled /\ ~ skipped /\ ~ raced => view = tasks

(* The caches keep their types and a settled board is the server's.        *)
SyncSound == SyncTypeOK /\ SettledBoardIsCurrent

-----------------------------------------------------------------------------
(* Why they hold: the inductive strengthening of the invariants above.     *)
SyncSpec == SyncInit /\ [][SyncNext]_syncVars

ServerRec == [pos : 0 .. MaxWrites, body : 0 .. MaxWrites]
Board == [Tasks -> ServerRec \cup {Gone}]
Events == [type : {"ack"}, task : {0}]
          \cup [type : {"created", "updated", "deleted"}, task : Tasks]
          \cup [type : {"moved"}, task : Tasks, pos : 0 .. MaxWrites, own : BOOLEAN]
Drains == [pc : {"idle", "asked", "read"}, cursor : Tasks \cup {0}, page : Board, more : BOOLEAN]
Moves == [pc : {"none", "sent", "answered", "failed", "done"}, task : Tasks \cup {0},
          snap : Cache, rec : ServerRec \cup {Gone}]
Pending == {"sent", "answered", "failed"}

SyncShape ==
    /\ tasks \in Board /\ born \subseteq Tasks /\ \A t \in Tasks \ born : tasks[t] = Gone
    /\ view \in Cache /\ link \in {"off", "room", "live"}
    /\ drops \in 0 .. MaxDrops /\ failures \in 0 .. MaxFailures
    /\ net \in Seq(Events) /\ (link = "off" => net = << >>)
    /\ timers \subseteq Tasks /\ asked \in [Tasks -> Nat]
    /\ answers \subseteq [task : Tasks, rec : ServerRec]
    /\ drains \in [Drain -> Drains] /\ loading \in BOOLEAN
    /\ rs \in [fresh : BOOLEAN, timer : BOOLEAN, running : BOOLEAN, queued : BOOLEAN]
    /\ lost \in BOOLEAN /\ skipped \in BOOLEAN /\ raced \in BOOLEAN

(* A write is left for every move on its way.                              *)
MovesShape ==
    /\ writes \in Nat /\ WritesLeft >= 0
    /\ moves \in [1 .. MaxMoves -> Moves] /\ generation \in 0 .. MaxMoves
    /\ \A g \in 1 .. MaxMoves : /\ g > generation => moves[g].pc = "none"
                                /\ moves[g].pc \in Pending => moves[g].task \in Tasks

(* The events on their way tell what was written: the last move of a task  *)
(* has its position.                                                       *)
Told(t, kinds) == \E i \in DOMAIN net : net[i].task = t /\ net[i].type \in kinds
LastMove(i) == ~ \E j \in DOMAIN net : j > i /\ net[j].type = "moved" /\ net[j].task = net[i].task
EventsTrue ==
    \A i \in DOMAIN net :
       /\ net[i].type # "ack" => net[i].task \in born
       /\ net[i].type = "deleted" => tasks[net[i].task] = Gone
       /\ net[i].type = "moved" /\ LastMove(i) /\ tasks[net[i].task] # Gone
             => net[i].pos = tasks[net[i].task].pos

(* A full page leaves out only what lies beyond it.                        *)
Beyond(page, t) == \A u \in Tasks : page[u] # Gone => u < t
PageEnds(d) ==
    drains[d].pc = "read" /\ drains[d].more =>
       \E t \in Tasks : /\ drains[d].page[t] # Gone
                        /\ \A u \in Tasks : drains[d].page[u] # Gone => u <= t

(* Unless overtaken, what was read and answered is what the server has.    *)
PageTrue(d) ==
    drains[d].pc = "read" => \A t \in Tasks :
       /\ drains[d].page[t] # Gone => drains[d].page[t] = tasks[t]
       /\ t > drains[d].cursor /\ tasks[t] # Gone =>
             drains[d].page[t] # Gone \/ (drains[d].more /\ Beyond(drains[d].page, t))
AnswersTrue ==
    /\ \A a \in answers : a.rec = tasks[a.task]
    /\ \A g \in 1 .. MaxMoves : moves[g].pc = "answered" => moves[g].rec = tasks[moves[g].task]
    /\ \A d \in Drain : PageTrue(d)

(* The refs of requestResync: a resync that is queued will run.            *)
RefsFit ==
    /\ loading => link = "off" /\ ~rs.timer /\ ~rs.running
    /\ rs.queued => rs.running
    /\ rs.running => ~rs.timer /\ drains["resync"].pc # "idle"
    /\ rs.queued => ~rs.fresh
    /\ skipped => lost

(* An event that was missed will be made up for by a drain.                *)
FirstAsked == \E d \in Drain : drains[d].pc = "asked" /\ drains[d].cursor = 0
Chased == lost /\ ~skipped => link # "live" \/ rs.timer \/ rs.queued \/ FirstAsked

(* What the cache has of a task is the server's, or what makes it so is on *)
(* its way: a read, an event, a move or a page.                            *)
Coming(t) == t \in timers \/ asked[t] > 0 \/ (\E a \in answers : a.task = t) \/ Told(t, {"updated"})
Moving(t, but) == \E g \in (1 .. MaxMoves) \ {but} : moves[g].task = t /\ moves[g].pc \in Pending
InPages(t) == \E d \in Drain : drains[d].pc # "idle" /\ drains[d].cursor < t
Fits(v, t, but) ==
    \/ tasks[t] = Gone /\ (v = Gone \/ Told(t, {"deleted"}))
    \/ tasks[t] # Gone /\ Coming(t)
    \/ /\ tasks[t] # Gone /\ v # Gone /\ v.body = tasks[t].body
       /\ v.pos = tasks[t].pos \/ Told(t, {"moved"}) \/ Moving(t, but)
    \/ tasks[t] # Gone /\ v = Gone /\ (Told(t, {"created"}) \/ InPages(t))

(* The snapshot of the latest move fits, too, while the move stands.       *)
Stands(g) == /\ g = generation /\ moves[g].pc \in {"sent", "failed"}
             /\ view[moves[g].task] = [moves[g].snap[moves[g].task] EXCEPT !.pos = Guess]
SnapFits(g) == Stands(g) => /\ moves[g].snap[moves[g].task] # Gone
                            /\ Fits(moves[g].snap[moves[g].task], moves[g].task, g)
Renewed == \E d \in Drain : drains[d].pc # "idle" /\ drains[d].cursor = 0
Explained == ~lost /\ ~Renewed => /\ \A t \in Tasks : Fits(view[t], t, 0)
                                  /\ \A g \in 1 .. MaxMoves : SnapFits(g)

SyncInv == /\ SyncShape /\ MovesShape /\ EventsTrue /\ RefsFit
           /\ \A d \in Drain : PageEnds(d)
           /\ ~raced => AnswersTrue /\ Chased /\ Explained
=============================================================================
