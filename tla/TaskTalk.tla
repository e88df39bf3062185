------------------------------ MODULE TaskTalk ------------------------------
(***************************************************************************)
(* The discussion of the task a panel shows: comments in pages, the        *)
(* history beside them and the text being written (use-task-metadata.ts,   *)
(* task-discussion-panel.tsx, task-comments-section.tsx), over the generic *)
(* read of use-api-resource.ts, which a comment event starts again.        *)
(* Comments are numbered in the order they were made.                      *)
(***************************************************************************)
EXTENDS Integers, FiniteSets

CONSTANTS TalkTasks,
          Thread0,              \* the comments of each task at first
          COMMENTS_PAGE_LIMIT,
          MaxComments,          \* bound: comments of all tasks
          MaxTalkWork           \* bound: writes, clicks, switches and failures

ASSUME TalkAssumption ==
    /\ COMMENTS_PAGE_LIMIT \in Nat \ {0} /\ MaxComments \in Nat /\ MaxTalkWork \in Nat
    /\ Thread0 \in [TalkTasks -> SUBSET (1 .. MaxComments)]
    /\ \E n \in 0 .. MaxComments : UNION {Thread0[t] : t \in TalkTasks} = 1 .. n
    /\ \A t, u \in TalkTasks : t # u => Thread0[t] \cap Thread0[u] = {}   \* a comment has one taskId

VARIABLES thread,     \* the server's comments
          acts,       \* and how many activities it has of each task
          made,       \* the number of the last comment
          talkTask,   \* the taskId prop
          meta,       \* data: comments, cursor (0 is none), activities
          metaLoading, metaFailed,
          talkCalls,
          stir,       \* a comment.added event on its way
          body,       \* commentBody
          retries,    \* failed pages that offer a retry
          wrote,      \* history: the text last typed, and whether the server has it
          skewed,     \* history: an answer met another list than it was asked for
          talkWork

talkVars == <<thread, acts, made, talkTask, meta, metaLoading, metaFailed, talkCalls,
              stir, body, retries, wrote, skewed, talkWork>>

InitialData == [comments |-> {}, cursor |-> 0, acts |-> 0]
TalkCall(kind, t, cur) ==
    [kind |-> kind, task |-> t, cursor |-> cur, data |-> InitialData, id |-> 0, phase |-> "sent"]

(* A discussion opens with its read out.                                    *)
TalkWith(first, reads) ==
    /\ thread = Thread0 /\ acts = [t \in TalkTasks |-> 0]
    /\ made = Cardinality(UNION {Thread0[t] : t \in TalkTasks})
    /\ talkTask = first /\ talkCalls = reads
    /\ meta = InitialData /\ metaLoading = (reads # {}) /\ metaFailed = (reads = {})
    /\ stir = FALSE /\ body = "" /\ retries = {}
    /\ wrote = [any |-> FALSE, kept |-> FALSE] /\ skewed = FALSE /\ talkWork = 0

TalkInit == \E t \in TalkTasks : TalkWith(t, {TalkCall("meta", t, 0)})

SpendTalk == talkWork < MaxTalkWork /\ talkWork' = talkWork + 1
posting == \E c \in talkCalls : c.kind \in {"post", "del"} \/ (c.kind = "acts" /\ c.id # 0)
loadingMore == \E c \in talkCalls : c.kind = "more"

(* useApiResource: a request that differs from the last aborts its read and *)
(* starts one; what is shown stays until the answer.                        *)
StartRead(t) ==
    /\ metaLoading' = TRUE /\ metaFailed' = FALSE
    /\ talkCalls' = {c \in talkCalls : c.kind # "meta"} \cup {TalkCall("meta", t, 0)}

Refresh ==
    /\ stir /\ stir' = FALSE /\ StartRead(talkTask)
    /\ UNCHANGED <<thread, acts, made, talkTask, meta, body, retries, wrote, skewed, talkWork>>

SwitchTalk(t) ==
    /\ t # talkTask /\ SpendTalk /\ talkTask' = t /\ StartRead(t)
    /\ skewed' = (skewed \/ posting)
    /\ UNCHANGED <<thread, acts, made, meta, stir, body, retries, wrote>>

-----------------------------------------------------------------------------
(* What the reader does.                                                    *)
Ask(c) == talkCalls' = talkCalls \cup {c}

loadMoreComments ==
    /\ meta.cursor # 0 /\ ~loadingMore /\ SpendTalk
    /\ Ask(TalkCall("more", talkTask, meta.cursor))
    /\ UNCHANGED <<thread, acts, made, talkTask, meta, metaLoading, metaFailed, stir,
                   body, retries, wrote, skewed>>

(* The toast's retry runs the same closure: same task, same cursor.         *)
RetryMore(c) ==
    /\ SpendTalk /\ retries' = retries \ {c}
    /\ IF c.task = talkTask THEN Ask([c EXCEPT !.phase = "sent"]) ELSE UNCHANGED talkCalls
    /\ UNCHANGED <<thread, acts, made, talkTask, meta, metaLoading, metaFailed, stir,
                   body, wrote, skewed>>

TypeText ==
    /\ ~posting /\ body = "" /\ SpendTalk
    /\ body' = "text" /\ wrote' = [any |-> TRUE, kept |-> FALSE]
    /\ UNCHANGED <<thread, acts, made, talkTask, meta, metaLoading, metaFailed, talkCalls,
                   stir, retries, skewed>>

submit ==
    /\ body # "" /\ ~posting /\ Ask(TalkCall("post", talkTask, 0))
    /\ UNCHANGED <<thread, acts, made, talkTask, meta, metaLoading, metaFailed, stir,
                   body, retries, wrote, skewed, talkWork>>

removeComment(i) ==
    /\ i \in meta.comments /\ ~posting /\ SpendTalk
    /\ Ask([TalkCall("del", talkTask, 0) EXCEPT !.id = i])
    /\ UNCHANGED <<thread, acts, made, talkTask, meta, metaLoading, metaFailed, stir,
                   body, retries, wrote, skewed>>

-----------------------------------------------------------------------------
(* The server.                                                              *)
PageAfter(t, cur) ==
    LET after == {i \in thread[t] : i > cur}
        page == {i \in after : Cardinality({j \in after : j <= i}) <= COMMENTS_PAGE_LIMIT}
    IN [comments |-> page, acts |-> acts[t],
        cursor |-> IF page = after THEN 0 ELSE CHOOSE i \in page : \A j \in page : j <= i]

Became(c, d) == talkCalls' = (talkCalls \ {c}) \cup {d}

Create(t) ==
    /\ made < MaxComments /\ made' = made + 1
    /\ thread' = [thread EXCEPT ![t] = @ \cup {made'}]
    /\ acts' = [acts EXCEPT ![t] = @ + 1]
    /\ stir' = (stir \/ t = talkTask)

ServePost(c) ==
    /\ c.phase = "sent" /\ c.kind = "post" /\ Create(c.task)
    /\ wrote' = [wrote EXCEPT !.kept = TRUE]
    /\ \/ Became(c, [c EXCEPT !.phase = "ok", !.id = made']) /\ UNCHANGED talkWork
       \/ SpendTalk /\ Became(c, [c EXCEPT !.phase = "failed"])
    /\ UNCHANGED <<talkTask, meta, metaLoading, metaFailed, body, retries, skewed>>

ServeDelete(c) ==
    /\ c.phase = "sent" /\ c.kind = "del" /\ c.id \in thread[c.task]
    /\ thread' = [thread EXCEPT ![c.task] = @ \ {c.id}]
    /\ Became(c, [c EXCEPT !.phase = "ok"])
    /\ UNCHANGED <<acts, made, talkTask, meta, metaLoading, metaFailed, stir, body,
                   retries, wrote, skewed, talkWork>>

ServeTalkRead(c) ==
    /\ c.phase = "sent" /\ c.kind \in {"meta", "more", "acts"}
    /\ Became(c, [c EXCEPT !.phase = "ok", !.data = PageAfter(c.task, c.cursor)])
    /\ UNCHANGED <<thread, acts, made, talkTask, meta, metaLoading, metaFailed, stir,
                   body, retries, wrote, skewed, talkWork>>

RefuseTalk(c) ==
    /\ c.phase = "sent" /\ Became(c, [c EXCEPT !.phase = "failed"])
    /\ \/ c.kind = "del" /\ c.id \notin thread[c.task] /\ UNCHANGED talkWork
       \/ SpendTalk
    /\ UNCHANGED <<thread, acts, made, talkTask, meta, metaLoading, metaFailed, stir,
                   body, retries, wrote, skewed>>

OthersComment(t) ==
    /\ SpendTalk /\ Create(t)
    /\ UNCHANGED <<talkTask, meta, metaLoading, metaFailed, talkCalls, body, retries,
                   wrote, skewed>>

-----------------------------------------------------------------------------
(* What comes back.                                                         *)
Done(c) == talkCalls' = talkCalls \ {c}

MetaAnswered(c) ==
    /\ c.kind = "meta" /\ c.phase # "sent" /\ Done(c) /\ metaLoading' = FALSE
    /\ IF c.phase = "ok" THEN meta' = c.data /\ metaFailed' = FALSE
                         ELSE meta' = InitialData /\ metaFailed' = TRUE
    /\ skewed' = (posting \/ \E d \in talkCalls : d.kind = "more" /\ d.task = talkTask)
    /\ UNCHANGED <<body, retries, wrote>>

(* The page of a task no longer shown is dropped, and so is its failure.    *)
(* Faulty variant: the page is taken whatever task is shown.                *)
MoreAnsweredAnyTask(c) ==
    /\ c.kind = "more" /\ c.phase # "sent" /\ Done(c)
    /\ meta' = IF c.phase = "ok"
               THEN [meta EXCEPT !.comments = @ \cup c.data.comments, !.cursor = c.data.cursor]
               ELSE meta
    /\ UNCHANGED <<metaLoading, metaFailed, body, retries, wrote, skewed>>

MoreAnswered(c) ==
    /\ c.kind = "more" /\ c.phase # "sent" /\ Done(c)
    /\ IF c.task # talkTask THEN UNCHANGED <<meta, retries, skewed>>
       ELSE IF c.phase = "ok"
       THEN /\ meta' = [meta EXCEPT !.comments = @ \cup c.data.comments,
                                    !.cursor = c.data.cursor]
            /\ skewed' = (skewed \/ c.cursor # meta.cursor)
            /\ UNCHANGED retries
       ELSE retries' = retries \cup {c} /\ UNCHANGED <<meta, skewed>>
    /\ UNCHANGED <<metaLoading, metaFailed, body, wrote>>

(* The post adds its comment and then waits for the history.                *)
PostAnswered(c) ==
    /\ c.kind = "post" /\ c.phase # "sent"
    /\ IF c.phase = "ok"
       THEN /\ meta' = [meta EXCEPT !.comments = @ \cup {c.id}]
            /\ IF c.task = talkTask
               THEN Became(c, [TalkCall("acts", c.task, 0) EXCEPT !.id = c.id]) /\ UNCHANGED body
               ELSE Done(c) /\ body' = ""
       ELSE Done(c) /\ UNCHANGED <<meta, body>>
    /\ UNCHANGED <<metaLoading, metaFailed, retries, wrote, skewed>>

ActsAnswered(c) ==
    /\ c.kind = "acts" /\ c.phase # "sent" /\ Done(c) /\ body' = ""
    /\ meta' = IF c.phase = "ok" /\ c.task = talkTask
               THEN [meta EXCEPT !.acts = c.data.acts] ELSE meta
    /\ UNCHANGED <<metaLoading, metaFailed, retries, wrote, skewed>>

DeleteAnswered(c) ==
    /\ c.kind = "del" /\ c.phase # "sent" /\ Done(c)
    /\ meta' = IF c.phase = "ok" THEN [meta EXCEPT !.comments = @ \ {c.id}] ELSE meta
    /\ UNCHANGED <<metaLoading, metaFailed, body, retries, wrote, skewed>>

TalkAnswered(c) ==
    /\ \/ MetaAnswered(c) \/ MoreAnswered(c) \/ PostAnswered(c)
       \/ ActsAnswered(c) \/ DeleteAnswered(c)
    /\ UNCHANGED <<thread, acts, made, talkTask, stir, talkWork>>

TalkNetwork ==
    \E c \in talkCalls : \/ ServePost(c) \/ ServeDelete(c) \/ ServeTalkRead(c)
                         \/ RefuseTalk(c) \/ TalkAnswered(c)

TalkNext ==
    \/ Refresh \/ loadMoreComments \/ TypeText \/ submit
    \/ \E c \in retries : RetryMore(c)
    \/ \E i \in 1 .. MaxComments : removeComment(i)
    \/ \E t \in TalkTasks : SwitchTalk(t) \/ OthersComment(t)
    \/ TalkNetwork

TalkSpec == TalkInit /\ [][TalkNext]_talkVars

TalkFairness == WF_talkVars(TalkNetwork) /\ WF_talkVars(Refresh)

-----------------------------------------------------------------------------
(* The thread, the list and the calls keep their shape; one read of the     *)
(* discussion is out at a time.                                             *)
TalkTypeOK ==
    /\ thread \in [TalkTasks -> SUBSET (1 .. made)] /\ made <= MaxComments
    /\ meta.comments \subseteq 1 .. made /\ meta.cursor \in 0 .. made
    /\ Cardinality({c \in talkCalls : c.kind = "meta"}) <= 1
    /\ body \in {"", "text"}

(* When a discussion is at rest, what is not on screen lies behind its      *)
(* "load more": every comment up to the cursor is listed, and all of them   *)
(* when there is no cursor - but for an answer that met another list than   *)
(* it was asked for: a page that lands on a list read again, a post whose   *)
(* task was left (use-task-metadata.ts:172).                                *)
NoCommentSkipped ==
    (~metaLoading /\ ~metaFailed /\ ~stir /\ ~posting /\ ~skewed) =>
        \A i \in thread[talkTask] \ meta.comments : meta.cursor # 0 /\ i > meta.cursor

(* No comment of another task is on screen once its own have loaded, but    *)
(* for a post whose task was left while it was out.                         *)
CommentsOfShownTask ==
    (~metaLoading /\ ~skewed) =>
        \A t \in TalkTasks \ {talkTask} : meta.comments \cap thread[t] = {}

(* A text that was typed leaves the field only when the server has it       *)
(* (task-comments-section.tsx:112).                                         *)
TextNeverLost == (wrote.any /\ body = "") => wrote.kept

(* A discussion that loads comes to an end, however often it is refreshed   *)
(* or its task switched within the bounds.                                  *)
TalkLoadingEnds == metaLoading ~> ~metaLoading

(* The comments listed are those of the task shown, none is skipped, and   *)
(* no text is lost.                                                        *)
TalkSound == TalkTypeOK /\ NoCommentSkipped /\ CommentsOfShownTask /\ TextNeverLost

-----------------------------------------------------------------------------
(* Why they hold: the inductive strengthening of the invariants above.     *)
TalkData == [comments : SUBSET (1 .. MaxComments), cursor : 0 .. MaxComments, acts : Nat]
TalkCalls == [kind : {"meta", "more", "post", "acts", "del"}, task : TalkTasks,
              cursor : 0 .. MaxComments, data : TalkData, id : 0 .. MaxComments,
              phase : {"sent", "ok", "failed"}]

TalkShape ==
    /\ made \in 0 .. MaxComments /\ thread \in [TalkTasks -> SUBSET (1 .. made)]
    /\ acts \in [TalkTasks -> Nat] /\ talkTask \in TalkTasks
    /\ meta \in TalkData /\ meta.comments \subseteq 1 .. made /\ meta.cursor <= made
    /\ metaLoading \in BOOLEAN /\ metaFailed \in BOOLEAN /\ stir \in BOOLEAN
    /\ body \in {"", "text"} /\ wrote \in [any : BOOLEAN, kept : BOOLEAN]

(* A comment belongs to one task.                                          *)
OneThread == \A t, u \in TalkTasks : t # u => thread[t] \cap thread[u] = {}

(* What a page leaves out lies beyond its cursor.                          *)
LeavesOut(data, from, t) ==
    \A i \in thread[t] : i > from /\ i \notin data.comments => data.cursor # 0 /\ i > data.cursor

(* Unless a comment was added that no read has met, what is on screen      *)
(* leaves out only what lies beyond the cursor.                            *)
ShownFits ==
    ~metaLoading /\ ~skewed =>
       /\ \A u \in TalkTasks \ {talkTask} : meta.comments \cap thread[u] = {}
       /\ ~metaFailed /\ ~stir => LeavesOut(meta, 0, talkTask)

(* A call brings comments of its own task, what it deleted is gone, and    *)
(* the text of a post that succeeded is kept.                              *)
CallShape(c) == /\ c \in TalkCalls
                /\ c.data.comments \subseteq 1 .. made /\ c.data.cursor <= made /\ c.id <= made
CallBrings(c) ==
    c.phase = "ok" =>
       /\ \A u \in TalkTasks \ {c.task} : c.data.comments \cap thread[u] = {}
       /\ c.kind = "post" => c.id > 0 /\ \A u \in TalkTasks \ {c.task} : c.id \notin thread[u]
       /\ c.kind = "del" => \A u \in TalkTasks : c.id \notin thread[u]
CallKeeps(c) == /\ c.kind = "acts" => c.id > 0 /\ wrote.kept
                /\ c.kind = "post" /\ c.phase = "ok" => wrote.kept
                /\ c.kind \in {"post", "del"} => c.data.comments = {}

(* The read of the discussion is one of the shown task; a page continues   *)
(* the list it was asked for.                                              *)
CallReads(c) ==
    c.kind = "meta" => /\ metaLoading /\ c.task = talkTask /\ c.cursor = 0
                       /\ c.phase = "ok" /\ ~stir => LeavesOut(c.data, 0, talkTask)
CallContinues(c) ==
    ~metaLoading /\ ~skewed =>
       /\ c.kind = "post" => c.task = talkTask
       /\ c.kind = "more" /\ c.phase = "ok" /\ c.task = talkTask /\ ~metaFailed /\ ~stir =>
             LeavesOut(c.data, c.cursor, talkTask)
CallFits(c) == CallShape(c) /\ CallBrings(c) /\ CallKeeps(c) /\ CallReads(c) /\ CallContinues(c)

OneRead == \A c, d \in talkCalls : c.kind = "meta" /\ d.kind = "meta" => c = d

TalkInv == /\ TalkShape /\ OneThread /\ ShownFits /\ TextNeverLost /\ OneRead
           /\ \A c \in talkCalls : CallFits(c)
           /\ \A c \in retries : CallShape(c) /\ c.kind = "more"
=============================================================================
