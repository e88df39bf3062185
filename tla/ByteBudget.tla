----------------------------- MODULE ByteBudget -----------------------------
(***************************************************************************)
(* The two limiters that keep their counters in Redis: the byte budget of  *)
(* uploads (common/rate-limit/upload-budget.ts) and the attempt limit of   *)
(* /auth (auth/auth-rate-limit.ts).  One fixed window per client, shared   *)
(* by all instances through Redis; while Redis fails, each instance counts *)
(* in a bounded map of its own, which it keeps when Redis comes back.      *)
(*                                                                         *)
(* Time is a tick.  A window remembers how many ticks it has left.         *)
(***************************************************************************)
EXTENDS Naturals, Sequences, SequencesExt, FiniteSets

CONSTANTS Clients, Instances,
          Limit,        \* bytes, or attempts, a client has per window
          MaxBytes,     \* what an upload of undeclared length is charged
          Window,       \* ticks of a window
          MaxEntries,   \* entries of the in-memory map
          Watched       \* the client whose admitted bytes are counted

ASSUME BudgetAssumption ==
    /\ Limit \in Nat \ {0} /\ MaxBytes \in 1..Limit /\ Window \in Nat \ {0}
    /\ MaxEntries \in Nat \ {0} /\ Watched \in Clients

VARIABLES limiter,    \* "upload" or "auth"
          up,         \* Redis answers
          counters,   \* Redis: client -> window
          windows,    \* instance -> its map, in insertion order
          recent,     \* what Watched was let through in each of the last ticks
          forgot,     \* an instance dropped Watched's running window
          served      \* the last request of Watched was let through

budgetVars == <<limiter, up, counters, windows, recent, forgot, served>>

NoWindow == [total |-> 0, left |-> 0]
Capped(n) == IF n > Limit THEN Limit + 1 ELSE n
Live(w) == w.left > 0
Nothing == [t \in 1..Window |-> 0]

BudgetInit ==
    /\ limiter \in {"upload", "auth"}
    /\ up = TRUE
    /\ counters = [c \in Clients |-> NoWindow]
    /\ windows = [i \in Instances |-> << >>]
    /\ recent = Nothing
    /\ forgot = FALSE
    /\ served = TRUE
-----------------------------------------------------------------------------
(* Faulty variant: every charge renews the expiry.                         *)
CHARGE_SCRIPT_Renewing(w, bytes) == [total |-> Capped((IF Live(w) THEN w.total ELSE 0) + bytes), left |-> Window]

(* INCRBY creates the key when absent; a key without expiry opens a window.*)
CHARGE_SCRIPT(w, bytes) ==
    IF Live(w) THEN [w EXCEPT !.total = Capped(@ + bytes)]
    ELSE [total |-> Capped(bytes), left |-> Window]

EntryOf(s, c) == {n \in DOMAIN s : s[n].client = c}

(* An expired entry goes first, otherwise the one inserted first.          *)
evictOne(s) ==
    LET expired == {n \in DOMAIN s : ~Live(s[n])}
    IN RemoveAt(s, IF expired = {} THEN 1 ELSE CHOOSE n \in expired : \A m \in expired : n <= m)

(* chargeSync: a running window takes the bytes; an expired one is         *)
(* replaced at the tail; a new key makes room first when the map is full.  *)
chargeSync(s, c, bytes) ==
    LET entry == [client |-> c, total |-> Capped(bytes), left |-> Window]
    IN IF \E n \in EntryOf(s, c) : Live(s[n])
       THEN [n \in DOMAIN s |-> IF s[n].client = c THEN [s[n] EXCEPT !.total = Capped(@ + bytes)] ELSE s[n]]
       ELSE IF EntryOf(s, c) # {} THEN Append(SelectSeq(s, LAMBDA e : e.client # c), entry)
       ELSE Append(IF Len(s) >= MaxEntries THEN evictOne(s) ELSE s, entry)

(* The limiter of /auth runs the same script and the same map with one     *)
(* attempt at a time.                                                      *)
CONSUME_SCRIPT(w) == CHARGE_SCRIPT(w, 1)
consumeInMemory(s, c) == chargeSync(s, c, 1)

TotalOf(s, c) == LET n == CHOOSE n \in EntryOf(s, c) : TRUE IN s[n].total
Running(s, c) == \E n \in EntryOf(s, c) : Live(s[n])

(* What the answer does to the bookkeeping of the watched client; the sum  *)
(* is of interest as long as nothing is forgotten.                         *)
Answered(c, allowed, real) ==
    /\ recent' = IF forgot' THEN Nothing
                 ELSE IF c = Watched /\ allowed THEN [recent EXCEPT ![1] = @ + real] ELSE recent
    /\ served' = IF c = Watched THEN allowed ELSE served

(* RedisByteBudget.charge / consume: Redis decides, or the instance's own  *)
(* map does when Redis throws.  The map is kept across a recovery.         *)
Store(i, c, bytes, real) ==
    /\ \/ /\ up
          /\ counters' = [counters EXCEPT ![c] = IF limiter = "auth" THEN CONSUME_SCRIPT(@) ELSE CHARGE_SCRIPT(@, bytes)]
          /\ UNCHANGED <<windows, forgot>>
          /\ Answered(c, counters'[c].total <= Limit, real)
       \/ /\ ~up
          /\ windows' = [windows EXCEPT ![i] = IF limiter = "auth" THEN consumeInMemory(@, c)
                                           ELSE chargeSync(@, c, bytes)]
          /\ forgot' = (forgot \/ (Running(windows[i], Watched) /\ ~Running(windows'[i], Watched)))
          /\ Answered(c, TotalOf(windows'[i], c) <= Limit, real)
          /\ UNCHANGED counters
    /\ UNCHANGED <<limiter, up>>

(* The declared length, or the most an upload can have.                    *)
declaredBytes(declared) == IF declared = 0 THEN MaxBytes ELSE declared

(* UploadBudgetGuard: a multipart request is charged before it is read.    *)
UploadBudgetGuard(i, c) ==
    /\ limiter = "upload"
    /\ \E declared \in 0..MaxBytes, real \in 1..MaxBytes :
          /\ declared # 0 => real = declared
          /\ Store(i, c, declaredBytes(declared), real)

consume(i, c) ==
    /\ limiter = "auth"
    /\ Store(i, c, 1, 1)

(* Faulty variant: recovering clears the fallback.                         *)
RecoverClearing ==
    /\ ~up /\ up' = TRUE
    /\ windows' = [i \in Instances |-> << >>]
    /\ UNCHANGED <<limiter, counters, recent, forgot, served>>

(* Redis comes back, its counters with it.                                 *)
Recover ==
    /\ ~up /\ up' = TRUE
    /\ UNCHANGED <<limiter, counters, windows, recent, forgot, served>>

Fail ==
    /\ up /\ up' = FALSE
    /\ UNCHANGED <<limiter, counters, windows, recent, forgot, served>>

(* An instance restarts with an empty map.                                 *)
Restart(i) ==
    /\ windows[i] # << >>
    /\ windows' = [windows EXCEPT ![i] = << >>]
    /\ forgot' = (forgot \/ Running(windows[i], Watched))
    /\ recent' = IF forgot' THEN Nothing ELSE recent
    /\ UNCHANGED <<limiter, up, counters, served>>

Older(w) == [w EXCEPT !.left = IF @ = 0 THEN 0 ELSE @ - 1]

(* Time passes; Redis drops what expired, a map notices on the next charge.*)
Tick ==
    /\ counters' = [c \in Clients |-> IF counters[c].left <= 1 THEN NoWindow ELSE Older(counters[c])]
    /\ windows' = [i \in Instances |-> [n \in DOMAIN windows[i] |-> Older(windows[i][n])]]
    /\ recent' = [t \in 1..Window |-> IF t = 1 THEN 0 ELSE recent[t - 1]]
    /\ UNCHANGED <<limiter, up, forgot, served>>

Charge(c) == \E i \in Instances : UploadBudgetGuard(i, c) \/ consume(i, c)

BudgetNext == \/ \E c \in Clients : Charge(c)
              \/ Recover \/ Fail \/ Tick
              \/ \E i \in Instances : Restart(i)

(* Time passes, and the watched client keeps asking.                       *)
BudgetFairness == WF_budgetVars(Tick) /\ WF_budgetVars(Charge(Watched))
-----------------------------------------------------------------------------
Spent == FoldFunctionOnSet(+, 0, recent, 1..Window)

(* Totals and windows are in range and no map outgrows its bound           *)
(* (UPLOAD_BUDGET_FALLBACK_MAX_ENTRIES).                                   *)
BudgetTypeOK ==
    /\ limiter \in {"upload", "auth"} /\ up \in BOOLEAN /\ forgot \in BOOLEAN
    /\ counters \in [Clients -> [total : 0..(Limit + 1), left : 0..Window]]
    /\ \A i \in Instances : Len(windows[i]) <= MaxEntries

(* Whatever Redis does and however often it flaps, no span of one window   *)
(* lets through more than the two windows it can touch allow, in Redis and *)
(* in each instance: "a flapping connection cannot hand a client a clean   *)
(* slate on every flap".  An instance that restarts, or is out of room for *)
(* live windows, does forget.                                              *)
CeilingHolds == ~forgot => Spent <= 2 * Limit * (1 + Cardinality(Instances))

(* A client that keeps asking is let through again and again: the window   *)
(* is fixed, so refused requests do not push it on.                        *)
RefusedIsServedAgain == []<>served

(* The maps stay within their bound and the windows within their limit.    *)
BudgetHolds == BudgetTypeOK /\ CeilingHolds
=============================================================================
