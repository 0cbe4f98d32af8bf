--------------------------- MODULE TelegramStores ---------------------------
(***************************************************************************)
(* The two stores of the Telegram assistant, side by side: the one in      *)
(* memory the tests run on (domain/telegramAssistant/store.ts) and the one *)
(* in PostgreSQL the program runs on (postgresStore.ts).  Every call is    *)
(* made to both, and both should answer alike.                             *)
(*                                                                         *)
(* One table at a time.  In memory it is a map from ids to rows; in the    *)
(* database it is a set of rows, and a call is one statement, or a         *)
(* transaction that holds the row it read until it commits, so that a call *)
(* is one step.  A row keeps the columns the calls look at; `note` stands  *)
(* for the others.  Id 0 is nothing.                                       *)
(*                                                                         *)
(* A definition whose name has a suffix after an underscore is a seeded    *)
(* fault of the definition below it; no specification uses it.             *)
(***************************************************************************)
EXTENDS Naturals, FiniteSets, TLC

CONSTANTS
    Tables,     \* the tables a behaviour may be about
    Ids,        \* ids of rows: positive numbers, later ones greater
    Talks,      \* conversations
    Users,      \* who writes
    Day, Ttl,   \* how long a day is, and how long a row lives
    Forgets,    \* whether an administrator purges conversations
    Limit,      \* userTaskCreationDailyLimit
    MaxTime,    \* bound
    MaxCalls    \* bound

VARIABLES
    table,      \* the table the behaviour is about
    mem, sql,   \* its rows, in memory and in the database
    now, calls,
    said,       \* what the last call answered, in memory and in the database
    won,        \* callers that were given each row to act on
    created,    \* tasks drafted today, per user
    noticed     \* the event each subscription was last told of, in memory and in the database

vars == <<table, mem, sql, now, calls, said, won, created, noticed>>

\* Statuses that end a row, and those the sweep gives up when their time has come.
Over == CASE table = "actions" -> {"completed", "cancelled", "expired"}
          [] table = "drafts"  -> {"completed", "cancelled", "expired"}
          [] table = "prompts" -> {"answered", "cancelled", "expired"}
          [] table = "notices" -> {"sent", "failed"}
          [] table \in {"turns", "twins"} -> {"completed", "failed", "cancelled"}
          [] OTHER -> {"kept", "queued", "cancelled"}
Alive == CASE table = "actions" -> {"pending"}
           [] table = "drafts"  -> {"collecting", "awaiting"}
           [] table = "prompts" -> {"open"}
           [] OTHER -> {}

Expired(r) == r.until <= now
Since == (now \div Day) * Day

-----------------------------------------------------------------------------
(* The map *)

Put(m, r) == r.id :> r @@ m
Without(m, S) == [i \in DOMAIN m \ S |-> m[i]]
Rows(m) == {m[i] : i \in DOMAIN m}
NewestOf(S) ==
    IF S = {} THEN 0
    ELSE (CHOOSE r \in S : \A q \in S \ {r} : r.at > q.at \/ (r.at = q.at /\ r.id > q.id)).id

\* Most upserts; an upsert of an open prompt does not reopen one that is over.
MemUpsert(m, r) ==
    IF table = "prompts" /\ r.status = "open" /\ r.id \in DOMAIN m /\ m[r.id].status \in Over
    THEN <<m, m[r.id]>> ELSE <<Put(m, r), r>>

MemList(m, talk) == {r \in Rows(m) : r.talk = talk /\ (table = "queue" => r.status = "queued")}
MemCancel(m, talk) == LET S == MemList(m, talk) IN <<Without(m, {r.id : r \in S}), {r.id : r \in S}>>
MemDelete(m, id) == <<Without(m, {id}), 0>>

MemConsume(m, id, user, status) ==
    IF id \notin DOMAIN m \/ m[id].status # "pending" \/ m[id].user # user \/ Expired(m[id]) THEN <<m, 0>>
    ELSE <<Put(m, [m[id] EXCEPT !.status = status]), id>>
MemComplete(m, id, status) ==
    IF id \notin DOMAIN m THEN <<m, "error">>
    ELSE IF m[id].status \in Over THEN <<m, IF m[id].status = status THEN status ELSE "error">>
    ELSE <<Put(m, [m[id] EXCEPT !.status = status]), status>>
MemCount(m, user) == Cardinality({r \in Rows(m) : r.user = user /\ r.at >= Since})

MemActive(m, talk) == NewestOf({r \in Rows(m) : r.talk = talk /\ r.status \in Alive /\ ~Expired(r)})
MemFinish(m, id, status) ==
    IF id \notin DOMAIN m THEN <<m, "error">>
    ELSE <<Put(m, [m[id] EXCEPT !.status = status, !.at = now]), status>>

MemAnswer_Anybody(m, id, user) ==
    IF id \notin DOMAIN m \/ m[id].status # "open" \/ Expired(m[id]) THEN <<m, 0>>
    ELSE <<Put(m, [m[id] EXCEPT !.status = "answered", !.at = now]), id>>
MemAnswer(m, id, user) ==
    IF id \notin DOMAIN m \/ m[id].status # "open" \/ Expired(m[id]) \/ m[id].user \notin {0, user} THEN <<m, 0>>
    ELSE <<Put(m, [m[id] EXCEPT !.status = "answered", !.at = now]), id>>

\* A turn: the digital twin starts one where none runs.
MemStart(m, r) ==
    IF {q \in Rows(m) : q.talk = r.talk /\ q.status = "running"} # {} THEN <<m, 0>> ELSE <<Put(m, r), r.id>>
MemRunning(m, talk) == {r.id : r \in {r \in Rows(m) : r.talk = talk /\ r.status = "running"}}
MemEnd(m, id, status) ==
    IF id \notin DOMAIN m \/ m[id].status # "running" THEN <<m, 0>>
    ELSE <<Put(m, [m[id] EXCEPT !.status = status]), id>>

\* A message of the digital twin: `user` stands for its key, of which there is one row.
MemReserveMessage(m, r) ==
    LET S == {q \in Rows(m) : q.user = r.user}
    IN  IF S = {} THEN <<Put(m, r), <<TRUE, r.id>>>> ELSE <<m, <<FALSE, (CHOOSE q \in S : TRUE).id>>>>
MemDelivery(m, key, status) ==
    LET S == {q \in Rows(m) : q.user = key}
    IN  IF S = {} THEN <<m, "error">>
        ELSE <<Put(m, [(CHOOSE q \in S : TRUE) EXCEPT !.status = status]), status>>
MemPrune(m, before) == LET S == {r.id : r \in {r \in Rows(m) : r.at < before /\ r.note = "text"}}
                       IN  <<[i \in DOMAIN m |-> IF i \in S THEN [m[i] EXCEPT !.note = "none"] ELSE m[i]], Cardinality(S)>>
MemLast(m, talk, n) ==
    LET S == {r \in Rows(m) : r.talk = talk}
    IN  {r.id : r \in {q \in S : Cardinality({p \in S : p.at > q.at \/ (p.at = q.at /\ p.id > q.id)}) < n}}

\* A notice of one event to one subscription (`talk`), reserved under an id.
MemReserve(m, r) ==
    LET S == {q \in Rows(m) : q.talk = r.talk /\ q.user = r.user}
    IN  IF \E q \in S : q.status \in Over \/ ~Expired(q) THEN <<m, 0>>
        ELSE <<Put(Without(m, {q.id : q \in S}), r), r.id>>
MemSettle(m, r, status) ==
    LET S == {q \in Rows(m) : q.talk = r.talk /\ q.user = r.user}
    IN  IF ~\E q \in S : q.id = r.id THEN <<m, "error">>
        ELSE IF m[r.id].status \in Over THEN <<m, m[r.id].status>>
        ELSE <<Put(m, [m[r.id] EXCEPT !.status = status]), status>>
\* ... and the subscription keeps the event it was last told of.
MemTold(m, r, status) ==
    IF status = "sent" /\ r.id \in DOMAIN m /\ m[r.id].status \notin Over THEN [noticed[1] EXCEPT ![r.talk] = r.user] ELSE noticed[1]

\* shouldReplaceBusinessConnection: `user` is the update's number, 0 where there is none.
MemReplaces(old, new) == IF old.user # 0 /\ new.user # 0 THEN new.user > old.user ELSE new.at > old.at
MemConnect(m, r) == IF r.id \in DOMAIN m /\ ~MemReplaces(m[r.id], r) THEN <<m, m[r.id]>> ELSE <<Put(m, r), r>>

\* purgeExpiredTelegramAssistantData, purgeTelegramConversationData,
\* purgeDigitalTwinSessionData.
MemSweep(m) ==
    LET gone  == {i \in DOMAIN m : m[i].status \in Over /\ Expired(m[i])}
        given == {i \in DOMAIN m : m[i].status \in Alive /\ Expired(m[i])}
    IN  <<[i \in DOMAIN m \ gone |-> IF i \in given THEN [m[i] EXCEPT !.status = "expired", !.at = now] ELSE m[i]],
          Cardinality(gone) + Cardinality(given)>>
MemForget(m, talk) == LET S == {i \in DOMAIN m : m[i].talk = talk} IN <<Without(m, S), Cardinality(S)>>
MemForgetTwin(m, talk) == LET S == {i \in DOMAIN m : m[i].talk = talk} IN <<Without(m, S), Cardinality(S)>>

-----------------------------------------------------------------------------
(* The table *)

\* INSERT ... ON CONFLICT DO UPDATE, UPDATE ... WHERE, DELETE ... WHERE; the
\* second component is the rows RETURNING gives.
Inserted(t, r) == {q \in t : q.id # r.id} \cup {r}
Updated(t, S, f) == LET T == {f[r] : r \in S} IN <<(t \ S) \cup T, T>>
IdOf(S) == IF S = {} THEN 0 ELSE (CHOOSE r \in S : TRUE).id

SqlUpsertPrompt_Reopens(t, r) == <<Inserted(t, r), r>>
SqlUpsertPrompt(t, r) ==
    LET old == {q \in t : q.id = r.id}
    IN  IF old = {} \/ r.status # "open" \/ \E q \in old : q.status = "open" THEN <<Inserted(t, r), r>>
        ELSE <<t, CHOOSE q \in old : TRUE>>
\* A draft keeps what it began with.
SqlUpsertDraft(t, r) ==
    LET old == {q \in t : q.id = r.id}
        new == IF old = {} THEN r ELSE [(CHOOSE q \in old : TRUE) EXCEPT !.status = r.status, !.at = r.at, !.until = r.until, !.note = r.note]
    IN  <<Inserted(t, new), new>>
SqlUpsert(t, r) ==
    CASE table = "prompts" -> SqlUpsertPrompt(t, r)
      [] table = "drafts"  -> SqlUpsertDraft(t, r)
      [] OTHER -> <<Inserted(t, r), r>>

SqlList(t, talk) == {r \in t : r.talk = talk /\ (table = "queue" => r.status = "queued")}
\* A cancelled message stays until the sweep.
SqlCancel(t, talk) ==
    LET u == Updated(t, {r \in t : r.talk = talk /\ r.status = "queued"}, [r \in t |-> [r EXCEPT !.status = "cancelled"]])
    IN  <<u[1], {r.id : r \in u[2]}>>
SqlDelete(t, id) == <<{r \in t : r.id # id}, 0>>

SqlConsume_Twice(t, id, user, status) ==
    LET u == Updated(t, {r \in t : r.id = id /\ r.status # "cancelled" /\ r.user = user /\ r.until > now}, [r \in t |-> [r EXCEPT !.status = status]])
    IN  <<u[1], IdOf(u[2])>>
SqlConsume(t, id, user, status) ==
    LET u == Updated(t, {r \in t : r.id = id /\ r.status = "pending" /\ r.user = user /\ r.until > now}, [r \in t |-> [r EXCEPT !.status = status]])
    IN  <<u[1], IdOf(u[2])>>
\* requirePendingAction reads the row FOR UPDATE.
SqlComplete_Anyway(t, id, status) ==
    LET u == Updated(t, {r \in t : r.id = id}, [r \in t |-> [r EXCEPT !.status = status]])
    IN  <<u[1], IF u[2] = {} THEN "error" ELSE status>>
SqlComplete(t, id, status) ==
    LET old == {r \in t : r.id = id}
        u   == Updated(t, {r \in t : r.id = id}, [r \in t |-> [r EXCEPT !.status = status]])
    IN  IF old = {} THEN <<t, "error">>
        ELSE IF \E r \in old : r.status \in Over THEN <<t, IF \E r \in old : r.status = status THEN status ELSE "error">>
        ELSE <<u[1], status>>
SqlCount_Pending(t, user) == Cardinality({r \in t : r.user = user /\ r.at >= Since /\ r.status = "pending"})
SqlCount(t, user) == Cardinality({r \in t : r.user = user /\ r.at >= Since})

SqlActive(t, talk) == NewestOf({r \in t : r.talk = talk /\ r.until > now /\ r.status \in Alive})
SqlFinish(t, id, status) ==
    LET u == Updated(t, {r \in t : r.id = id}, [r \in t |-> [r EXCEPT !.status = status, !.at = now]])
    IN  <<u[1], IF u[2] = {} THEN "error" ELSE status>>

\* Who answered is told by the id; in memory the row that is given back is still "open".
SqlAnswer(t, id, user) ==
    LET u == Updated(t, {r \in t : r.id = id /\ r.user \in {0, user} /\ r.status = "open" /\ r.until > now}, [r \in t |-> [r EXCEPT !.status = "answered", !.at = now]])
    IN  <<u[1], IdOf(u[2])>>

\* ON CONFLICT DO NOTHING, with a unique index on the conversations where a turn runs.
SqlStart_NoIndex(t, r) == IF \E q \in t : q.id = r.id THEN <<t, 0>> ELSE <<t \cup {r}, r.id>>
SqlStart(t, r) ==
    IF \E q \in t : q.id = r.id \/ (q.talk = r.talk /\ q.status = "running") THEN <<t, 0>> ELSE <<t \cup {r}, r.id>>
SqlRunning(t, talk) == {r.id : r \in {q \in t : q.talk = talk /\ q.status = "running"}}
SqlEnd_AnyTurn(t, id, status) ==
    LET u == Updated(t, {r \in t : r.id = id}, [r \in t |-> [r EXCEPT !.status = status]])
    IN  <<u[1], IdOf(u[2])>>
SqlEnd(t, id, status) ==
    LET u == Updated(t, {r \in t : r.id = id /\ r.status = "running"}, [r \in t |-> [r EXCEPT !.status = status]])
    IN  <<u[1], IdOf(u[2])>>

SqlReserveMessage(t, r) ==
    LET old == {q \in t : q.user = r.user}
    IN  IF old = {} THEN <<t \cup {r}, <<TRUE, r.id>>>> ELSE <<t, <<FALSE, IdOf(old)>>>>
SqlDelivery(t, key, status) ==
    LET u == Updated(t, {r \in t : r.user = key}, [r \in t |-> [r EXCEPT !.status = status]])
    IN  <<u[1], IF u[2] = {} THEN "error" ELSE status>>
SqlPrune(t, before) ==
    LET u == Updated(t, {r \in t : r.at < before /\ r.note = "text"}, [r \in t |-> [r EXCEPT !.note = "none"]])
    IN  <<u[1], Cardinality(u[2])>>
SqlLast(t, talk, n) ==
    LET S == {r \in t : r.talk = talk}
        late == {q \in S : Cardinality({p \in S : p.at > q.at \/ (p.at = q.at /\ p.id > q.id)}) < n}
    IN  {r.id : r \in late}

SqlReserve_TakesSettled(t, r) ==
    LET old == {q \in t : q.talk = r.talk /\ q.user = r.user}
    IN  IF \E q \in old : q.until > r.at THEN <<t, 0>> ELSE <<(t \ old) \cup {r}, r.id>>
SqlReserve(t, r) ==
    LET old == {q \in t : q.talk = r.talk /\ q.user = r.user}
    IN  IF \E q \in old : ~(q.status = "sending" /\ q.until <= r.at) THEN <<t, 0>> ELSE <<(t \ old) \cup {r}, r.id>>
\* requireNotificationDelivery reads the row FOR UPDATE.
SqlSettle(t, r, status) ==
    LET old == {q \in t : q.talk = r.talk /\ q.user = r.user}
        u   == Updated(t, {q \in t : q.id = r.id /\ q.status = "sending"}, [q \in t |-> [q EXCEPT !.status = status]])
    IN  IF ~\E q \in old : q.id = r.id THEN <<t, "error">>
        ELSE IF \E q \in old : q.status \in Over THEN <<t, (CHOOSE q \in old : TRUE).status>>
        ELSE <<u[1], status>>
SqlTold(t, r, status) ==
    IF status = "sent" /\ (\E q \in t : q.id = r.id /\ q.status \notin Over) THEN [noticed[2] EXCEPT ![r.talk] = r.user] ELSE noticed[2]

SqlConnect_Older(t, r) == <<Inserted(t, r), r>>
SqlConnect(t, r) ==
    LET old == {q \in t : q.id = r.id}
    IN  IF \E q \in old : ~(\/ q.user # 0 /\ r.user # 0 /\ r.user > q.user
                            \/ (q.user = 0 \/ r.user = 0) /\ r.at > q.at)
        THEN <<t, CHOOSE q \in old : TRUE>> ELSE <<Inserted(t, r), r>>

\* One transaction of eight statements: what is over goes before what is given up joins it.
SqlSweep_All(t) ==
    LET gone == {r \in t : Expired(r) \/ r.status \in Over} IN <<t \ gone, Cardinality(gone)>>
SqlSweep_GivesUpFirst(t) ==
    LET u == Updated(t, {r \in t : r.status \in Alive /\ Expired(r)}, [r \in t |-> [r EXCEPT !.status = "expired", !.at = now]])
        gone == {r \in u[1] : r.status \in Over /\ Expired(r)}
    IN  <<u[1] \ gone, Cardinality(gone) + Cardinality(u[2])>>
SqlSweep(t) ==
    LET gone == {r \in t : r.status \in Over /\ Expired(r)}
        u == Updated(t \ gone, {r \in t \ gone : r.status \in Alive /\ Expired(r)}, [r \in t \ gone |-> [r EXCEPT !.status = "expired", !.at = now]])
    IN  <<u[1], Cardinality(gone) + Cardinality(u[2])>>
SqlForget(t, talk) == LET S == {r \in t : r.talk = talk} IN <<t \ S, Cardinality(S)>>
SqlForgetTwin(t, talk) == LET S == {r \in t : r.talk = talk} IN <<t \ S, Cardinality(S)>>

-----------------------------------------------------------------------------
(* Calls *)

Both(m, s) == mem' = m[1] /\ sql' = s[1] /\ said' = <<m[2], s[2]>>
Call == calls < MaxCalls /\ calls' = calls + 1 /\ UNCHANGED <<table, now>>
Quiet == UNCHANGED <<won, created, noticed>>
Same == UNCHANGED <<mem, sql, won, created, noticed>>

First == CASE table = "actions" -> "pending"  [] table = "drafts" -> "collecting" [] table = "prompts" -> "open"
           [] table = "queue"   -> "queued"   [] table = "notices" -> "sending"
           [] table \in {"turns", "twins"} -> "running" [] OTHER -> "kept"
New(id, talk, user) == [id |-> id, talk |-> talk, user |-> user, status |-> First,
                        at |-> now, until |-> now + Ttl, note |-> "text"]

\* Rows get ids of their own, but a prompt is written again for the same question.
Write ==
    /\ table \in {"refs", "queue", "prompts", "drafts"}
    /\ \E id \in Ids, talk \in Talks, user \in Users :
          LET r == New(id, talk, user)
          IN  /\ id \in DOMAIN mem => table = "prompts" /\ mem[id].talk = talk /\ mem[id].user = user
              /\ Both(MemUpsert(mem, r), SqlUpsert(sql, r))
              /\ won' = IF id \in DOMAIN mem THEN won ELSE [won EXCEPT ![id] = 0]
    /\ UNCHANGED <<created, noticed>>

\* isTaskCreationRateLimited, then the action.
Create ==
    /\ table = "actions"
    /\ \E id \in Ids \ DOMAIN mem, talk \in Talks, user \in Users :
          /\ SqlCount(sql, user) < Limit
          /\ Both(MemUpsert(mem, New(id, talk, user)), SqlUpsert(sql, New(id, talk, user)))
          /\ created' = [created EXCEPT ![user] = @ + 1]
          /\ won' = [won EXCEPT ![id] = 0]
    /\ UNCHANGED noticed

\* A draft goes on, with the same beginning.
Redraft ==
    /\ table = "drafts"
    /\ \E id \in DOMAIN mem, s \in {"collecting", "awaiting", "cancelled"} :
          LET r == [mem[id] EXCEPT !.status = s, !.at = now, !.until = now + Ttl]
          IN  Both(MemUpsert(mem, r), SqlUpsert(sql, r))
    /\ Quiet

Decide ==
    /\ \E id \in Ids, user \in Users :
          \/ /\ table = "actions"
             /\ \E s \in {"executing", "cancelled"} : Both(MemConsume(mem, id, user, s), SqlConsume(sql, id, user, s))
             /\ won' = [won EXCEPT ![id] = @ + IF said'[2] = 0 THEN 0 ELSE 1]
          \/ /\ table = "prompts"
             /\ Both(MemAnswer(mem, id, user), SqlAnswer(sql, id, user))
             /\ won' = [won EXCEPT ![id] = @ + IF said'[2] = 0 THEN 0 ELSE 1]
    /\ UNCHANGED <<created, noticed>>

Finish ==
    /\ \E id \in Ids :
          \/ table = "actions" /\ \E s \in {"completed", "cancelled"} : Both(MemComplete(mem, id, s), SqlComplete(sql, id, s))
          \/ table = "drafts" /\ \E s \in {"completed", "cancelled"} : Both(MemFinish(mem, id, s), SqlFinish(sql, id, s))
          \/ table \in {"turns", "twins"} /\ \E s \in {"completed", "cancelled"} : Both(MemEnd(mem, id, s), SqlEnd(sql, id, s))
          \/ table = "queue" /\ Both(MemDelete(mem, id), SqlDelete(sql, id))
    /\ Quiet

\* The assistant starts a turn where it sees none; an id names a message, so it is not used
\* again: of a second turn of one id the store in memory would keep the later, the database
\* the earlier.
Start ==
    /\ \E id \in Ids \ DOMAIN mem, talk \in Talks, user \in Users :
          LET r == New(id, talk, user)
          IN  \/ table = "turns" /\ MemRunning(mem, talk) = {} /\ Both(<<Put(mem, r), id>>, <<Inserted(sql, r), id>>)
              \/ table = "twins" /\ Both(MemStart(mem, r), SqlStart(sql, r))
    /\ Quiet

Message ==
    /\ table = "messages"
    /\ \/ \E id \in Ids \ DOMAIN mem, talk \in Talks, key \in Users :
             Both(MemReserveMessage(mem, New(id, talk, key)), SqlReserveMessage(sql, New(id, talk, key)))
       \/ \E key \in Users, s \in {"sent", "failed"} : Both(MemDelivery(mem, key, s), SqlDelivery(sql, key, s))
       \/ \E before \in {now, now - 1} \cap Nat : Both(MemPrune(mem, before), SqlPrune(sql, before))
    /\ Quiet

Notice ==
    /\ table = "notices"
    /\ \E id \in Ids, talk \in Talks, event \in Users :
          LET r == New(id, talk, event)
          IN  \/ /\ id \notin DOMAIN mem /\ Both(MemReserve(mem, r), SqlReserve(sql, r))
                 /\ UNCHANGED noticed
              \/ \E s \in {"sent", "failed"} :
                    /\ \E q \in sql : q.talk = talk /\ q.user = event
                    /\ Both(MemSettle(mem, r, s), SqlSettle(sql, r, s))
                    /\ noticed' = <<MemTold(mem, r, s), SqlTold(sql, r, s)>>
    /\ UNCHANGED <<won, created>>

\* Business connections: updates may be handled in any order, and one read
\* from Telegram has no number.
Connect ==
    /\ table = "connections"
    /\ \E id \in Ids, update \in Users \cup {0}, at \in 0..MaxTime :
          LET r == [New(id, CHOOSE t \in Talks : TRUE, update) EXCEPT !.at = at, !.until = 0]
          IN  Both(MemConnect(mem, r), SqlConnect(sql, r))
    /\ Quiet

Look ==
    /\ \E talk \in Talks, user \in Users :
          said' = CASE table \in {"refs", "queue"} -> <<MemList(mem, talk), SqlList(sql, talk)>>
                    [] table = "actions"  -> <<MemCount(mem, user), SqlCount(sql, user)>>
                    [] table \in {"drafts", "prompts"} -> <<MemActive(mem, talk), SqlActive(sql, talk)>>
                    [] table = "messages" -> <<MemLast(mem, talk, 1), SqlLast(sql, talk, 1)>>
                    [] table \in {"turns", "twins"} -> <<MemRunning(mem, talk), SqlRunning(sql, talk)>>
                    [] OTHER -> <<0, 0>>
    /\ Same

\* What is removed is counted, but the database also counts queued messages
\* that were cancelled before.
Removed(m, t) ==
    /\ mem' = m[1] /\ sql' = t[1]
    /\ said' = IF table = "queue" THEN <<0, 0>> ELSE <<m[2], t[2]>>
Drop ==
    /\ \/ table = "queue" /\ \E talk \in Talks : Both(MemCancel(mem, talk), SqlCancel(sql, talk))
       \/ table \in {"refs", "queue", "actions", "drafts", "prompts"} /\ Removed(MemSweep(mem), SqlSweep(sql))
       \/ /\ Forgets /\ table \in {"refs", "queue", "turns", "actions", "drafts", "prompts"}
          /\ \E talk \in Talks : Removed(MemForget(mem, talk), SqlForget(sql, talk))
       \/ /\ Forgets /\ table \in {"messages", "twins"}
          /\ \E talk \in Talks : Removed(MemForgetTwin(mem, talk), SqlForgetTwin(sql, talk))
    /\ Quiet

Tick ==
    /\ now < MaxTime /\ now' = now + 1
    /\ created' = IF now' % Day = 0 THEN [u \in Users |-> 0] ELSE created
    /\ said' = <<0, 0>> /\ UNCHANGED <<table, mem, sql, calls, won, noticed>>

Init ==
    /\ table \in Tables /\ mem = <<>> /\ sql = {} /\ now = 0 /\ calls = 0 /\ said = <<0, 0>>
    /\ won = [i \in Ids |-> 0] /\ created = [u \in Users |-> 0]
    /\ noticed = [b \in {1, 2} |-> [t \in Talks |-> 0]]

Next ==
    \/ Call /\ (Write \/ Create \/ Redraft \/ Decide \/ Finish \/ Start \/ Message \/ Notice \/ Connect \/ Look \/ Drop)
    \/ Tick

Spec == Init /\ [][Next]_vars

-----------------------------------------------------------------------------
(* Properties *)

\* The state is of the right shape.
TypeOK ==
    /\ DOMAIN mem \subseteq Ids /\ {r.id : r \in sql} \subseteq Ids /\ Cardinality({r.id : r \in sql}) = Cardinality(sql)
    /\ now \in 0..MaxTime /\ calls \in 0..MaxCalls

\* What the tests see is what the program does: whatever was called before, in
\* whatever order, a call answers in memory as it does in the database.
SameAnswers == said[1] = said[2] /\ noticed[1] = noticed[2]

\* One caller is given an action to execute, or a prompt to answer.
DecidedOnce == \A i \in Ids : won[i] <= 1

\* At most one turn runs in a conversation, and one delivery is open per notice.
OneAtATime ==
    /\ table \in {"turns", "twins"} => \A t \in Talks : Cardinality(SqlRunning(sql, t)) <= 1
    /\ table = "notices" => \A r, q \in sql : r.talk = q.talk /\ r.user = q.user => r = q

\* What has come to an end does not begin again, and an update about a
\* connection does not undo a later one.
SettledStays ==
    \A r \in sql, q \in sql' : q.id = r.id =>
        /\ r.status \in Over /\ table \in {"actions", "prompts", "notices", "turns", "twins"} => q.status = r.status
        /\ table = "connections" /\ r.user # 0 /\ q.user # 0 => q.user >= r.user

\* TELEGRAM_USER_TASK_CREATION_DAILY_LIMIT is counted from the actions that are
\* left: the sweep takes none of the same day.
DailyLimitHolds == Forgets \/ \A u \in Users : created[u] <= Limit

\* What the two stores of the assistant owe those who call them.
StoresAreSound == SameAnswers /\ DecidedOnce /\ OneAtATime /\ DailyLimitHolds

=============================================================================
