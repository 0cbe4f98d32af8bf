------------------------ MODULE TelegramTurnsProofs -------------------------
(***************************************************************************)
(* What holds of the turns of a conversation for any handlers, updates,    *)
(* outcomes and limits, polled or by webhook.                              *)
(*                                                                         *)
(* That one turn runs at a time rests on the conversation lock: a handler  *)
(* or a job that is about to start a turn has held the lock since it saw   *)
(* that none runs.  It holds whatever crashes.                             *)
(*                                                                         *)
(* That a question is answered once, and not after it was cancelled, rests *)
(* on where an update is: with its handler, then among the queued          *)
(* messages or with one job, and never back.  A crash breaks that, for an  *)
(* update that was queued and not marked is handled again while its        *)
(* message is still in the queue.                                          *)
(*                                                                         *)
(* The last section is about the notices of a task and the answers to its  *)
(* questions: what was sent is not sent again and an answer is recorded    *)
(* once, because a scan owns the delivery that it sends and one handler at *)
(* a time is between its decision and the end of it.                       *)
(***************************************************************************)
EXTENDS TelegramTurns, FiniteSetTheorems, SequenceTheorems,
        WellFoundedInduction, TLAPS

TurnConstants == MaxUpdates \in Nat /\ MaxQueued \in Nat

\* A set of numbers has a least.
LEMMA HasLeast ==
    ASSUME NEW S \in SUBSET Nat, S # {}
    PROVE  \E n \in S : \A m \in S : n <= m
<1> DEFINE Before == {p \in Nat \X Nat : p[1] < p[2]}
<1>1. IsWellFoundedOn(Before, Nat)
  <2>1. OpToRel(<, Nat) = Before
    BY DEF OpToRel
  <2> QED BY <2>1, NatLessThanWellFounded
<1>2. PICK n \in S : \A m \in S : <<m, n>> \notin Before
  BY <1>1, WFMin
<1>3. ASSUME NEW m \in S PROVE n <= m
  <2>1. m \in Nat /\ n \in Nat /\ <<m, n>> \notin Before
    BY <1>2
  <2> QED BY <2>1
<1> QED BY <1>3

\* The least of a set of updates is one of them.
LEMMA LeastIsOne ==
    ASSUME NEW S \in SUBSET Nat, S # {}
    PROVE  Least(S) \in S
BY HasLeast DEF Least

-----------------------------------------------------------------------------
(* What a handler has to do *)

TheMark    == Step("mark", 0, 0)
TheAdvance == Step("advance", 0, 0)
TheTell    == Step("tell", 0, 0)
TheClear   == Step("clear", 0, 0)

\* What update u may ask of the conversation.
Talks(u) ==
    {Step("handle", 0, 0), TheTell, Step("start", u, 0), Step("enqueue", u, 0)}
    \cup {Step("cancel", v, 0) : v \in Updates}
Lists(u) ==
    {<<TheAdvance>>, <<TheMark, TheAdvance>>, <<TheClear, TheTell, TheMark, TheAdvance>>}
    \cup {<<s, TheMark, TheAdvance>> : s \in Talks(u)}
Hand(u) == {[update |-> u, todo |-> todo] : todo \in Lists(u)}

HandTyped == hand \in [Handlers -> {Idle} \cup UNION {Hand(u) : u \in 1..Len(inbox)}]
Typed == TypeOK /\ HandTyped

-----------------------------------------------------------------------------
(* The conversation lock *)

Holders == {<<"handler", h>> : h \in {g \in Handlers : Talking(g)}}
           \cup {<<"job", u>> : u \in {v \in Updates : job[v].at \in {"starting", "deleting"}}}
Starters == {<<"handler", h>> : h \in {g \in Handlers : At(g, "start")}}
            \cup {<<"job", u>> : u \in {v \in Updates : job[v].at = "starting"}}

\* One holds the lock; one that is about to start a turn found none.
Alone      == \A a, b \in Holders : a = b
StartsFree == Starters # {} => Running = {}
OneRuns    == \A u, v \in Running : u = v

Lock == Alone /\ StartsFree /\ OneRuns
IInv == Typed /\ Lock

-----------------------------------------------------------------------------
(* Where an update is, without crashes *)

Engaged(v, u) == job[v].on = u /\ job[v].at \in {"waiting", "thinking", "sending"}
Deleting(v, u) == job[v].on = u /\ job[v].at = "deleting"
Touched(v, u) == job[v].on = u /\ job[v].at \in {"waiting", "thinking", "sending", "locking", "starting", "deleting"}

\* Nothing has become of it.
Fresh(u) ==
    /\ turn[u] = "none" /\ u \notin queued /\ answered[u] = 0 /\ job[u].at = "none"
    /\ \A v \in Updates : ~Touched(v, u)

\* A handler has it before that, and afterwards it is marked.
OneHandler == \A g, h \in Handlers : Busy(g) /\ hand[g].update = hand[h].update => g = h
Untouched == \A h \in Handlers : Busy(h) /\ Now(h).do \notin {"mark", "advance"} => Fresh(hand[h].update)
Marked ==
    /\ \A h \in Handlers : At(h, "advance") => hand[h].update \in processed
    /\ \A u \in Updates : Fresh(u) \/ u \in processed
                          \/ \E h \in Handlers : hand[h].update = u /\ At(h, "mark")

\* A queued message has no turn yet, but for the moment before its removal; one
\* job is at a question, and knows what has become of its turn.
InQueue == \A u \in queued :
    /\ answered[u] = 0
    /\ turn[u] = "none" \/ (turn[u] = "running" /\ \E v \in Updates : Deleting(v, u))
    /\ \A v \in Updates : ~Engaged(v, u)
WellPlaced(v, u) ==
    /\ job[v].at # "none" => u \in Updates
    /\ job[v].at \in {"waiting", "thinking"} => turn[u] \in {"running", "cancelled"} /\ answered[u] = 0
    /\ job[v].at = "sending" => turn[u] \in {"completed", "failed"} /\ answered[u] = 0
    /\ job[v].at \in {"starting", "deleting"} => u \in queued
    /\ job[v].at = "starting" => turn[u] = "none"
AtWork == \A v \in Updates : WellPlaced(v, job[v].on)
OneJob == \A v, w, u \in Updates : Engaged(v, u) /\ Engaged(w, u) => v = w

HandlersPlaced == OneHandler /\ Untouched /\ Marked
JobsPlaced == InQueue /\ AtWork /\ OneJob /\ AnsweredOnce
Placed == HandlersPlaced /\ JobsPlaced

-----------------------------------------------------------------------------
(* Lists *)

\* A sequence that begins with one and goes on with the other joins the two.
LEMMA Joined ==
    ASSUME NEW S, NEW s \in Seq(S), NEW t \in Seq(S), NEW r \in Seq(S),
           Len(r) = Len(s) + Len(t),
           \A i \in 1..Len(s) : r[i] = s[i],
           \A i \in 1..Len(t) : r[Len(s) + i] = t[i]
    PROVE  s \o t = r
<1>1. /\ s \o t \in Seq(S)
      /\ Len(s \o t) = Len(r)
      /\ Len(s) \in Nat /\ Len(t) \in Nat
  BY ConcatProperties, LenProperties
<1>2. ASSUME NEW i \in 1..Len(r) PROVE (s \o t)[i] = r[i]
  <2>1. (s \o t)[i] = IF i <= Len(s) THEN s[i] ELSE t[i - Len(s)]
    BY <1>1, ConcatProperties
  <2>2. CASE i <= Len(s)
    BY <2>1, <2>2, <1>1
  <2>3. CASE ~(i <= Len(s))
    <3>1. i - Len(s) \in 1..Len(t) /\ Len(s) + (i - Len(s)) = i
      BY <2>3, <1>1
    <3>2. r[Len(s) + (i - Len(s))] = t[i - Len(s)]
      BY <3>1
    <3> QED BY <2>1, <2>3, <3>1, <3>2
  <2> QED BY <2>2, <2>3
<1> QED BY <1>1, <1>2, SeqEqual

\* Short lists, one after the other.
LEMMA ShortLists ==
    /\ \A a, b : <<a>> \o <<b>> = <<a, b>>
    /\ \A a, b, c : <<a>> \o <<b, c>> = <<a, b, c>>
    /\ \A a, b, c : <<a, b>> \o <<c>> = <<a, b, c>>
    /\ \A a, b, c, d : <<a, b>> \o <<c, d>> = <<a, b, c, d>>
<1>1. ASSUME NEW a, NEW b PROVE <<a>> \o <<b>> = <<a, b>>
  <2> DEFINE S == {a, b}  s == <<a>>  t == <<b>>  r == <<a, b>>
  <2>1. s \in Seq(S) /\ t \in Seq(S) /\ r \in Seq(S)
    BY SMT
  <2>2. Len(s) = 1 /\ Len(t) = 1 /\ Len(r) = 2
    BY SMT
  <2>3. r[1] = s[1] /\ r[2] = t[1]
    BY SMT
  <2> HIDE DEF S, s, t, r
  <2>4. Len(r) = Len(s) + Len(t)
    BY <2>2
  <2>5. /\ \A i \in 1..1 : i = 1
        /\ \A i \in 1..2 : i = 1 \/ i = 2
    BY SMT
  <2>6. \A i \in 1..Len(s) : r[i] = s[i]
    BY <2>2, <2>3, <2>5
  <2>7. \A i \in 1..Len(t) : r[Len(s) + i] = t[i]
    BY <2>2, <2>3, <2>5
  <2>8. s \o t = r
    BY ONLY <2>1, <2>4, <2>6, <2>7, Joined
  <2> QED BY <2>8 DEF s, t, r
<1>2. ASSUME NEW a, NEW b, NEW c PROVE <<a>> \o <<b, c>> = <<a, b, c>>
  <2> DEFINE S == {a, b, c}  s == <<a>>  t == <<b, c>>  r == <<a, b, c>>
  <2>1. s \in Seq(S) /\ t \in Seq(S) /\ r \in Seq(S)
    BY SMT
  <2>2. Len(s) = 1 /\ Len(t) = 2 /\ Len(r) = 3
    BY SMT
  <2>3. r[1] = s[1] /\ r[2] = t[1] /\ r[3] = t[2]
    BY SMT
  <2> HIDE DEF S, s, t, r
  <2>4. Len(r) = Len(s) + Len(t)
    BY <2>2
  <2>5. /\ \A i \in 1..1 : i = 1
        /\ \A i \in 1..2 : i = 1 \/ i = 2
    BY SMT
  <2>6. \A i \in 1..Len(s) : r[i] = s[i]
    BY <2>2, <2>3, <2>5
  <2>7. \A i \in 1..Len(t) : r[Len(s) + i] = t[i]
    BY <2>2, <2>3, <2>5
  <2>8. s \o t = r
    BY ONLY <2>1, <2>4, <2>6, <2>7, Joined
  <2> QED BY <2>8 DEF s, t, r
<1>3. ASSUME NEW a, NEW b, NEW c PROVE <<a, b>> \o <<c>> = <<a, b, c>>
  <2> DEFINE S == {a, b, c}  s == <<a, b>>  t == <<c>>  r == <<a, b, c>>
  <2>1. s \in Seq(S) /\ t \in Seq(S) /\ r \in Seq(S)
    BY SMT
  <2>2. Len(s) = 2 /\ Len(t) = 1 /\ Len(r) = 3
    BY SMT
  <2>3. r[1] = s[1] /\ r[2] = s[2] /\ r[3] = t[1]
    BY SMT
  <2> HIDE DEF S, s, t, r
  <2>4. Len(r) = Len(s) + Len(t)
    BY <2>2
  <2>5. /\ \A i \in 1..1 : i = 1
        /\ \A i \in 1..2 : i = 1 \/ i = 2
    BY SMT
  <2>6. \A i \in 1..Len(s) : r[i] = s[i]
    BY <2>2, <2>3, <2>5
  <2>7. \A i \in 1..Len(t) : r[Len(s) + i] = t[i]
    BY <2>2, <2>3, <2>5
  <2>8. s \o t = r
    BY ONLY <2>1, <2>4, <2>6, <2>7, Joined
  <2> QED BY <2>8 DEF s, t, r
<1>4. ASSUME NEW a, NEW b, NEW c, NEW d PROVE <<a, b>> \o <<c, d>> = <<a, b, c, d>>
  <2> DEFINE S == {a, b, c, d}  s == <<a, b>>  t == <<c, d>>  r == <<a, b, c, d>>
  <2>1. s \in Seq(S) /\ t \in Seq(S) /\ r \in Seq(S)
    BY SMT
  <2>2. Len(s) = 2 /\ Len(t) = 2 /\ Len(r) = 4
    BY SMT
  <2>3. r[1] = s[1] /\ r[2] = s[2] /\ r[3] = t[1] /\ r[4] = t[2]
    BY SMT
  <2> HIDE DEF S, s, t, r
  <2>4. Len(r) = Len(s) + Len(t)
    BY <2>2
  <2>5. /\ \A i \in 1..1 : i = 1
        /\ \A i \in 1..2 : i = 1 \/ i = 2
    BY SMT
  <2>6. \A i \in 1..Len(s) : r[i] = s[i]
    BY <2>2, <2>3, <2>5
  <2>7. \A i \in 1..Len(t) : r[Len(s) + i] = t[i]
    BY <2>2, <2>3, <2>5
  <2>8. s \o t = r
    BY ONLY <2>1, <2>4, <2>6, <2>7, Joined
  <2> QED BY <2>8 DEF s, t, r
<1> QED BY <1>1, <1>2, <1>3, <1>4

\* What is left of a list after its first step, and what a handler makes of it.
LEMMA Rests ==
    /\ \A s : <<>> \o Tail(<<s, TheMark, TheAdvance>>) = <<TheMark, TheAdvance>>
    /\ \A s, x : <<x>> \o Tail(<<s, TheMark, TheAdvance>>) = <<x, TheMark, TheAdvance>>
    /\ \A s, x : <<>> \o Tail(<<s, x, TheMark, TheAdvance>>) = <<x, TheMark, TheAdvance>>
    /\ <<>> \o Tail(<<TheMark, TheAdvance>>) = <<TheAdvance>>
    /\ \A s : (Steps("clear") \o Tell) \o Tail(<<s, TheMark, TheAdvance>>)
               = <<TheClear, TheTell, TheMark, TheAdvance>>
    /\ Steps("handle") \o Steps("mark") \o Steps("advance")
          = <<Step("handle", 0, 0), TheMark, TheAdvance>>
<1>1. Steps("clear") \o Tell = <<TheClear, TheTell>>
  BY ShortLists, Zenon DEF Steps, Tell, TheClear, TheTell
<1>2. Steps("handle") \o Steps("mark") \o Steps("advance")
        = <<Step("handle", 0, 0), TheMark, TheAdvance>>
  <2>1. <<Step("handle", 0, 0)>> \o <<TheMark>> = <<Step("handle", 0, 0), TheMark>>
    BY ShortLists
  <2>2. <<Step("handle", 0, 0), TheMark>> \o <<TheAdvance>>
          = <<Step("handle", 0, 0), TheMark, TheAdvance>>
    BY ShortLists
  <2> QED BY <2>1, <2>2, Zenon DEF Steps, TheMark, TheAdvance
<1>3. ASSUME NEW s, NEW x
      PROVE  /\ <<>> \o Tail(<<s, TheMark, TheAdvance>>) = <<TheMark, TheAdvance>>
             /\ <<x>> \o Tail(<<s, TheMark, TheAdvance>>) = <<x, TheMark, TheAdvance>>
             /\ <<>> \o Tail(<<s, x, TheMark, TheAdvance>>) = <<x, TheMark, TheAdvance>>
             /\ <<TheClear, TheTell>> \o Tail(<<s, TheMark, TheAdvance>>)
                  = <<TheClear, TheTell, TheMark, TheAdvance>>
  <2>1. Tail(<<s, TheMark, TheAdvance>>) = <<TheMark, TheAdvance>>
    BY SMT
  <2>2. Tail(<<s, x, TheMark, TheAdvance>>) = <<x, TheMark, TheAdvance>>
    BY SMT
  <2>3. <<>> \o <<TheMark, TheAdvance>> = <<TheMark, TheAdvance>>
    BY SMT
  <2>4. <<x>> \o <<TheMark, TheAdvance>> = <<x, TheMark, TheAdvance>>
    BY ShortLists
  <2>5. <<>> \o <<x, TheMark, TheAdvance>> = <<x, TheMark, TheAdvance>>
    BY SMT
  <2>6. <<TheClear, TheTell>> \o <<TheMark, TheAdvance>>
          = <<TheClear, TheTell, TheMark, TheAdvance>>
    BY ShortLists
  <2> QED BY <2>1, <2>2, <2>3, <2>4, <2>5, <2>6, Zenon
<1>4. <<>> \o Tail(<<TheMark, TheAdvance>>) = <<TheAdvance>>
  BY SMT
<1> QED BY <1>1, <1>2, <1>3, <1>4, Zenon

LEMMA Heads ==
    /\ \A x : Head(<<x>>) = x
    /\ \A x, y : Head(<<x, y>>) = x
    /\ \A x, y, z : Head(<<x, y, z>>) = x
    /\ \A x, y, z, w : Head(<<x, y, z, w>>) = x
BY SMT

LEMMA FirstSteps ==
    /\ TheMark.do = "mark" /\ TheAdvance.do = "advance"
    /\ TheTell.do = "tell" /\ TheClear.do = "clear"
    /\ \A u : \A s \in Talks(u) :
         /\ s.do \in {"handle", "tell", "start", "enqueue", "cancel"}
         /\ s.do \in {"start", "enqueue"} => s.id = u
         /\ s.do = "cancel" => s.id \in Updates
BY DEF TheMark, TheAdvance, TheTell, TheClear, Talks, Step

\* A list by its first step.
LEMMA ListByFirst ==
    ASSUME NEW u, NEW todo \in Lists(u)
    PROVE  /\ Head(todo).do = "advance" => todo = <<TheAdvance>>
           /\ Head(todo).do = "mark" => todo = <<TheMark, TheAdvance>>
           /\ Head(todo).do = "clear" => todo = <<TheClear, TheTell, TheMark, TheAdvance>>
           /\ Head(todo).do \in {"handle", "tell", "start", "enqueue", "cancel"} =>
                \E s \in Talks(u) : todo = <<s, TheMark, TheAdvance>> /\ s = Head(todo)
           /\ Head(todo).do \in {"advance", "mark", "clear", "handle", "tell", "start",
                                  "enqueue", "cancel"}
<1>1. CASE todo = <<TheAdvance>>
  BY <1>1, Heads, FirstSteps
<1>2. CASE todo = <<TheMark, TheAdvance>>
  BY <1>2, Heads, FirstSteps
<1>3. CASE todo = <<TheClear, TheTell, TheMark, TheAdvance>>
  BY <1>3, Heads, FirstSteps
<1>4. ASSUME NEW s \in Talks(u), todo = <<s, TheMark, TheAdvance>>
      PROVE  Head(todo) = s /\ s.do \in {"handle", "tell", "start", "enqueue", "cancel"}
  BY <1>4, Heads, FirstSteps
<1> QED BY <1>1, <1>2, <1>3, <1>4 DEF Lists

-----------------------------------------------------------------------------
(* Handlers *)

Goes(h, todo) == hand' = [hand EXCEPT ![h].todo = todo]
Others(h) == \A g \in Handlers \ {h} : hand'[g] = hand[g]

LEMMA BusyHand ==
    ASSUME TurnConstants, Typed, NEW h \in Handlers, Busy(h)
    PROVE  /\ hand[h].update \in 1..Len(inbox) /\ hand[h].update \in Updates
           /\ hand[h].todo \in Lists(hand[h].update)
<1>1. hand[h] \in {Idle} \cup UNION {Hand(u) : u \in 1..Len(inbox)}
  BY DEF Typed, HandTyped
<1>2. hand[h] # Idle
  BY DEF Busy, Idle
<1>3. PICK u \in 1..Len(inbox) : hand[h] \in Hand(u)
  BY <1>1, <1>2
<1>4. hand[h].update = u /\ hand[h].todo \in Lists(u)
  BY <1>3 DEF Hand
<1>5. u \in Updates
  BY DEF TurnConstants, Typed, TypeOK, Updates
<1> QED BY <1>4, <1>5

\* What a handler has left after each step.
LEMMA Popped ==
    ASSUME TurnConstants, Typed, NEW h \in Handlers, Busy(h)
    PROVE  /\ At(h, "mark") /\ Pop(h) => Goes(h, <<TheAdvance>>)
           /\ At(h, "clear") /\ Pop(h) => Goes(h, <<TheTell, TheMark, TheAdvance>>)
           /\ Now(h).do \in {"tell", "start", "enqueue", "cancel"} /\ Pop(h) =>
                Goes(h, <<TheMark, TheAdvance>>)
           /\ At(h, "cancel") /\ Then(h, Steps("clear") \o Tell) =>
                Goes(h, <<TheClear, TheTell, TheMark, TheAdvance>>)
           /\ \A x : At(h, "handle") /\ Then(h, <<x>>) => Goes(h, <<x, TheMark, TheAdvance>>)
           /\ Now(h).do \in {"start", "enqueue"} => Now(h).id = hand[h].update
           /\ Now(h).do = "cancel" => Now(h).id \in Updates
<1> DEFINE todo == hand[h].todo
<1>1. todo \in Lists(hand[h].update)
  BY BusyHand
<1>2. /\ Now(h).do = "mark" => todo = <<TheMark, TheAdvance>>
      /\ Now(h).do = "clear" => todo = <<TheClear, TheTell, TheMark, TheAdvance>>
      /\ Now(h).do \in {"handle", "tell", "start", "enqueue", "cancel"} =>
           \E s \in Talks(hand[h].update) : todo = <<s, TheMark, TheAdvance>> /\ s = Now(h)
  BY <1>1, ListByFirst DEF Now
<1>3. At(h, "mark") /\ Pop(h) => Goes(h, <<TheAdvance>>)
  <2>1. SUFFICES ASSUME At(h, "mark"), Pop(h) PROVE Goes(h, <<TheAdvance>>)
    OBVIOUS
  <2>2. <<>> \o Tail(todo) = <<TheAdvance>>
    BY <1>2, <2>1, Rests, Zenon DEF At
  <2> QED BY <2>1, <2>2, Zenon DEF Pop, Then, Goes
<1>4. At(h, "clear") /\ Pop(h) => Goes(h, <<TheTell, TheMark, TheAdvance>>)
  <2>1. SUFFICES ASSUME At(h, "clear"), Pop(h)
                 PROVE  Goes(h, <<TheTell, TheMark, TheAdvance>>)
    OBVIOUS
  <2>2. todo = <<TheClear, TheTell, TheMark, TheAdvance>>
    BY <1>2, <2>1 DEF At
  <2>3. <<>> \o Tail(<<TheClear, TheTell, TheMark, TheAdvance>>) = <<TheTell, TheMark, TheAdvance>>
    BY Rests, Zenon
  <2> QED BY <2>1, <2>2, <2>3, Zenon DEF Pop, Then, Goes
<1>5. ASSUME Now(h).do \in {"handle", "tell", "start", "enqueue", "cancel"}
      PROVE  /\ Pop(h) => Goes(h, <<TheMark, TheAdvance>>)
             /\ Then(h, Steps("clear") \o Tell) =>
                  Goes(h, <<TheClear, TheTell, TheMark, TheAdvance>>)
             /\ \A x : Then(h, <<x>>) => Goes(h, <<x, TheMark, TheAdvance>>)
  <2>1. PICK s \in Talks(hand[h].update) : todo = <<s, TheMark, TheAdvance>>
    BY <1>2, <1>5
  <2>2. <<>> \o Tail(todo) = <<TheMark, TheAdvance>>
    BY <2>1, Rests, Zenon
  <2>3. (Steps("clear") \o Tell) \o Tail(todo) = <<TheClear, TheTell, TheMark, TheAdvance>>
    BY <2>1, Rests, Zenon
  <2>4. \A x : <<x>> \o Tail(todo) = <<x, TheMark, TheAdvance>>
    BY <2>1, Rests, Zenon
  <2>5. Pop(h) => Goes(h, <<TheMark, TheAdvance>>)
    BY <2>2, Zenon DEF Pop, Then, Goes
  <2>6. Then(h, Steps("clear") \o Tell) => Goes(h, <<TheClear, TheTell, TheMark, TheAdvance>>)
    BY <2>3, Zenon DEF Then, Goes
  <2>7. ASSUME NEW x, Then(h, <<x>>) PROVE Goes(h, <<x, TheMark, TheAdvance>>)
    <3>1. <<x>> \o Tail(todo) = <<x, TheMark, TheAdvance>>
      BY <2>4
    <3> QED BY <3>1, <2>7, Zenon DEF Then, Goes
  <2> QED BY <2>5, <2>6, <2>7
<1>8. /\ Now(h).do \in {"start", "enqueue"} => Now(h).id = hand[h].update
      /\ Now(h).do = "cancel" => Now(h).id \in Updates
  BY <1>2, FirstSteps
<1> QED BY <1>3, <1>4, <1>5, <1>8 DEF At

\* A handler that goes on is with its update, the others stay where they are.
LEMMA GoesOn ==
    ASSUME TurnConstants, Typed, NEW h \in Handlers, Busy(h),
           NEW todo \in Lists(hand[h].update), Goes(h, todo), inbox' = inbox
    PROVE  /\ HandTyped'
           /\ hand'[h].update = hand[h].update /\ hand'[h].todo = todo
           /\ Others(h)
<1>1. hand[h] \in {Idle} \cup UNION {Hand(u) : u \in 1..Len(inbox)} /\ hand[h] # Idle
  BY DEF Typed, HandTyped, Busy, Idle
<1>2. hand[h].update \in 1..Len(inbox)
  BY BusyHand
<1>3. PICK u \in 1..Len(inbox) : hand[h] \in Hand(u)
  BY <1>1
<1>4. hand'[h] = [update |-> hand[h].update, todo |-> todo]
  BY <1>3 DEF Typed, HandTyped, Goes, Hand
<1>5. hand'[h] \in Hand(hand[h].update)
  BY <1>4 DEF Hand
<1>6. \A g \in Handlers \ {h} : hand'[g] = hand[g]
  BY DEF Typed, HandTyped, Goes
<1>7. hand' = [g \in Handlers |-> hand'[g]]
  BY DEF Typed, HandTyped, Goes
<1> QED BY <1>2, <1>4, <1>5, <1>6, <1>7 DEF Typed, HandTyped, Others

\* The lists a handler can come to.
LEMMA NextLists ==
    ASSUME NEW u \in Updates
    PROVE  /\ {<<TheAdvance>>, <<TheMark, TheAdvance>>, <<TheTell, TheMark, TheAdvance>>,
               <<TheClear, TheTell, TheMark, TheAdvance>>,
               <<Step("handle", 0, 0), TheMark, TheAdvance>>,
               <<Step("start", u, 0), TheMark, TheAdvance>>,
               <<Step("enqueue", u, 0), TheMark, TheAdvance>>} \subseteq Lists(u)
           /\ \A v \in Updates : <<Step("cancel", v, 0), TheMark, TheAdvance>> \in Lists(u)
BY DEF Lists, Talks

\* What a handler that handles its update does next.
LEMMA Planned ==
    ASSUME TurnConstants, Typed, NEW u, NEW said
    PROVE  \/ \E v \in Running : Plan(u, said) = <<Step("cancel", v, 0)>>
           \/ Plan(u, said) = <<Step("enqueue", u, 0)>>
           \/ Plan(u, said) = <<Step("start", u, 0)>> /\ Running = {}
           \/ Plan(u, said) = <<TheTell>>
<1>1. Running # {} => Least(Running) \in Running
  <2>1. Running \in SUBSET Nat
    BY DEF Running, Updates, TurnConstants
  <2> QED BY <2>1, LeastIsOne
<1> QED BY <1>1 DEF Plan, Tell, Steps, TheTell

\* How a handler moves: to another step of its update, or away from it.
Moves(h, do) ==
    /\ HandTyped' /\ Others(h) /\ Busy(h) /\ Busy(h)'
    /\ hand'[h].update = hand[h].update /\ Now(h)'.do = do
Leaves(h) == HandTyped' /\ Others(h) /\ Busy(h) /\ ~Busy(h)'
Takes(h, u) ==
    /\ HandTyped' /\ Others(h) /\ ~Busy(h) /\ Busy(h)'
    /\ hand'[h].update = u /\ Now(h)'.do = IF u \in processed THEN "advance" ELSE "handle"

LEMMA Comes ==
    ASSUME TurnConstants, Typed, NEW h \in Handlers, Busy(h), inbox' = inbox,
           NEW todo \in Lists(hand[h].update), Goes(h, todo)
    PROVE  Moves(h, Head(todo).do)
<1>1. HandTyped' /\ Others(h) /\ hand'[h].update = hand[h].update /\ hand'[h].todo = todo
  BY GoesOn
<1> QED BY <1>1 DEF Moves, Busy, Now

LEMMA HandlerMoves ==
    ASSUME TurnConstants, Typed, NEW h \in Handlers
    PROVE  /\ Mark(h) => Moves(h, "advance")
           /\ Enqueue(h) \/ StartTurn(h) \/ Inform(h) => Moves(h, "mark")
           /\ ClearQueue(h) => Moves(h, "tell")
           /\ CancelTurn(h) => \E do \in {"clear", "mark"} : Moves(h, do)
           /\ Handle(h) => \E do \in {"cancel", "enqueue", "start", "tell"} :
                Moves(h, do) /\ (do = "start" => Running = {})
           /\ Advance(h) \/ FailToTell(h) => Leaves(h)
           /\ Receive(h) => \E u \in 1..Len(inbox) : Due(u) /\ Takes(h, u)
<1> DEFINE lists == Lists(hand[h].update)
<1>1. ASSUME Busy(h)
      PROVE  /\ <<TheAdvance>> \in lists /\ <<TheMark, TheAdvance>> \in lists
             /\ <<TheTell, TheMark, TheAdvance>> \in lists
             /\ <<TheClear, TheTell, TheMark, TheAdvance>> \in lists
             /\ <<Step("start", hand[h].update, 0), TheMark, TheAdvance>> \in lists
             /\ <<Step("enqueue", hand[h].update, 0), TheMark, TheAdvance>> \in lists
             /\ \A v \in Updates : <<Step("cancel", v, 0), TheMark, TheAdvance>> \in lists
  BY <1>1, BusyHand, NextLists
<1>2. ASSUME Mark(h) PROVE Moves(h, "advance")
  <2>1. Busy(h) /\ Goes(h, <<TheAdvance>>) /\ inbox' = inbox
    BY <1>2, Popped DEF Mark, At
  <2> QED BY <2>1, <1>1, Comes, Heads, FirstSteps
<1>3. ASSUME Enqueue(h) \/ StartTurn(h) \/ Inform(h) PROVE Moves(h, "mark")
  <2>1. Busy(h) /\ Goes(h, <<TheMark, TheAdvance>>) /\ inbox' = inbox
    BY <1>3, Popped DEF Enqueue, StartTurn, Inform, At, Same
  <2> QED BY <2>1, <1>1, Comes, Heads, FirstSteps
<1>4. ASSUME ClearQueue(h) PROVE Moves(h, "tell")
  <2>1. Busy(h) /\ Goes(h, <<TheTell, TheMark, TheAdvance>>) /\ inbox' = inbox
    BY <1>4, Popped DEF ClearQueue, At, Same
  <2> QED BY <2>1, <1>1, Comes, Heads, FirstSteps
<1>5. ASSUME CancelTurn(h) PROVE \E do \in {"clear", "mark"} : Moves(h, do)
  <2>1. /\ Busy(h) /\ inbox' = inbox
        /\ \/ Goes(h, <<TheClear, TheTell, TheMark, TheAdvance>>)
           \/ Goes(h, <<TheMark, TheAdvance>>)
    BY <1>5, Popped DEF CancelTurn, At, Same
  <2>2. CASE Goes(h, <<TheClear, TheTell, TheMark, TheAdvance>>)
    BY <2>1, <2>2, <1>1, Comes, Heads, FirstSteps
  <2>3. CASE Goes(h, <<TheMark, TheAdvance>>)
    BY <2>1, <2>3, <1>1, Comes, Heads, FirstSteps
  <2> QED BY <2>1, <2>2, <2>3
<1>6. ASSUME Handle(h)
      PROVE  \E do \in {"cancel", "enqueue", "start", "tell"} :
               Moves(h, do) /\ (do = "start" => Running = {})
  <2> DEFINE u == hand[h].update  plan == Plan(u, inbox[u])
  <2>1. Busy(h) /\ inbox' = inbox /\ At(h, "handle") /\ Then(h, plan)
    BY <1>6 DEF Handle, At, Same
  <2>2. \A x : plan = <<x>> => Goes(h, <<x, TheMark, TheAdvance>>)
    BY <2>1, Popped
  <2>3. \A x : plan = <<x>> /\ <<x, TheMark, TheAdvance>> \in lists => Moves(h, x.do)
    BY <2>1, <2>2, Comes, Heads
  <2> HIDE DEF plan
  <2>4. CASE \E v \in Running : plan = <<Step("cancel", v, 0)>>
    <3>1. PICK v \in Updates : plan = <<Step("cancel", v, 0)>>
      BY <2>4 DEF Running
    <3>2. Moves(h, Step("cancel", v, 0).do)
      BY <3>1, <2>1, <2>3, <1>1
    <3> QED BY <3>2 DEF Step
  <2>5. CASE plan = <<Step("enqueue", u, 0)>>
    <3>1. Moves(h, Step("enqueue", u, 0).do)
      BY <2>5, <2>1, <2>3, <1>1
    <3> QED BY <3>1 DEF Step
  <2>6. CASE plan = <<Step("start", u, 0)>> /\ Running = {}
    <3>1. Moves(h, Step("start", u, 0).do)
      BY <2>6, <2>1, <2>3, <1>1
    <3> QED BY <3>1, <2>6 DEF Step
  <2>7. CASE plan = <<TheTell>>
    BY <2>7, <2>1, <2>3, <1>1, FirstSteps
  <2> QED BY <2>4, <2>5, <2>6, <2>7, Planned DEF plan
<1>7. ASSUME Advance(h) \/ FailToTell(h) PROVE Leaves(h)
  <2>1. Busy(h) /\ hand' = [hand EXCEPT ![h] = Idle] /\ inbox' = inbox
    BY <1>7 DEF Advance, FailToTell, Fail, At
  <2> QED BY <2>1 DEF Leaves, Typed, HandTyped, Others, Busy, Idle
<1>8. ASSUME Receive(h) PROVE \E u \in 1..Len(inbox) : Due(u) /\ Takes(h, u)
  <2>1. PICK u \in 1..Len(inbox) :
          /\ Due(u)
          /\ hand' = [hand EXCEPT ![h] =
               [update |-> u,
                todo |-> IF u \in processed THEN Steps("advance")
                         ELSE Steps("handle") \o Steps("mark") \o Steps("advance")]]
    BY <1>8 DEF Receive
  <2> DEFINE todo == IF u \in processed THEN <<TheAdvance>>
                     ELSE <<Step("handle", 0, 0), TheMark, TheAdvance>>
  <2>2. hand' = [hand EXCEPT ![h] = [update |-> u, todo |-> todo]]
    BY <2>1, Rests, Zenon DEF Steps, TheAdvance
  <2>3. todo \in Lists(u)
    BY DEF Lists, Talks
  <2>4. Head(todo).do = IF u \in processed THEN "advance" ELSE "handle"
    BY Heads, FirstSteps DEF Step
  <2> HIDE DEF todo
  <2>5. ~Busy(h) /\ inbox' = inbox
    BY <1>8 DEF Receive
  <2>6. /\ hand'[h] = [update |-> u, todo |-> todo] /\ Others(h)
        /\ hand' = [g \in Handlers |-> hand'[g]]
    BY <2>2 DEF Typed, HandTyped, Others
  <2>7. hand'[h] \in Hand(u)
    BY <2>6, <2>3 DEF Hand
  <2>8. HandTyped'
    BY <2>5, <2>6, <2>7 DEF Typed, HandTyped, Others
  <2>9. hand'[h].update = u /\ Now(h)'.do = Head(todo).do /\ Busy(h)'
    BY <2>6 DEF Now, Busy
  <2> QED BY <2>1, <2>4, <2>5, <2>6, <2>8, <2>9 DEF Takes
<1> QED BY <1>2, <1>3, <1>4, <1>5, <1>6, <1>7, <1>8

-----------------------------------------------------------------------------
(* Types *)

\* What a step makes of the turns, the queue, the jobs and the answers.
TurnsTyped  == turn \in [Updates -> {"none", "running", "completed", "failed", "cancelled"}]
AnswersTyped == answered \in [Updates -> 0..2]
JobsTyped   == job \in [Updates -> Job]
Sets(u, j) == JobsTyped' /\ job'[u] = j /\ \A v \in Updates \ {u} : job'[v] = job[v]

LEMMA TypedAgain ==
    ASSUME Typed, inbox' = inbox, HandTyped', TurnsTyped', JobsTyped', AnswersTyped',
           queued' \subseteq 1..Len(inbox)
    PROVE  Typed'
BY DEF Typed, TypeOK, TurnsTyped, AnswersTyped, JobsTyped

\* The fields of a job, when some change.
LEMMA JobSet ==
    ASSUME Typed, NEW u \in Updates, NEW j \in Job, job' = [job EXCEPT ![u] = j]
    PROVE  Sets(u, j)
BY DEF Typed, TypeOK, Sets, JobsTyped

LEMMA JobFields ==
    ASSUME TurnConstants, Typed, NEW u \in Updates,
           NEW at \in {"none", "waiting", "thinking", "sending", "looking", "locking",
                       "starting", "deleting"}
    PROVE  /\ NoJob \in Job
           /\ [job[u] EXCEPT !.at = at] \in Job
           /\ [job[u] EXCEPT !.at = at].at = at
           /\ [job[u] EXCEPT !.at = at].on = job[u].on
           /\ [job EXCEPT ![u].at = at] = [job EXCEPT ![u] = [job[u] EXCEPT !.at = at]]
<1>1. NoJob \in Job
  BY DEF NoJob, Job, TurnConstants
<1>2. job[u] \in Job
  BY DEF Typed, TypeOK
<1>3. /\ [job[u] EXCEPT !.at = at] \in Job
      /\ [job[u] EXCEPT !.at = at].at = at
      /\ [job[u] EXCEPT !.at = at].on = job[u].on
  BY <1>2 DEF Job
<1>4. [job EXCEPT ![u].at = at] = [job EXCEPT ![u] = [job[u] EXCEPT !.at = at]]
  BY DEF Typed, TypeOK
<1> QED BY <1>1, <1>3, <1>4

\* What each step of a job does to the job.
Turns(u, at) == \E j \in Job : Sets(u, j) /\ j.at = at /\ j.on = job[u].on
Stops(u) == Sets(u, NoJob)

LEMMA JobTurns ==
    ASSUME TurnConstants, Typed, NEW u \in Updates,
           NEW at \in {"none", "waiting", "thinking", "sending", "looking", "locking",
                       "starting", "deleting"},
           job' = [job EXCEPT ![u].at = at]
    PROVE  Turns(u, at)
<1> DEFINE j == [job[u] EXCEPT !.at = at]
<1>1. j \in Job /\ j.at = at /\ j.on = job[u].on /\ job' = [job EXCEPT ![u] = j]
  BY JobFields
<1> HIDE DEF j
<1> QED BY <1>1, JobSet DEF Turns

LEMMA JobStops ==
    ASSUME TurnConstants, Typed, NEW u \in Updates, End(u)
    PROVE  Stops(u)
BY JobFields, JobSet DEF End, Stops

LEMMA JobMoves ==
    ASSUME TurnConstants, Typed, NEW u \in Updates
    PROVE  /\ Launch(u) => Turns(u, "thinking")
           /\ Think(u) => Stops(u) \/ Turns(u, "sending") \/ Turns(u, "looking")
           /\ Answer(u) => Stops(u) \/ Turns(u, "looking")
           /\ FailToAnswer(u) => Stops(u)
           /\ Look(u) => Stops(u) \/ \E j \in Job : Sets(u, j) /\ j.at = "locking" /\ j.on \in queued
           /\ Accept(u) => Stops(u) \/ (Running = {} /\ job[u].on \in queued
                                        /\ (Turns(u, "starting") \/ Turns(u, "deleting")))
           /\ StartQueued(u) => Turns(u, "deleting")
           /\ DeleteQueued(u) => Turns(u, IF turn[job[u].on] = "running" THEN "thinking" ELSE "looking")
<1>1. Launch(u) => Turns(u, "thinking")
  BY JobTurns DEF Launch
<1>2. ASSUME Think(u) PROVE Stops(u) \/ Turns(u, "sending") \/ Turns(u, "looking")
  <2>1. ASSUME NEW more \in BOOLEAN,
               job' = [job EXCEPT ![u].at = "sending", ![u].more = more]
        PROVE  Turns(u, "sending")
    <3> DEFINE j == [job[u] EXCEPT !.at = "sending", !.more = more]
    <3>1. j \in Job /\ j.at = "sending" /\ j.on = job[u].on /\ job' = [job EXCEPT ![u] = j]
      BY <2>1 DEF Typed, TypeOK, Job
    <3> HIDE DEF j
    <3> QED BY <3>1, JobSet DEF Turns
  <2>2. \/ End(u)
        \/ \E more \in BOOLEAN : job' = [job EXCEPT ![u].at = "sending", ![u].more = more]
        \/ job' = [job EXCEPT ![u].at = "looking"]
    BY <1>2 DEF Think
  <2> QED BY <2>1, <2>2, JobTurns, JobStops
<1>3. Answer(u) => Stops(u) \/ Turns(u, "looking")
  BY JobTurns, JobStops DEF Answer
<1>4. FailToAnswer(u) => Stops(u)
  BY JobStops DEF FailToAnswer
<1>5. ASSUME Look(u)
      PROVE  Stops(u) \/ \E j \in Job : Sets(u, j) /\ j.at = "locking" /\ j.on \in queued
  <2>1. CASE End(u)
    BY <2>1, JobStops
  <2>2. CASE ~End(u)
    <3> DEFINE j == [job[u] EXCEPT !.at = "locking", !.on = Least(queued), !.taken = @ + 1]
    <3>1. /\ queued # {} /\ job[u].taken # MaxQueued
          /\ job' = [job EXCEPT ![u].at = "locking", ![u].on = Least(queued), ![u].taken = @ + 1]
      BY <1>5, <2>2 DEF Look
    <3>2. queued \in SUBSET Nat /\ queued \subseteq 0..MaxUpdates
      BY DEF Typed, TypeOK, TurnConstants
    <3>3. Least(queued) \in queued
      BY <3>1, <3>2, LeastIsOne
    <3>4. j \in Job /\ j.at = "locking" /\ j.on = Least(queued) /\ job' = [job EXCEPT ![u] = j]
      BY <3>1, <3>2, <3>3 DEF Typed, TypeOK, Job, TurnConstants
    <3> HIDE DEF j
    <3> QED BY <3>3, <3>4, JobSet
  <2> QED BY <2>1, <2>2
<1>6. ASSUME Accept(u)
      PROVE  Stops(u) \/ (Running = {} /\ job[u].on \in queued
                          /\ (Turns(u, "starting") \/ Turns(u, "deleting")))
  <2>1. \/ End(u)
        \/ /\ Running = {} /\ job[u].on \in queued
           /\ \/ job' = [job EXCEPT ![u].at = "starting"]
              \/ job' = [job EXCEPT ![u].at = "deleting"]
    BY <1>6 DEF Accept, Active
  <2> QED BY <2>1, JobTurns, JobStops
<1>7. StartQueued(u) => Turns(u, "deleting")
  BY JobTurns DEF StartQueued
<1>8. DeleteQueued(u) => Turns(u, IF turn[job[u].on] = "running" THEN "thinking" ELSE "looking")
  BY JobTurns DEF DeleteQueued
<1> QED BY <1>1, <1>2, <1>3, <1>4, <1>5, <1>6, <1>7, <1>8

-----------------------------------------------------------------------------
(* One turn at a time *)

\* A step takes nothing, or takes a free lock, or starts a turn with it.
LEMMA LockKept ==
    ASSUME Lock,
           \/ Holders' \subseteq Holders /\ Starters' \subseteq Starters /\ Running' \subseteq Running
           \/ \E a : /\ Holders = {} /\ Holders' \subseteq {a} /\ Running' = Running
                     /\ Starters' # {} => Running = {}
           \/ \E a \in Starters : \E x :
                /\ Holders' \subseteq Holders
                /\ Starters' \subseteq Starters \ {a}
                /\ Running' \subseteq Running \cup {x}
    PROVE  Lock'
<1>1. Starters \subseteq Holders
  BY DEF Starters, Holders, Talking, At
<1>2. CASE Holders' \subseteq Holders /\ Starters' \subseteq Starters /\ Running' \subseteq Running
  BY <1>2 DEF Lock, Alone, StartsFree, OneRuns
<1>3. ASSUME NEW a, Holders = {}, Holders' \subseteq {a}, Running' = Running,
             Starters' # {} => Running = {}
      PROVE  Lock'
  BY <1>3 DEF Lock, Alone, StartsFree, OneRuns
<1>4. ASSUME NEW a \in Starters, NEW x, Holders' \subseteq Holders,
             Starters' \subseteq Starters \ {a}, Running' \subseteq Running \cup {x}
      PROVE  Lock'
  <2>1. Running = {} /\ Starters' = {}
    BY <1>1, <1>4 DEF Lock, Alone, StartsFree
  <2>2. Running' \subseteq {x}
    BY <1>4, <2>1
  <2> QED BY <1>4, <2>1, <2>2 DEF Lock, Alone, StartsFree, OneRuns
<1> QED BY <1>2, <1>3, <1>4

LEMMA HeldWhenLocked == Locked <=> Holders # {}
BY DEF Locked, Holders

\* A step of a handler that leaves the jobs that hold the lock alone.
JobsStay == \A v \in Updates : job'[v].at \in {"starting", "deleting"} => job'[v] = job[v]

LEMMA HandlerHolds ==
    ASSUME NEW h \in Handlers, Others(h), JobsStay
    PROVE  /\ Holders' \subseteq Holders \cup {<<"handler", h>>}
           /\ (Talking(h)' => Talking(h)) => Holders' \subseteq Holders
           /\ Starters' \subseteq Starters \cup {<<"handler", h>>}
           /\ ~At(h, "start")' => Starters' \subseteq Starters \ {<<"handler", h>>}
<1>1. \A g \in Handlers \ {h} : (Talking(g)' <=> Talking(g)) /\ (At(g, "start")' <=> At(g, "start"))
  BY DEF Others, Talking, At, Busy, Now
<1>2. \A v \in Updates : job'[v].at \in {"starting", "deleting"} =>
        job[v].at \in {"starting", "deleting"} /\ (job'[v].at = "starting" => job[v].at = "starting")
  BY DEF JobsStay
<1> QED BY <1>1, <1>2 DEF Holders, Starters

\* A step of a job.
LEMMA JobHolds ==
    ASSUME NEW u \in Updates, hand' = hand, \A v \in Updates \ {u} : job'[v] = job[v]
    PROVE  /\ Holders' \subseteq Holders \cup {<<"job", u>>}
           /\ (job'[u].at \in {"starting", "deleting"} => job[u].at \in {"starting", "deleting"}) =>
                Holders' \subseteq Holders
           /\ Starters' \subseteq Starters \cup {<<"job", u>>}
           /\ job'[u].at # "starting" => Starters' \subseteq Starters \ {<<"job", u>>}
<1>1. \A g \in Handlers : (Talking(g)' <=> Talking(g)) /\ (At(g, "start")' <=> At(g, "start"))
  BY DEF Talking, At, Busy, Now
<1> QED BY <1>1 DEF Holders, Starters

LEMMA SameRunning ==
    ASSUME turn' = turn
    PROVE  Running' = Running
BY DEF Running

LEMMA HandlersKeepLock ==
    ASSUME TurnConstants, IInv, NEW h \in Handlers, Work(h) \/ FailToTell(h)
    PROVE  IInv'
<1> USE DEF IInv
<1>1. Typed /\ Lock
  OBVIOUS
<1>2. CASE Handle(h)
  <2>1. UNCHANGED <<inbox, turn, queued, job, answered>> /\ Holders = {}
    BY <1>2, HeldWhenLocked DEF Handle, Same, tvars
  <2>2. PICK do \in {"cancel", "enqueue", "start", "tell"} :
          Moves(h, do) /\ (do = "start" => Running = {})
    BY <1>2, HandlerMoves
  <2>3. HandTyped' /\ Others(h) /\ (At(h, "start")' => do = "start")
    BY <2>2 DEF Moves, At
  <2>4. Typed'
    BY <2>1, <2>3, TypedAgain DEF Typed, TypeOK, TurnsTyped, JobsTyped, AnswersTyped
  <2>5. JobsStay
    BY <2>1 DEF JobsStay
  <2>6. Holders' \subseteq {<<"handler", h>>}
    BY <2>1, <2>3, <2>5, HandlerHolds
  <2>7. Starters = {}
    BY <2>1 DEF Starters, Holders, Talking, At
  <2>8. Starters' # {} => Running = {}
    BY <2>2, <2>3, <2>5, <2>7, HandlerHolds
  <2>9. Lock'
    BY <2>1, <2>6, <2>8, LockKept, SameRunning
  <2> QED BY <2>4, <2>9
<1>3. CASE StartTurn(h)
  <2> DEFINE u == Now(h).id
             j == [NoJob EXCEPT !.at = "waiting", !.on = u, !.more = TRUE]
  <2>1. /\ UNCHANGED <<inbox, queued, answered>> /\ At(h, "start") /\ Busy(h)
        /\ turn' = [turn EXCEPT ![u] = "running"] /\ job' = [job EXCEPT ![u] = j]
    BY <1>3 DEF StartTurn, Same, At
  <2>2. u \in Updates
    BY <2>1, Popped, BusyHand DEF At
  <2>3. j \in Job /\ j.at = "waiting"
    <3>1. u \in 0..MaxUpdates /\ 0 \in 0..MaxQueued
      BY <2>2 DEF Updates, TurnConstants
    <3>2. NoJob \in Job
      BY JobFields, <2>2
    <3> HIDE DEF u
    <3> QED BY <3>1, <3>2 DEF Job
  <2>4. Sets(u, j)
    BY <2>1, <2>2, <2>3, JobSet
  <2>5. Moves(h, "mark")
    BY <1>3, HandlerMoves
  <2>6. HandTyped' /\ Others(h) /\ ~At(h, "start")'
    BY <2>5 DEF Moves, At
  <2>7. TurnsTyped' /\ JobsTyped' /\ AnswersTyped'
    BY <2>1, <2>4 DEF Typed, TypeOK, TurnsTyped, AnswersTyped, Sets
  <2>8. Typed'
    BY <2>1, <2>6, <2>7, TypedAgain DEF Typed, TypeOK
  <2>9. JobsStay
    BY <2>3, <2>4 DEF JobsStay, Sets
  <2>10. Talking(h)
    BY <2>1 DEF Talking, At
  <2>11. Holders' \subseteq Holders /\ Starters' \subseteq Starters \ {<<"handler", h>>}
    BY <2>6, <2>9, <2>10, HandlerHolds
  <2>12. <<"handler", h>> \in Starters
    BY <2>1 DEF Starters
  <2>13. Running' \subseteq Running \cup {u}
    BY <2>1 DEF Running, Typed, TypeOK
  <2>14. Lock'
    BY <2>11, <2>12, <2>13, LockKept
  <2> QED BY <2>8, <2>14
<1>4. CASE ~Handle(h) /\ ~StartTurn(h)
  <2>1. /\ UNCHANGED <<inbox, job, answered>> /\ JobsStay
        /\ queued' \subseteq 1..Len(inbox)
    <3>1. UNCHANGED <<inbox, job, answered>>
      BY <1>4 DEF Work, Receive, Mark, Advance, Enqueue, CancelTurn, ClearQueue, Inform,
                  FailToTell, Fail, Same, tvars
    <3>2. queued' = queued \/ queued' = {} \/ (Enqueue(h) /\ queued' = queued \cup {Now(h).id})
      BY <1>4 DEF Work, Enqueue, CancelTurn, ClearQueue, Inform, FailToTell, tvars
    <3>3. Enqueue(h) => Now(h).id \in 1..Len(inbox)
      BY Popped, BusyHand DEF Enqueue, At
    <3> QED BY <3>1, <3>2, <3>3 DEF JobsStay, Typed, TypeOK
  <2>2. /\ HandTyped' /\ Others(h) /\ ~At(h, "start")'
        /\ Talking(h)' => Talking(h)
    <3>1. CASE Mark(h)
      <4>1. Moves(h, "advance")
        BY <3>1, HandlerMoves
      <4> QED BY <4>1 DEF Moves, At, Talking
    <3>2. CASE Enqueue(h) \/ Inform(h)
      <4>1. Moves(h, "mark")
        BY <3>2, HandlerMoves
      <4> QED BY <4>1 DEF Moves, At, Talking
    <3>3. CASE ClearQueue(h)
      <4>1. Moves(h, "tell") /\ Talking(h)
        BY <3>3, HandlerMoves DEF ClearQueue, At, Talking
      <4> QED BY <4>1 DEF Moves, At
    <3>4. CASE CancelTurn(h)
      <4>1. Talking(h) /\ \E do \in {"clear", "mark"} : Moves(h, do)
        BY <3>4, HandlerMoves DEF CancelTurn, At, Talking
      <4> QED BY <4>1 DEF Moves, At
    <3>5. CASE Advance(h) \/ FailToTell(h)
      <4>1. Leaves(h)
        BY <3>5, HandlerMoves
      <4> QED BY <4>1 DEF Leaves, At, Talking
    <3>6. CASE Receive(h)
      <4>1. PICK u \in 1..Len(inbox) : Takes(h, u)
        BY <3>6, HandlerMoves
      <4> QED BY <4>1 DEF Takes, At, Talking
    <3> QED BY <1>4, <3>1, <3>2, <3>3, <3>4, <3>5, <3>6 DEF Work
  <2>3. TurnsTyped' /\ Running' \subseteq Running
    <3>1. \/ turn' = turn
          \/ \E v : turn' = [turn EXCEPT ![v] = "cancelled"]
      BY <1>4 DEF Work, Enqueue, CancelTurn, ClearQueue, Inform, FailToTell, tvars
    <3> QED BY <3>1 DEF Typed, TypeOK, TurnsTyped, Running
  <2>4. Typed'
    BY <2>1, <2>2, <2>3, TypedAgain DEF Typed, TypeOK, JobsTyped, AnswersTyped
  <2>5. Holders' \subseteq Holders /\ Starters' \subseteq Starters
    BY <2>1, <2>2, HandlerHolds
  <2>6. Lock'
    BY <2>3, <2>5, LockKept
  <2> QED BY <2>4, <2>6
<1> QED BY <1>2, <1>3, <1>4

\* A job writes to no turn but that of its question, and ends no turn that is
\* not running.
LEMMA JobTyped ==
    ASSUME TurnConstants, Typed, NEW u \in Updates, InBackground(u) \/ FailToAnswer(u)
    PROVE  /\ inbox' = inbox /\ hand' = hand
           /\ Typed'
           /\ \A v \in Updates \ {u} : job'[v] = job[v]
           /\ ~StartQueued(u) => Running' \subseteq Running
<1>1. inbox' = inbox /\ hand' = hand /\ HandTyped'
  <2>1. inbox' = inbox /\ hand' = hand
    BY DEF InBackground, Launch, Think, Answer, Look, Accept, StartQueued, DeleteQueued,
           FailToAnswer, uvars
  <2> QED BY <2>1 DEF Typed, HandTyped
<1>2. queued' \subseteq 1..Len(inbox) /\ AnswersTyped'
  <2>1. /\ queued' = queued \/ queued' = queued \ {job[u].on}
        /\ \/ answered' = answered
           \/ answered' = [answered EXCEPT ![job[u].on] = IF @ < 2 THEN @ + 1 ELSE @]
    BY DEF InBackground, Launch, Think, Answer, Look, Accept, StartQueued, DeleteQueued,
           FailToAnswer
  <2>2. queued' \subseteq 1..Len(inbox)
    BY <2>1 DEF Typed, TypeOK
  <2>3. answered \in [Updates -> 0..2]
    BY DEF Typed, TypeOK
  <2>4. \A v \in Updates : answered[v] \in 0..2
                          /\ (IF answered[v] < 2 THEN answered[v] + 1 ELSE answered[v]) \in 0..2
    BY <2>3
  <2>5. AnswersTyped'
    BY <2>1, <2>3, <2>4 DEF AnswersTyped
  <2> QED BY <2>2, <2>5
<1>3. JobsTyped' /\ \A v \in Updates \ {u} : job'[v] = job[v]
  <2>1. \E j \in Job : Sets(u, j)
    BY JobMoves, JobFields DEF InBackground, Turns, Stops
  <2> QED BY <2>1 DEF Sets
<1>4. TurnsTyped' /\ (~StartQueued(u) => Running' \subseteq Running)
  <2>1. \/ turn' = turn
        \/ \E status \in {"completed", "failed"} : turn' = [turn EXCEPT ![job[u].on] = status]
        \/ StartQueued(u) /\ turn' = [turn EXCEPT ![job[u].on] = "running"]
    BY DEF InBackground, Launch, Think, CompleteIfRunning, Failed, Answer, Look, Accept,
           StartQueued, DeleteQueued, FailToAnswer
  <2> QED BY <2>1 DEF Typed, TypeOK, TurnsTyped, Running
<1> QED BY <1>1, <1>2, <1>3, <1>4, TypedAgain

LEMMA JobsKeepLock ==
    ASSUME TurnConstants, IInv, NEW u \in Updates, InBackground(u) \/ FailToAnswer(u)
    PROVE  IInv'
<1>1. /\ Typed /\ Lock /\ Typed' /\ hand' = hand
      /\ \A v \in Updates \ {u} : job'[v] = job[v]
      /\ ~StartQueued(u) => Running' \subseteq Running
  BY JobTyped DEF IInv
<1>2. CASE Accept(u)
  <2>1. Holders = {} /\ turn' = turn
    BY <1>2, HeldWhenLocked DEF Accept
  <2>2. Stops(u) \/ Running = {}
    BY <1>1, <1>2, JobMoves
  <2>3. Holders' \subseteq {<<"job", u>>}
    BY <1>1, <2>1, JobHolds
  <2>4. Starters = {}
    BY <2>1 DEF Starters, Holders, Talking, At
  <2>5. Stops(u) => job'[u].at # "starting"
    BY DEF Stops, Sets, NoJob
  <2>6. Starters' # {} => Running = {}
    BY <1>1, <2>2, <2>4, <2>5, JobHolds
  <2>7. Lock'
    BY <1>1, <2>1, <2>3, <2>6, LockKept, SameRunning
  <2> QED BY <1>1, <2>7 DEF IInv
<1>3. CASE StartQueued(u)
  <2>1. <<"job", u>> \in Starters /\ job[u].at = "starting"
    BY <1>3 DEF Starters, StartQueued
  <2>2. job'[u].at = "deleting"
    BY <1>1, <1>3, JobMoves DEF Turns, Sets
  <2>3. Holders' \subseteq Holders /\ Starters' \subseteq Starters \ {<<"job", u>>}
    BY <1>1, <2>1, <2>2, JobHolds
  <2>4. Running' \subseteq Running \cup {job[u].on}
    BY <1>1, <1>3 DEF StartQueued, Running, Typed, TypeOK
  <2>5. Lock'
    BY <1>1, <2>1, <2>3, <2>4, LockKept
  <2> QED BY <1>1, <2>5 DEF IInv
<1>4. CASE ~Accept(u) /\ ~StartQueued(u)
  <2>1. job'[u].at \notin {"starting", "deleting"}
    <3>1. CASE Launch(u)
      BY <1>1, <3>1, JobMoves DEF Turns, Sets
    <3>2. CASE Think(u) \/ Answer(u) \/ FailToAnswer(u)
      BY <1>1, <3>2, JobMoves DEF Turns, Stops, Sets, NoJob
    <3>3. CASE Look(u)
      BY <1>1, <3>3, JobMoves DEF Stops, Sets, NoJob
    <3>4. CASE DeleteQueued(u)
      BY <1>1, <3>4, JobMoves DEF Turns, Sets
    <3> QED BY <1>4, <3>1, <3>2, <3>3, <3>4 DEF InBackground
  <2>2. Holders' \subseteq Holders /\ Starters' \subseteq Starters
    BY <1>1, <2>1, JobHolds
  <2>3. Lock'
    BY <1>1, <1>4, <2>2, LockKept
  <2> QED BY <1>1, <2>3 DEF IInv
<1> QED BY <1>2, <1>3, <1>4

LEMMA OthersKeepLock ==
    ASSUME TurnConstants, IInv, SaySomething \/ CrashAll \/ UNCHANGED vars
    PROVE  IInv'
<1>1. Typed /\ Lock
  BY DEF IInv
<1>2. CASE SaySomething
  <2>1. PICK said \in {"question", "other", "no"} :
          /\ Len(inbox) < MaxUpdates /\ inbox' = Append(inbox, said)
          /\ UNCHANGED <<hand, turn, queued, job, answered>>
    BY <1>2 DEF SaySomething, Arrive, tvars
  <2>2. /\ inbox' \in Seq({"question", "other", "no"}) /\ Len(inbox') = Len(inbox) + 1
        /\ Len(inbox) \in Nat
    BY <2>1, <1>1 DEF Typed, TypeOK
  <2>3. 1..Len(inbox) \subseteq 1..Len(inbox') /\ Len(inbox') <= MaxUpdates
    BY <2>1, <2>2 DEF TurnConstants
  <2>4. HandTyped'
    BY <1>1, <2>1, <2>3 DEF Typed, HandTyped
  <2>5. Typed'
    BY <1>1, <2>1, <2>2, <2>3, <2>4 DEF Typed, TypeOK
  <2>6. Holders' = Holders /\ Starters' = Starters /\ Running' = Running
    BY <2>1 DEF Holders, Starters, Running, Talking, At, Busy, Now
  <2>7. Lock'
    BY <1>1, <2>6, LockKept
  <2> QED BY <2>5, <2>7 DEF IInv
<1>3. CASE CrashAll
  <2>1. /\ UNCHANGED <<inbox, turn, queued, answered>>
        /\ hand' = [h \in Handlers |-> Idle] /\ job' = [u \in Updates |-> NoJob]
    BY <1>3 DEF CrashAll, Crash
  <2>2. HandTyped'
    BY <2>1 DEF HandTyped
  <2>3. NoJob \in Job
    BY DEF NoJob, Job, TurnConstants
  <2>4. Typed'
    BY <1>1, <2>1, <2>2, <2>3 DEF Typed, TypeOK
  <2>5. Holders' = {} /\ Starters' = {}
    BY <2>1 DEF Holders, Starters, Talking, At, Busy, Idle, NoJob
  <2>6. Lock'
    BY <1>1, <2>1, <2>5, LockKept, SameRunning
  <2> QED BY <2>4, <2>6 DEF IInv
<1>4. CASE UNCHANGED vars
  <2>1. UNCHANGED <<inbox, hand, turn, queued, job, answered>>
    BY <1>4 DEF vars, uvars, tvars
  <2>2. Typed'
    BY <1>1, <2>1 DEF Typed, TypeOK, HandTyped
  <2>3. Holders' = Holders /\ Starters' = Starters /\ Running' = Running
    BY <2>1 DEF Holders, Starters, Running, Talking, At, Busy, Now
  <2>4. Lock'
    BY <1>1, <2>3, LockKept
  <2> QED BY <2>2, <2>4 DEF IInv
<1> QED BY <1>2, <1>3, <1>4

\* For any handlers, updates and limits, and whatever crashes, what is known of
\* the turns, the handlers and the lock of a conversation stays true: a handler
\* does the steps of one update, one at most is past the conversation lock, and
\* none runs while it is about to start a turn (src/domain/telegramAssistant/
\* service.ts, handleMessageUnderConversationLock and drainQueuedMessages).
THEOREM TurnInvariant ==
    ASSUME TurnConstants
    PROVE  Spec => []IInv
<1>1. Init => IInv
  <2>1. SUFFICES ASSUME Init PROVE IInv
    OBVIOUS
  <2>2. /\ inbox = <<>> /\ queued = {} /\ hand = [h \in Handlers |-> Idle]
        /\ turn = [u \in Updates |-> "none"] /\ job = [u \in Updates |-> NoJob]
        /\ answered = [u \in Updates |-> 0]
    BY <2>1 DEF Init, UpdatesInit
  <2>3. inbox \in Seq({"question", "other", "no"}) /\ Len(inbox) = 0
    BY <2>2
  <2>4. NoJob \in Job
    BY DEF NoJob, Job, TurnConstants
  <2>5. Typed
    BY <2>2, <2>3, <2>4 DEF Typed, TypeOK, HandTyped, TurnConstants
  <2>6. Holders = {} /\ Starters = {} /\ Running = {}
    BY <2>2 DEF Holders, Starters, Running, Talking, At, Busy, Idle, NoJob
  <2> QED BY <2>5, <2>6 DEF IInv, Lock, Alone, StartsFree, OneRuns
<1>2. IInv /\ [Next]_vars => IInv'
  BY HandlersKeepLock, JobsKeepLock, OthersKeepLock DEF Next
<1> QED BY <1>1, <1>2, PTL DEF Spec

\* Types of the turns of a conversation.
THEOREM TypeCorrect ==
    ASSUME TurnConstants
    PROVE  Spec => []TypeOK
<1>1. IInv => TypeOK
  BY DEF IInv, Typed
<1> QED BY <1>1, TurnInvariant, PTL

\* Whoever starts a turn, a handler or a job that takes up a queued message, and
\* whatever crashes, only one turn of a conversation runs at a time.
THEOREM OneTurn ==
    ASSUME TurnConstants
    PROVE  Spec => []OneTurnAtATime
<1>1. IInv => OneTurnAtATime
  <2>1. SUFFICES ASSUME IInv PROVE Cardinality(Running) <= 1
    BY DEF OneTurnAtATime
  <2>2. CASE Running = {}
    BY <2>2, FS_EmptySet
  <2>3. CASE Running # {}
    <3>1. PICK u \in Running : TRUE
      BY <2>3
    <3>2. Running = {u}
      BY <2>1, <3>1 DEF IInv, Lock, OneRuns
    <3>3. Cardinality({u}) = 1
      BY FS_Singleton
    <3> QED BY <3>2, <3>3
  <2> QED BY <2>2, <2>3
<1> QED BY <1>1, TurnInvariant, PTL

-----------------------------------------------------------------------------
(* Where a question is, without crashes: the jobs *)

\* One holds the lock.
LEMMA HoldsAlone ==
    ASSUME IInv
    PROVE  /\ \A h \in Handlers, v \in Updates : Talking(h) => job[v].at \notin {"starting", "deleting"}
           /\ \A v, w \in Updates :
                job[v].at \in {"starting", "deleting"} /\ job[w].at \in {"starting", "deleting"} => v = w
<1>1. \A h \in Handlers : Talking(h) => <<"handler", h>> \in Holders
  BY DEF Holders
<1>2. \A v \in Updates : job[v].at \in {"starting", "deleting"} => <<"job", v>> \in Holders
  BY DEF Holders
<1>3. \A a, b \in Holders : a = b
  BY DEF IInv, Lock, Alone
<1>4. \A h, v : <<"handler", h>> # <<"job", v>>
  OBVIOUS
<1>5. \A v, w : <<"job", v>> = <<"job", w>> => v = w
  OBVIOUS
<1> QED BY <1>1, <1>2, <1>3, <1>4, <1>5

LEMMA QueuedUpdates ==
    ASSUME TurnConstants, Typed
    PROVE  queued \subseteq Updates
BY DEF Typed, TypeOK, Updates, TurnConstants

LEMMA NothingMoves ==
    ASSUME JobsPlaced, UNCHANGED <<turn, queued, job, answered>>
    PROVE  JobsPlaced'
BY DEF JobsPlaced, InQueue, AtWork, WellPlaced, OneJob, AnsweredOnce, Engaged, Deleting

\* A job that gives up, or goes on to the queue.
LEMMA JobLeaves ==
    ASSUME TurnConstants, Typed, JobsPlaced, NEW u \in Updates, NEW j \in Job, Sets(u, j),
           j.at \in {"none", "looking", "locking"}, j.at # "none" => j.on \in Updates,
           job[u].at # "deleting", UNCHANGED <<turn, queued, answered>>
    PROVE  JobsPlaced'
<1>1. \A v, x : v \in Updates /\ (Engaged(v, x)' \/ Deleting(v, x)') => v # u
  BY DEF Sets, Engaged, Deleting
<1>2. \A v \in Updates \ {u} : job'[v] = job[v]
  BY DEF Sets
<1>3. \A v, x : v \in Updates => (Engaged(v, x)' => Engaged(v, x)) /\ (Deleting(v, x)' <=> Deleting(v, x))
  BY <1>1, <1>2 DEF Engaged, Deleting
<1>4. InQueue'
  BY <1>3 DEF JobsPlaced, InQueue
<1>5. OneJob'
  BY <1>3 DEF JobsPlaced, OneJob
<1>6. AtWork'
  BY <1>2 DEF JobsPlaced, AtWork, WellPlaced, Sets
<1> QED BY <1>4, <1>5, <1>6 DEF JobsPlaced, AnsweredOnce

LEMMA LaunchPlaces ==
    ASSUME TurnConstants, IInv, JobsPlaced, NEW u \in Updates, Launch(u)
    PROVE  JobsPlaced'
<1>1. job[u].at = "waiting" /\ UNCHANGED <<turn, queued, answered>>
  BY DEF Launch
<1>2. PICK j \in Job : Sets(u, j) /\ j.at = "thinking" /\ j.on = job[u].on
  BY JobMoves DEF IInv, Turns
<1>3. \A v, x : v \in Updates => (Engaged(v, x)' <=> Engaged(v, x)) /\ (Deleting(v, x)' <=> Deleting(v, x))
  BY <1>1, <1>2 DEF Engaged, Deleting, Sets
<1>4. InQueue' /\ OneJob'
  BY <1>1, <1>3 DEF JobsPlaced, InQueue, OneJob
<1>5. AtWork'
  BY <1>1, <1>2 DEF JobsPlaced, AtWork, WellPlaced, Sets
<1> QED BY <1>1, <1>4, <1>5 DEF JobsPlaced, AnsweredOnce

\* Codex is done with a question: its turn ends, when it still runs.
LEMMA ThinkEnds ==
    ASSUME TurnConstants, Typed, NEW u \in Updates, Think(u)
    PROVE  \/ /\ turn[job[u].on] = "running" /\ Turns(u, "sending")
              /\ \E status \in {"completed", "failed"} : turn' = [turn EXCEPT ![job[u].on] = status]
           \/ /\ turn[job[u].on] = "running" /\ Stops(u)
              /\ turn' = [turn EXCEPT ![job[u].on] = "failed"]
           \/ turn' = turn /\ (Stops(u) \/ Turns(u, "looking"))
<1>1. CASE /\ Failed(job[u].on) /\ End(u)
  BY <1>1, JobStops DEF Failed
<1>2. ASSUME NEW status \in {"completed", "failed"}, NEW more \in BOOLEAN,
             CompleteIfRunning(job[u].on, status),
             job' = [job EXCEPT ![u].at = "sending", ![u].more = more]
      PROVE  /\ turn[job[u].on] = "running" /\ Turns(u, "sending")
             /\ turn' = [turn EXCEPT ![job[u].on] = status]
  <2> DEFINE j == [job[u] EXCEPT !.at = "sending", !.more = more]
  <2>1. j \in Job /\ j.at = "sending" /\ j.on = job[u].on /\ job' = [job EXCEPT ![u] = j]
    BY <1>2 DEF Typed, TypeOK, Job
  <2> HIDE DEF j
  <2>2. Turns(u, "sending")
    BY <2>1, JobSet DEF Turns
  <2> QED BY <1>2, <2>2 DEF CompleteIfRunning
<1>3. CASE UNCHANGED turn /\ (End(u) \/ job' = [job EXCEPT ![u].at = "looking"])
  BY <1>3, JobStops, JobTurns
<1>4. \/ Failed(job[u].on) /\ End(u)
      \/ \E status \in {"completed", "failed"}, more \in BOOLEAN :
           /\ CompleteIfRunning(job[u].on, status)
           /\ job' = [job EXCEPT ![u].at = "sending", ![u].more = more]
      \/ UNCHANGED turn /\ (End(u) \/ job' = [job EXCEPT ![u].at = "looking"])
  BY DEF Think
<1> QED BY <1>1, <1>2, <1>3, <1>4

\* A job is with a question that no other job is with and that is not queued.
LEMMA OneEngaged ==
    ASSUME JobsPlaced, NEW u \in Updates, job[u].at \in {"waiting", "thinking", "sending"}
    PROVE  /\ job[u].on \in Updates /\ job[u].on \notin queued
           /\ Engaged(u, job[u].on) /\ answered[job[u].on] = 0
           /\ \A v \in Updates : Engaged(v, job[u].on) => v = u
<1>1. Engaged(u, job[u].on)
  BY DEF Engaged
<1>2. job[u].on \in Updates /\ answered[job[u].on] = 0
  BY DEF JobsPlaced, AtWork, WellPlaced
<1> QED BY <1>1, <1>2 DEF JobsPlaced, InQueue, OneJob

\* The turn or the answers of a question that a job is with change, and the job
\* goes on with it or leaves it.
LEMMA QuestionMoves ==
    ASSUME TurnConstants, Typed, JobsPlaced, NEW u \in Updates, NEW j \in Job, Sets(u, j),
           job[u].at \in {"thinking", "sending"},
           j.at \in {"none", "sending", "looking"}, j.at # "none" => j.on = job[u].on,
           queued' = queued,
           \A x \in Updates \ {job[u].on} : turn'[x] = turn[x] /\ answered'[x] = answered[x],
           answered'[job[u].on] <= 1,
           j.at = "sending" => /\ turn'[job[u].on] \in {"completed", "failed"}
                              /\ answered'[job[u].on] = 0
    PROVE  JobsPlaced'
<1> DEFINE on == job[u].on
<1>1. /\ on \in Updates /\ on \notin queued /\ Engaged(u, on)
      /\ \A v \in Updates : Engaged(v, on) => v = u
  BY OneEngaged
<1>2. /\ job'[u] = j /\ \A v \in Updates \ {u} : job'[v] = job[v]
  BY DEF Sets
<1>3. \A v, x : v \in Updates => (Engaged(v, x)' => Engaged(v, x)) /\ (Deleting(v, x)' <=> Deleting(v, x))
  BY <1>2 DEF Engaged, Deleting
<1>4. OneJob'
  BY <1>3 DEF JobsPlaced, OneJob
<1>5. InQueue'
  <2>1. SUFFICES ASSUME NEW x \in queued
                 PROVE  /\ answered'[x] = 0
                        /\ turn'[x] = "none" \/ (turn'[x] = "running" /\ \E v \in Updates : Deleting(v, x)')
                        /\ \A v \in Updates : ~Engaged(v, x)'
    BY DEF InQueue
  <2>2. x \in Updates /\ x # on
    BY <1>1 DEF Typed, TypeOK, Updates, TurnConstants
  <2>3. turn'[x] = turn[x] /\ answered'[x] = answered[x]
    BY <2>2
  <2> QED BY <1>3, <2>3 DEF JobsPlaced, InQueue
<1>6. ASSUME NEW v \in Updates \ {u} PROVE WellPlaced(v, job[v].on)'
  <2>1. WellPlaced(v, job[v].on) /\ job'[v] = job[v]
    BY <1>2 DEF JobsPlaced, AtWork
  <2>2. CASE job[v].at \in {"none", "looking", "locking", "deleting"}
    BY <2>1, <2>2 DEF WellPlaced
  <2>3. CASE job[v].at \in {"waiting", "thinking", "sending"}
    <3>1. job[v].on \in Updates /\ job[v].on # on
      BY <1>1, <2>1, <2>3 DEF WellPlaced, Engaged
    <3> QED BY <2>1, <2>3, <3>1 DEF WellPlaced
  <2>4. CASE job[v].at = "starting"
    <3>1. job[v].on \in Updates /\ job[v].on # on
      BY <1>1, <2>1, <2>4 DEF WellPlaced
    <3> QED BY <2>1, <2>4, <3>1 DEF WellPlaced
  <2>5. job[v] \in Job
    BY DEF Typed, TypeOK
  <2> QED BY <2>2, <2>3, <2>4, <2>5 DEF Job
<1>7. WellPlaced(u, job[u].on)'
  BY <1>1, <1>2 DEF WellPlaced
<1>8. AnsweredOnce'
  BY <1>1 DEF JobsPlaced, AnsweredOnce
<1>9. AtWork'
  BY <1>6, <1>7 DEF AtWork
<1> QED BY <1>4, <1>5, <1>8, <1>9 DEF JobsPlaced

LEMMA ThinkPlaces ==
    ASSUME TurnConstants, IInv, JobsPlaced, NEW u \in Updates, Think(u)
    PROVE  JobsPlaced'
<1> DEFINE on == job[u].on
<1>1. /\ Typed /\ job[u].at = "thinking" /\ UNCHANGED <<queued, answered>>
  BY DEF IInv, Think
<1>2. on \in Updates /\ answered[on] = 0
  BY <1>1, OneEngaged
<1>3. NoJob \in Job /\ NoJob.at = "none"
  BY <1>1, JobFields DEF NoJob
<1>4. CASE /\ turn[on] = "running" /\ Turns(u, "sending")
           /\ \E status \in {"completed", "failed"} : turn' = [turn EXCEPT ![on] = status]
  <2>1. PICK j \in Job : Sets(u, j) /\ j.at = "sending" /\ j.on = on
    BY <1>4 DEF Turns
  <2>2. PICK status \in {"completed", "failed"} : turn' = [turn EXCEPT ![on] = status]
    BY <1>4
  <2>3. /\ turn'[on] \in {"completed", "failed"}
        /\ \A x \in Updates \ {on} : turn'[x] = turn[x]
    BY <1>1, <1>2, <2>2 DEF Typed, TypeOK
  <2> QED BY <1>1, <1>2, <2>1, <2>3, QuestionMoves
<1>5. CASE /\ turn[on] = "running" /\ Stops(u) /\ turn' = [turn EXCEPT ![on] = "failed"]
  <2>1. \A x \in Updates \ {on} : turn'[x] = turn[x]
    BY <1>1, <1>5 DEF Typed, TypeOK
  <2>2. Sets(u, NoJob)
    BY <1>5 DEF Stops
  <2> QED BY <1>1, <1>2, <1>3, <2>1, <2>2, QuestionMoves
<1>6. CASE turn' = turn /\ (Stops(u) \/ Turns(u, "looking"))
  <2>1. PICK j \in Job : Sets(u, j) /\ j.at \in {"none", "looking"} /\ (j.at # "none" => j.on = on)
    BY <1>3, <1>6 DEF Stops, Turns
  <2> QED BY <1>1, <1>2, <1>6, <2>1, QuestionMoves
<1> QED BY <1>1, <1>4, <1>5, <1>6, ThinkEnds

LEMMA AnswerPlaces ==
    ASSUME TurnConstants, IInv, JobsPlaced, NEW u \in Updates, Answer(u) \/ FailToAnswer(u)
    PROVE  JobsPlaced'
<1> DEFINE on == job[u].on
<1>1. /\ Typed /\ job[u].at = "sending" /\ UNCHANGED <<turn, queued>>
      /\ \/ answered' = answered
         \/ answered' = [answered EXCEPT ![on] = IF @ < 2 THEN @ + 1 ELSE @]
  BY DEF IInv, Answer, FailToAnswer
<1>2. on \in Updates /\ answered[on] = 0
  BY <1>1, OneEngaged
<1>3. NoJob \in Job /\ NoJob.at = "none"
  BY <1>1, JobFields DEF NoJob
<1>4. PICK j \in Job : Sets(u, j) /\ j.at \in {"none", "looking"} /\ (j.at # "none" => j.on = on)
  BY <1>1, <1>3, JobMoves DEF Stops, Turns
<1>5. /\ answered'[on] <= 1
      /\ \A x \in Updates \ {on} : answered'[x] = answered[x]
  BY <1>1, <1>2 DEF Typed, TypeOK
<1> QED BY <1>1, <1>4, <1>5, QuestionMoves

LEMMA LookPlaces ==
    ASSUME TurnConstants, IInv, JobsPlaced, NEW u \in Updates, Look(u)
    PROVE  JobsPlaced'
<1>1. Typed /\ job[u].at = "looking" /\ UNCHANGED <<turn, queued, answered>>
  BY DEF IInv, Look
<1>2. queued \subseteq Updates
  BY <1>1, QueuedUpdates
<1>3. NoJob \in Job /\ NoJob.at = "none"
  BY <1>1, JobFields DEF NoJob
<1>4. PICK j \in Job : Sets(u, j) /\ j.at \in {"none", "locking"} /\ (j.at # "none" => j.on \in Updates)
  BY <1>1, <1>2, <1>3, JobMoves DEF Stops
<1> QED BY <1>1, <1>4, JobLeaves

LEMMA AcceptPlaces ==
    ASSUME TurnConstants, IInv, JobsPlaced, NEW u \in Updates, Accept(u)
    PROVE  JobsPlaced'
<1> DEFINE on == job[u].on
<1>1. Typed /\ job[u].at = "locking" /\ UNCHANGED <<turn, queued, answered>>
  BY DEF IInv, Accept
<1>2. NoJob \in Job /\ NoJob.at = "none"
  BY <1>1, JobFields DEF NoJob
<1>3. CASE Stops(u)
  BY <1>1, <1>2, <1>3, JobLeaves DEF Stops
<1>4. CASE Running = {} /\ on \in queued /\ (Turns(u, "starting") \/ Turns(u, "deleting"))
  <2>1. PICK j \in Job : Sets(u, j) /\ j.at \in {"starting", "deleting"} /\ j.on = on
    BY <1>4 DEF Turns
  <2>2. on \in Updates
    BY <1>1, <1>4, QueuedUpdates
  <2>3. turn[on] = "none"
    BY <1>4, <2>2 DEF JobsPlaced, InQueue, Running
  <2>4. \A v, x : v \in Updates => (Engaged(v, x)' => Engaged(v, x)) /\ (Deleting(v, x) => Deleting(v, x)')
    BY <1>1, <2>1 DEF Engaged, Deleting, Sets
  <2>5. InQueue' /\ OneJob'
    BY <1>1, <2>4 DEF JobsPlaced, InQueue, OneJob
  <2>6. AtWork'
    BY <1>1, <1>4, <2>1, <2>2, <2>3 DEF JobsPlaced, AtWork, WellPlaced, Sets
  <2> QED BY <1>1, <2>5, <2>6 DEF JobsPlaced, AnsweredOnce
<1> QED BY <1>1, <1>3, <1>4, JobMoves

LEMMA StartQueuedPlaces ==
    ASSUME TurnConstants, IInv, JobsPlaced, NEW u \in Updates, StartQueued(u)
    PROVE  JobsPlaced'
<1>0. PICK on : on = job[u].on
  OBVIOUS
<1>1. /\ Typed /\ job[u].at = "starting" /\ UNCHANGED <<queued, answered>>
      /\ turn' = [turn EXCEPT ![on] = "running"]
  BY <1>0 DEF IInv, StartQueued
<1>2. /\ on \in Updates /\ on \in queued /\ turn[on] = "none"
  BY <1>0, <1>1 DEF JobsPlaced, AtWork, WellPlaced
<1>3. PICK j \in Job : Sets(u, j) /\ j.at = "deleting" /\ j.on = on
  BY <1>0, <1>1, JobMoves DEF Turns
<1>4. turn'[on] = "running" /\ \A x \in Updates \ {on} : turn'[x] = turn[x]
  BY <1>1, <1>2 DEF Typed, TypeOK
<1>5. \A v, x : v \in Updates => (Engaged(v, x)' => Engaged(v, x)) /\ (Deleting(v, x) => Deleting(v, x)')
  BY <1>0, <1>1, <1>3 DEF Engaged, Deleting, Sets
<1>6. Deleting(u, on)'
  BY <1>3 DEF Deleting, Sets
<1>7. OneJob'
  BY <1>5 DEF JobsPlaced, OneJob
<1>8. InQueue'
  <2>1. SUFFICES ASSUME NEW x \in queued
                 PROVE  /\ answered'[x] = 0
                        /\ turn'[x] = "none" \/ (turn'[x] = "running" /\ \E v \in Updates : Deleting(v, x)')
                        /\ \A v \in Updates : ~Engaged(v, x)'
    BY <1>1 DEF InQueue
  <2>2. x \in Updates
    BY <1>1, QueuedUpdates
  <2>3. answered'[x] = 0 /\ \A v \in Updates : ~Engaged(v, x)'
    BY <1>1, <1>5 DEF JobsPlaced, InQueue
  <2>4. CASE x = on
    <3>1. turn'[x] = "running" /\ Deleting(u, x)'
      BY <1>4, <1>6, <2>4
    <3>2. \E v \in Updates : Deleting(v, x)'
      BY <3>1
    <3> QED BY <2>3, <3>1, <3>2
  <2>5. CASE x # on
    BY <1>4, <1>5, <2>2, <2>3, <2>5 DEF JobsPlaced, InQueue
  <2> QED BY <2>4, <2>5
<1>9. ASSUME NEW v \in Updates \ {u} PROVE WellPlaced(v, job[v].on)'
  <2>1. WellPlaced(v, job[v].on) /\ job'[v] = job[v]
    BY <1>3 DEF JobsPlaced, AtWork, Sets
  <2>2. job[v].at # "starting"
    BY <1>1, HoldsAlone
  <2>3. job[v].at \in {"waiting", "thinking", "sending"} => job[v].on \in Updates /\ job[v].on # on
    BY <1>2, <2>1 DEF WellPlaced
  <2> QED BY <1>1, <1>4, <2>1, <2>2, <2>3 DEF WellPlaced
<1>10. WellPlaced(u, job[u].on)'
  BY <1>0, <1>1, <1>2, <1>3 DEF WellPlaced, Sets
<1>11. AtWork'
  BY <1>9, <1>10 DEF AtWork
<1> QED BY <1>1, <1>7, <1>8, <1>11 DEF JobsPlaced, AnsweredOnce

LEMMA DeleteQueuedPlaces ==
    ASSUME TurnConstants, IInv, JobsPlaced, NEW u \in Updates, DeleteQueued(u)
    PROVE  JobsPlaced'
<1>0. PICK on : on = job[u].on
  OBVIOUS
<1>1. /\ Typed /\ job[u].at = "deleting" /\ UNCHANGED <<turn, answered>>
      /\ queued' = queued \ {on}
  BY <1>0 DEF IInv, DeleteQueued
<1>2. on \in Updates /\ on \in queued /\ answered[on] = 0 /\ \A v \in Updates : ~Engaged(v, on)
  BY <1>0, <1>1 DEF JobsPlaced, AtWork, WellPlaced, InQueue
<1>3. PICK j \in Job : /\ Sets(u, j) /\ j.on = on
                      /\ j.at = IF turn[on] = "running" THEN "thinking" ELSE "looking"
  BY <1>0, <1>1, JobMoves DEF Turns
<1>4. \A v, x : v \in Updates =>
        /\ Engaged(v, x)' => Engaged(v, x) \/ (v = u /\ x = on)
        /\ x # on => (Deleting(v, x) => Deleting(v, x)')
  BY <1>0, <1>3 DEF Engaged, Deleting, Sets
<1>5. InQueue'
  <2>1. SUFFICES ASSUME NEW x \in queued \ {on}
                 PROVE  /\ answered[x] = 0
                        /\ turn[x] = "none" \/ (turn[x] = "running" /\ \E v \in Updates : Deleting(v, x)')
                        /\ \A v \in Updates : ~Engaged(v, x)'
    BY <1>1 DEF InQueue
  <2>2. /\ answered[x] = 0
        /\ turn[x] = "none" \/ (turn[x] = "running" /\ \E v \in Updates : Deleting(v, x))
        /\ \A v \in Updates : ~Engaged(v, x)
    BY DEF JobsPlaced, InQueue
  <2>3. \A v \in Updates : ~Engaged(v, x)'
    BY <1>4, <2>2
  <2> QED BY <1>4, <2>2, <2>3
<1>6. OneJob'
  <2>1. SUFFICES ASSUME NEW v \in Updates, NEW w \in Updates, NEW x \in Updates,
                        Engaged(v, x)', Engaged(w, x)'
                 PROVE  v = w
    BY DEF OneJob
  <2>2. /\ Engaged(v, x) \/ (v = u /\ x = on)
        /\ Engaged(w, x) \/ (w = u /\ x = on)
    BY <1>4, <2>1
  <2> QED BY <1>2, <2>2 DEF JobsPlaced, OneJob
<1>7. ASSUME NEW v \in Updates \ {u} PROVE WellPlaced(v, job[v].on)'
  <2>1. WellPlaced(v, job[v].on) /\ job'[v] = job[v]
    BY <1>3 DEF JobsPlaced, AtWork, Sets
  <2>2. job[v].at \notin {"starting", "deleting"}
    BY <1>1, HoldsAlone
  <2> QED BY <1>1, <2>1, <2>2 DEF WellPlaced
<1>8. WellPlaced(u, job[u].on)'
  BY <1>0, <1>1, <1>2, <1>3 DEF WellPlaced, Sets
<1>9. AtWork'
  BY <1>7, <1>8 DEF AtWork
<1> QED BY <1>1, <1>5, <1>6, <1>9 DEF JobsPlaced, AnsweredOnce

LEMMA BackgroundPlaces ==
    ASSUME TurnConstants, IInv, JobsPlaced, NEW u \in Updates, InBackground(u) \/ FailToAnswer(u)
    PROVE  JobsPlaced'
BY LaunchPlaces, ThinkPlaces, AnswerPlaces, LookPlaces, AcceptPlaces, StartQueuedPlaces,
   DeleteQueuedPlaces DEF InBackground

-----------------------------------------------------------------------------
(* Where a question is, without crashes: what handlers do to it *)

LEMMA EnqueuePlaces ==
    ASSUME TurnConstants, IInv, Placed, NEW h \in Handlers, Enqueue(h)
    PROVE  JobsPlaced'
<1>1. PICK u : u = hand[h].update
  OBVIOUS
<1>2. /\ Typed /\ Now(h).do = "enqueue" /\ Busy(h) /\ UNCHANGED <<turn, job, answered>>
      /\ queued' = queued \cup {Now(h).id}
  BY DEF IInv, Enqueue, At
<1>3. Now(h).id = u /\ u \in Updates
  BY <1>1, <1>2, Popped, BusyHand
<1>4. Fresh(u)
  BY <1>1, <1>2 DEF Placed, HandlersPlaced, Untouched
<1>5. \A v, x : v \in Updates => (Engaged(v, x)' <=> Engaged(v, x)) /\ (Deleting(v, x)' <=> Deleting(v, x))
  BY <1>2 DEF Engaged, Deleting
<1>6. turn[u] = "none" /\ answered[u] = 0 /\ \A v \in Updates : ~Engaged(v, u)
  BY <1>4 DEF Fresh, Touched, Engaged
<1>7. InQueue'
  BY <1>2, <1>3, <1>5, <1>6 DEF Placed, JobsPlaced, InQueue
<1>8. OneJob'
  BY <1>5 DEF Placed, JobsPlaced, OneJob
<1>9. AtWork'
  BY <1>2 DEF Placed, JobsPlaced, AtWork, WellPlaced
<1> QED BY <1>2, <1>7, <1>8, <1>9 DEF Placed, JobsPlaced, AnsweredOnce

\* The job that a handler leaves to the background.
LEMMA TurnStarts ==
    ASSUME TurnConstants, Typed, NEW h \in Handlers, StartTurn(h)
    PROVE  \E u \in Updates, j \in Job :
             /\ u = hand[h].update /\ Sets(u, j) /\ j.at = "waiting" /\ j.on = u
             /\ turn' = [turn EXCEPT ![u] = "running"]
<1> DEFINE j == [NoJob EXCEPT !.at = "waiting", !.on = Now(h).id, !.more = TRUE]
<1>1. /\ At(h, "start") /\ Busy(h) /\ turn' = [turn EXCEPT ![Now(h).id] = "running"]
      /\ job' = [job EXCEPT ![Now(h).id] = j]
  BY DEF StartTurn, At
<1>2. Now(h).id \in Updates /\ Now(h).id = hand[h].update
  BY <1>1, Popped, BusyHand DEF At
<1>3. NoJob \in Job
  BY JobFields, <1>2
<1>4. Now(h).id \in 0..MaxUpdates
  BY <1>2 DEF Updates, TurnConstants
<1>5. j \in Job /\ j.at = "waiting" /\ j.on = Now(h).id
  BY <1>3, <1>4 DEF Job
<1> HIDE DEF j
<1>6. Sets(Now(h).id, j)
  BY <1>1, <1>2, <1>5, JobSet
<1> QED BY <1>1, <1>2, <1>5, <1>6

LEMMA StartPlaces ==
    ASSUME TurnConstants, IInv, Placed, NEW h \in Handlers, StartTurn(h)
    PROVE  JobsPlaced'
<1>1. Typed /\ At(h, "start") /\ UNCHANGED <<queued, answered>>
  BY DEF IInv, StartTurn
<1>2. PICK u \in Updates, j \in Job :
        /\ u = hand[h].update /\ Sets(u, j) /\ j.at = "waiting" /\ j.on = u
        /\ turn' = [turn EXCEPT ![u] = "running"]
  BY <1>1, TurnStarts
<1>3. Fresh(u) /\ Talking(h)
  BY <1>1, <1>2 DEF Placed, HandlersPlaced, Untouched, At, Talking
<1>4. /\ u \notin queued /\ answered[u] = 0 /\ job[u].at = "none"
      /\ \A v \in Updates : ~Engaged(v, u)
  BY <1>3 DEF Fresh, Touched, Engaged
<1>5. turn'[u] = "running" /\ \A x \in Updates \ {u} : turn'[x] = turn[x]
  BY <1>1, <1>2 DEF Typed, TypeOK
<1>6. \A v, x : v \in Updates =>
        /\ Engaged(v, x)' => Engaged(v, x) \/ (v = u /\ x = u)
        /\ Deleting(v, x)' <=> Deleting(v, x)
  BY <1>2, <1>4 DEF Engaged, Deleting, Sets
<1>7. InQueue'
  <2>1. SUFFICES ASSUME NEW x \in queued
                 PROVE  /\ answered[x] = 0
                        /\ turn'[x] = "none" \/ (turn'[x] = "running" /\ \E v \in Updates : Deleting(v, x)')
                        /\ \A v \in Updates : ~Engaged(v, x)'
    BY <1>1 DEF InQueue
  <2>2. /\ answered[x] = 0
        /\ turn[x] = "none" \/ (turn[x] = "running" /\ \E v \in Updates : Deleting(v, x))
        /\ \A v \in Updates : ~Engaged(v, x)
    BY DEF Placed, JobsPlaced, InQueue
  <2>3. x # u /\ turn'[x] = turn[x]
    BY <1>1, <1>4, <1>5, QueuedUpdates
  <2> QED BY <1>6, <2>2, <2>3
<1>8. OneJob'
  <2>1. SUFFICES ASSUME NEW v \in Updates, NEW w \in Updates, NEW x \in Updates,
                        Engaged(v, x)', Engaged(w, x)'
                 PROVE  v = w
    BY DEF OneJob
  <2>2. /\ Engaged(v, x) \/ (v = u /\ x = u)
        /\ Engaged(w, x) \/ (w = u /\ x = u)
    BY <1>6, <2>1
  <2> QED BY <1>4, <2>2 DEF Placed, JobsPlaced, OneJob
<1>9. ASSUME NEW v \in Updates \ {u} PROVE WellPlaced(v, job[v].on)'
  <2>1. WellPlaced(v, job[v].on) /\ job'[v] = job[v]
    BY <1>2 DEF Placed, JobsPlaced, AtWork, Sets
  <2>2. job[v].at \notin {"starting", "deleting"}
    BY <1>3, HoldsAlone
  <2>3. job[v].at \in {"waiting", "thinking", "sending"} => job[v].on \in Updates /\ job[v].on # u
    BY <1>4, <2>1 DEF WellPlaced, Engaged
  <2> QED BY <1>1, <1>5, <2>1, <2>2, <2>3 DEF WellPlaced
<1>10. WellPlaced(u, job[u].on)'
  BY <1>1, <1>2, <1>4, <1>5 DEF WellPlaced, Sets
<1>11. AtWork'
  BY <1>9, <1>10 DEF AtWork
<1> QED BY <1>1, <1>7, <1>8, <1>11 DEF Placed, JobsPlaced, AnsweredOnce

LEMMA CancelPlaces ==
    ASSUME TurnConstants, IInv, Placed, NEW h \in Handlers, CancelTurn(h)
    PROVE  JobsPlaced'
<1>1. PICK u : u = Now(h).id
  OBVIOUS
<1>2. /\ Typed /\ At(h, "cancel") /\ Busy(h) /\ UNCHANGED <<queued, job, answered>>
      /\ turn' = turn \/ (turn[u] = "running" /\ turn' = [turn EXCEPT ![u] = "cancelled"])
  BY <1>1 DEF IInv, CancelTurn, At
<1>3. CASE turn' = turn
  BY <1>2, <1>3, NothingMoves DEF Placed
<1>4. CASE turn[u] = "running" /\ turn' = [turn EXCEPT ![u] = "cancelled"]
  <2>1. u \in Updates /\ Talking(h)
    BY <1>1, <1>2, Popped DEF At, Talking
  <2>2. \A v \in Updates : job[v].at \notin {"starting", "deleting"}
    BY <2>1, HoldsAlone
  <2>3. u \notin queued
    BY <1>4, <2>2 DEF Placed, JobsPlaced, InQueue, Deleting
  <2>4. turn'[u] = "cancelled" /\ \A x \in Updates \ {u} : turn'[x] = turn[x]
    BY <1>2, <1>4, <2>1 DEF Typed, TypeOK
  <2>5. \A v, x : v \in Updates => (Engaged(v, x)' <=> Engaged(v, x)) /\ (Deleting(v, x)' <=> Deleting(v, x))
    BY <1>2 DEF Engaged, Deleting
  <2>6. InQueue'
    <3>1. SUFFICES ASSUME NEW x \in queued
                   PROVE  /\ answered[x] = 0
                          /\ turn'[x] = "none" \/ (turn'[x] = "running" /\ \E v \in Updates : Deleting(v, x)')
                          /\ \A v \in Updates : ~Engaged(v, x)'
      BY <1>2 DEF InQueue
    <3>2. turn'[x] = turn[x]
      BY <1>2, <2>3, <2>4, QueuedUpdates
    <3> QED BY <2>5, <3>2 DEF Placed, JobsPlaced, InQueue
  <2>7. OneJob'
    BY <2>5 DEF Placed, JobsPlaced, OneJob
  <2>8. ASSUME NEW v \in Updates PROVE WellPlaced(v, job[v].on)'
    <3>1. WellPlaced(v, job[v].on) /\ job'[v] = job[v]
      BY <1>2 DEF Placed, JobsPlaced, AtWork
    <3> QED BY <1>2, <1>4, <2>2, <2>4, <3>1 DEF WellPlaced
  <2>9. AtWork'
    BY <2>8 DEF AtWork
  <2> QED BY <1>2, <2>6, <2>7, <2>9 DEF Placed, JobsPlaced, AnsweredOnce
<1> QED BY <1>2, <1>3, <1>4

LEMMA ClearPlaces ==
    ASSUME TurnConstants, IInv, Placed, NEW h \in Handlers, ClearQueue(h)
    PROVE  JobsPlaced'
<1>1. Talking(h) /\ queued' = {} /\ UNCHANGED <<turn, job, answered>>
  BY DEF ClearQueue, At, Talking
<1>2. \A v \in Updates : job[v].at \notin {"starting", "deleting"}
  BY <1>1, HoldsAlone
<1>3. InQueue'
  BY <1>1 DEF InQueue
<1>4. AtWork'
  BY <1>1, <1>2 DEF Placed, JobsPlaced, AtWork, WellPlaced
<1>5. OneJob'
  BY <1>1 DEF Placed, JobsPlaced, OneJob, Engaged
<1> QED BY <1>1, <1>3, <1>4, <1>5 DEF Placed, JobsPlaced, AnsweredOnce

-----------------------------------------------------------------------------
(* Where a question is, without crashes: what nothing has become of *)

\* No job does anything to an update that is still with its handler.
LEMMA FreshInBackground ==
    ASSUME TurnConstants, Typed, NEW u \in Updates, InBackground(u) \/ FailToAnswer(u),
           NEW w \in Updates, Fresh(w)
    PROVE  Fresh(w)'
<1>1. PICK on : on = job[u].on
  OBVIOUS
<1>2. /\ turn[w] = "none" /\ w \notin queued /\ answered[w] = 0 /\ job[w].at = "none"
      /\ \A v \in Updates : ~Touched(v, w)
  BY DEF Fresh
<1>3. job[u].at # "none" /\ u # w
  BY <1>2 DEF InBackground, Launch, Think, Answer, Look, Accept, StartQueued, DeleteQueued,
              FailToAnswer
<1>4. /\ \A v \in Updates \ {u} : job'[v] = job[v]
      /\ job'[w] = job[w]
  BY <1>3, JobTyped
<1>5. job[u].at # "looking" => on # w
  <2>1. job[u].at \in {"none", "waiting", "thinking", "sending", "looking", "locking",
                      "starting", "deleting"}
    BY DEF Typed, TypeOK, Job
  <2> QED BY <1>1, <1>2, <1>3, <2>1 DEF Touched
<1>6. turn'[w] = turn[w] /\ answered'[w] = answered[w]
  <2>1. /\ \/ turn' = turn
           \/ job[u].at # "looking" /\ \E status : turn' = [turn EXCEPT ![on] = status]
        /\ \/ answered' = answered
           \/ /\ job[u].at # "looking"
              /\ answered' = [answered EXCEPT ![on] = IF @ < 2 THEN @ + 1 ELSE @]
    BY <1>1 DEF InBackground, Launch, Think, CompleteIfRunning, Failed, Answer, Look, Accept,
                StartQueued, DeleteQueued, FailToAnswer
  <2> QED BY <1>5, <2>1 DEF Typed, TypeOK
<1>7. w \notin queued'
  BY <1>2 DEF InBackground, Launch, Think, Answer, Look, Accept, StartQueued, DeleteQueued,
              FailToAnswer
<1>8. ~Touched(u, w)'
  <2>1. CASE Look(u)
    <3>1. Stops(u) \/ \E j \in Job : Sets(u, j) /\ j.at = "locking" /\ j.on \in queued
      BY <2>1, JobMoves
    <3> QED BY <1>2, <3>1 DEF Stops, Sets, Touched, NoJob
  <2>2. CASE ~Look(u)
    <3>1. Stops(u) \/ \E at : Turns(u, at)
      BY <2>2, JobMoves DEF InBackground
    <3>2. job[u].at # "looking"
      BY <2>2 DEF InBackground, Launch, Think, Answer, Accept, StartQueued, DeleteQueued,
                  FailToAnswer
    <3>3. job'[u].at = "none" \/ job'[u].on = on
      BY <1>1, <3>1 DEF Stops, Turns, Sets, NoJob
    <3> QED BY <1>5, <3>2, <3>3 DEF Touched
  <2> QED BY <2>1, <2>2
<1>9. \A v \in Updates \ {u} : ~Touched(v, w)'
  BY <1>2, <1>4 DEF Touched
<1> QED BY <1>2, <1>4, <1>6, <1>7, <1>8, <1>9 DEF Fresh

\* A handler does something to its own update, and to turns that run.
LEMMA FreshWithOthers ==
    ASSUME TurnConstants, Typed, NEW h \in Handlers, Work(h) \/ FailToTell(h),
           NEW w \in Updates, Fresh(w), Enqueue(h) \/ StartTurn(h) => hand[h].update # w
    PROVE  Fresh(w)'
<1>1. /\ turn[w] = "none" /\ w \notin queued /\ answered[w] = 0 /\ job[w].at = "none"
      /\ \A v \in Updates : ~Touched(v, w)
  BY DEF Fresh
<1>2. CASE StartTurn(h)
  <2>1. PICK u \in Updates, j \in Job :
          /\ u = hand[h].update /\ Sets(u, j) /\ j.at = "waiting" /\ j.on = u
          /\ turn' = [turn EXCEPT ![u] = "running"]
    BY <1>2, TurnStarts
  <2>2. u # w /\ UNCHANGED <<queued, answered>>
    BY <1>2, <2>1 DEF StartTurn
  <2>3. turn'[w] = turn[w] /\ job'[w] = job[w]
    BY <2>1, <2>2 DEF Typed, TypeOK, Sets
  <2>4. \A v \in Updates : ~Touched(v, w)'
    BY <1>1, <2>1, <2>2 DEF Touched, Sets
  <2> QED BY <1>1, <2>2, <2>3, <2>4 DEF Fresh
<1>3. CASE ~StartTurn(h)
  <2>1. UNCHANGED <<job, answered>>
    BY <1>3 DEF Work, Receive, Mark, Advance, Handle, Enqueue, CancelTurn, ClearQueue, Inform,
                FailToTell, Fail, Same, tvars
  <2>2. w \notin queued'
    <3>1. queued' = queued \/ queued' = {} \/ (Enqueue(h) /\ queued' = queued \cup {Now(h).id})
      BY <1>3 DEF Work, Enqueue, Handle, CancelTurn, ClearQueue, Inform, FailToTell, tvars
    <3>2. Enqueue(h) => Now(h).id = hand[h].update
      BY Popped DEF Enqueue, At
    <3> QED BY <1>1, <3>1, <3>2
  <2>3. turn'[w] = turn[w]
    <3>1. turn' = turn \/ \E v : turn[v] = "running" /\ turn' = [turn EXCEPT ![v] = "cancelled"]
      BY <1>3 DEF Work, Enqueue, Handle, CancelTurn, ClearQueue, Inform, FailToTell, tvars
    <3> QED BY <1>1, <3>1 DEF Typed, TypeOK
  <2>4. \A v \in Updates : ~Touched(v, w)'
    BY <1>1, <2>1 DEF Touched
  <2> QED BY <1>1, <2>1, <2>2, <2>3, <2>4 DEF Fresh
<1> QED BY <1>2, <1>3

-----------------------------------------------------------------------------
(* Where a question is, without crashes: the handlers *)

\* No handler moves.
LEMMA HandlersRest ==
    ASSUME HandlersPlaced, TurnConstants, Typed, UNCHANGED <<hand, processed>>,
           \A w \in Updates : Fresh(w) => Fresh(w)'
    PROVE  HandlersPlaced'
<1>1. \A h \in Handlers : (Busy(h)' <=> Busy(h)) /\ Now(h)' = Now(h)
  BY DEF Busy, Now
<1>2. OneHandler'
  BY <1>1 DEF HandlersPlaced, OneHandler
<1>3. Untouched'
  <2>1. SUFFICES ASSUME NEW h \in Handlers, Busy(h)', Now(h)'.do \notin {"mark", "advance"}
                 PROVE  Fresh(hand[h].update)'
    BY DEF Untouched
  <2>2. PICK w : w = hand[h].update
    OBVIOUS
  <2>3. Fresh(w) /\ w \in Updates
    BY <1>1, <2>1, <2>2, BusyHand DEF HandlersPlaced, Untouched
  <2>4. hand'[h].update = w
    BY <2>2
  <2> QED BY <2>3, <2>4
<1>4. Marked'
  BY <1>1 DEF HandlersPlaced, Marked, At
<1> QED BY <1>2, <1>3, <1>4 DEF HandlersPlaced

\* A handler does a step of its update.
LEMMA HandlerMovesOn ==
    ASSUME TurnConstants, Typed, HandlersPlaced, NEW h \in Handlers, NEW do, Moves(h, do),
           NEW u \in Updates, u = hand[h].update,
           processed \subseteq processed',
           \A w \in Updates \ {u} : Fresh(w) => Fresh(w)',
           do \notin {"mark", "advance"} => Fresh(u)',
           do = "advance" => u \in processed'
    PROVE  HandlersPlaced'
<1>1. /\ Busy(h) /\ Busy(h)' /\ hand'[h].update = u /\ Now(h)'.do = do
      /\ \A g \in Handlers \ {h} : hand'[g] = hand[g]
  BY DEF Moves, Others
<1>2. \A g \in Handlers \ {h} : (Busy(g)' <=> Busy(g)) /\ Now(g)' = Now(g)
  BY <1>1 DEF Busy, Now
<1>3. \A g \in Handlers \ {h} : hand[g].update # u
  BY <1>1 DEF HandlersPlaced, OneHandler
<1>4. \A g \in Handlers : hand'[g].update = hand[g].update /\ (Busy(g)' <=> Busy(g))
  BY <1>1, <1>2
<1>5. OneHandler'
  BY <1>4 DEF HandlersPlaced, OneHandler
<1>6. Untouched'
  <2>1. SUFFICES ASSUME NEW g \in Handlers, Busy(g)', Now(g)'.do \notin {"mark", "advance"}
                 PROVE  Fresh(hand[g].update)'
    BY DEF Untouched
  <2>2. PICK w : w = hand[g].update
    OBVIOUS
  <2>3. hand'[g].update = w /\ w \in Updates
    BY <1>4, <2>1, <2>2, BusyHand
  <2>4. CASE g = h
    BY <1>1, <2>1, <2>2, <2>3, <2>4
  <2>5. CASE g # h
    <3>1. w # u /\ Fresh(w)
      BY <1>2, <1>3, <2>1, <2>2, <2>5 DEF HandlersPlaced, Untouched
    <3>2. Fresh(w)'
      BY <2>3, <3>1
    <3> QED BY <2>3, <3>2
  <2> QED BY <2>4, <2>5
<1>7. Marked'
  <2>1. ASSUME NEW g \in Handlers, At(g, "advance")' PROVE hand'[g].update \in processed'
    <3>1. CASE g = h
      BY <1>1, <2>1, <3>1 DEF At
    <3>2. CASE g # h
      BY <1>1, <1>2, <2>1, <3>2 DEF HandlersPlaced, Marked, At
    <3> QED BY <3>1, <3>2
  <2>2. ASSUME NEW w \in Updates
        PROVE  Fresh(w)' \/ w \in processed' \/ \E g \in Handlers : hand'[g].update = w /\ At(g, "mark")'
    <3>1. CASE w = u
      <4>1. CASE do = "mark"
        BY <1>1, <3>1, <4>1 DEF At
      <4>2. CASE do # "mark"
        BY <3>1, <4>2
      <4> QED BY <4>1, <4>2
    <3>2. CASE w # u
      <4>1. Fresh(w) \/ w \in processed \/ \E g \in Handlers : hand[g].update = w /\ At(g, "mark")
        BY DEF HandlersPlaced, Marked
      <4>2. \A g \in Handlers : hand[g].update = w /\ At(g, "mark") => hand'[g].update = w /\ At(g, "mark")'
        BY <1>1, <1>2, <3>2 DEF At
      <4> QED BY <3>2, <4>1, <4>2
    <3> QED BY <3>1, <3>2
  <2> QED BY <2>1, <2>2 DEF Marked
<1> QED BY <1>5, <1>6, <1>7 DEF HandlersPlaced

\* A handler is done, or fails, with nothing left to mark.
LEMMA HandlerGoes ==
    ASSUME TurnConstants, Typed, HandlersPlaced, NEW h \in Handlers, Leaves(h),
           Now(h).do # "mark", processed' = processed,
           \A w \in Updates : Fresh(w) => Fresh(w)'
    PROVE  HandlersPlaced'
<1>1. ~Busy(h)' /\ \A g \in Handlers \ {h} : hand'[g] = hand[g]
  BY DEF Leaves, Others
<1>2. \A g \in Handlers \ {h} : (Busy(g)' <=> Busy(g)) /\ Now(g)' = Now(g)
  BY <1>1 DEF Busy, Now
<1>3. OneHandler'
  BY <1>1, <1>2 DEF HandlersPlaced, OneHandler, Busy
<1>4. Untouched'
  <2>1. SUFFICES ASSUME NEW g \in Handlers, Busy(g)', Now(g)'.do \notin {"mark", "advance"}
                 PROVE  Fresh(hand[g].update)'
    BY DEF Untouched
  <2>2. PICK w : w = hand[g].update
    OBVIOUS
  <2>3. g # h /\ hand'[g].update = w /\ w \in Updates /\ Fresh(w)
    BY <1>1, <1>2, <2>1, <2>2, BusyHand DEF HandlersPlaced, Untouched
  <2> QED BY <2>3
<1>5. Marked'
  <2>1. \A g \in Handlers : At(g, "advance")' => hand'[g].update \in processed'
    BY <1>1, <1>2 DEF HandlersPlaced, Marked, At
  <2>2. \A g \in Handlers, w \in Updates :
          hand[g].update = w /\ At(g, "mark") => hand'[g].update = w /\ At(g, "mark")'
    BY <1>1, <1>2 DEF At
  <2> QED BY <2>1, <2>2 DEF HandlersPlaced, Marked
<1> QED BY <1>3, <1>4, <1>5 DEF HandlersPlaced

\* A handler takes up an update that no other one is with.
LEMMA HandlerTakes ==
    ASSUME TurnConstants, Typed, HandlersPlaced, NEW h \in Handlers, NEW u \in 1..Len(inbox),
           Due(u), Takes(h, u), processed' = processed,
           \A w \in Updates : Fresh(w) => Fresh(w)'
    PROVE  HandlersPlaced'
<1>1. u \in Updates /\ u # 0
  BY DEF Typed, TypeOK, Updates, TurnConstants
<1>2. /\ ~Busy(h) /\ Busy(h)' /\ hand'[h].update = u
      /\ Now(h)'.do = IF u \in processed THEN "advance" ELSE "handle"
      /\ \A g \in Handlers \ {h} : hand'[g] = hand[g]
  BY DEF Takes, Others
<1>3. \A g \in Handlers \ {h} : (Busy(g)' <=> Busy(g)) /\ Now(g)' = Now(g)
  BY <1>2 DEF Busy, Now
<1>4. \A g \in Handlers : hand[g].update # u
  BY <1>1 DEF Due, Busy
<1>5. OneHandler'
  <2>1. SUFFICES ASSUME NEW f \in Handlers, NEW g \in Handlers, Busy(f)',
                        hand'[f].update = hand'[g].update
                 PROVE  f = g
    BY DEF OneHandler
  <2>2. CASE f = h
    BY <1>2, <1>4, <2>1, <2>2
  <2>3. CASE g = h
    BY <1>2, <1>4, <2>1, <2>3
  <2>4. CASE f # h /\ g # h
    BY <1>2, <1>3, <2>1, <2>4 DEF HandlersPlaced, OneHandler
  <2> QED BY <2>2, <2>3, <2>4
<1>6. u \notin processed => Fresh(u)'
  BY <1>1, <1>4 DEF HandlersPlaced, Marked
<1>7. Untouched'
  <2>1. SUFFICES ASSUME NEW g \in Handlers, Busy(g)', Now(g)'.do \notin {"mark", "advance"}
                 PROVE  Fresh(hand[g].update)'
    BY DEF Untouched
  <2>2. CASE g = h
    BY <1>2, <1>6, <2>1, <2>2
  <2>3. CASE g # h
    <3>1. PICK w : w = hand[g].update
      OBVIOUS
    <3>2. hand'[g].update = w /\ w \in Updates /\ Fresh(w)
      BY <1>2, <1>3, <2>1, <2>3, <3>1, BusyHand DEF HandlersPlaced, Untouched
    <3> QED BY <3>2
  <2> QED BY <2>2, <2>3
<1>8. Marked'
  <2>1. ASSUME NEW g \in Handlers, At(g, "advance")' PROVE hand'[g].update \in processed'
    <3>1. CASE g = h
      BY <1>2, <2>1, <3>1 DEF At
    <3>2. CASE g # h
      BY <1>2, <1>3, <2>1, <3>2 DEF HandlersPlaced, Marked, At
    <3> QED BY <3>1, <3>2
  <2>2. \A g \in Handlers, w \in Updates :
          hand[g].update = w /\ At(g, "mark") => hand'[g].update = w /\ At(g, "mark")'
    BY <1>2, <1>3 DEF At
  <2> QED BY <2>1, <2>2 DEF HandlersPlaced, Marked
<1> QED BY <1>5, <1>7, <1>8 DEF HandlersPlaced

-----------------------------------------------------------------------------
(* Without crashes a question is answered once, and not once cancelled *)

LEMMA HandlersKeepPlaced ==
    ASSUME TurnConstants, IInv, Placed, NEW h \in Handlers, Work(h) \/ FailToTell(h)
    PROVE  Placed'
<1>1. Typed /\ HandlersPlaced /\ JobsPlaced
  BY DEF IInv, Placed
<1>2. PICK u : u = hand[h].update
  OBVIOUS
<1>3. Busy(h) => u \in Updates
  BY <1>1, <1>2, BusyHand
<1>4. \A w \in Updates : Fresh(w) /\ (Enqueue(h) \/ StartTurn(h) => w # u) => Fresh(w)'
  BY <1>1, <1>2, FreshWithOthers
<1>5. Busy(h) /\ Now(h).do \notin {"mark", "advance"} => Fresh(u)
  BY <1>1, <1>2 DEF HandlersPlaced, Untouched
<1>6. CASE Mark(h)
  <2>1. /\ Moves(h, "advance") /\ Busy(h) /\ processed' = processed \cup {u}
        /\ UNCHANGED tvars
    BY <1>1, <1>2, <1>6, HandlerMoves
       DEF Mark, At, Work, Receive, Advance, Handle, Enqueue, StartTurn, CancelTurn, ClearQueue,
           Inform, FailToTell
  <2>2. JobsPlaced'
    BY <1>1, <2>1, NothingMoves DEF tvars
  <2>3. HandlersPlaced'
    BY <1>1, <1>2, <1>3, <1>4, <2>1, HandlerMovesOn
  <2> QED BY <2>2, <2>3 DEF Placed
<1>7. CASE Handle(h)
  <2>1. At(h, "handle") /\ UNCHANGED tvars /\ processed' = processed
    BY <1>7 DEF Handle, Same
  <2>2. PICK do \in {"cancel", "enqueue", "start", "tell"} : Moves(h, do)
    BY <1>1, <1>7, HandlerMoves
  <2>3. ~Enqueue(h) /\ ~StartTurn(h) /\ Fresh(u) /\ u \in Updates
    BY <1>3, <1>5, <2>1 DEF At, Enqueue, StartTurn
  <2>4. \A w \in Updates : Fresh(w) => Fresh(w)'
    BY <1>4, <2>3
  <2>5. JobsPlaced'
    BY <1>1, <2>1, NothingMoves DEF tvars
  <2>6. HandlersPlaced'
    BY <1>1, <1>2, <2>1, <2>2, <2>3, <2>4, HandlerMovesOn
  <2> QED BY <2>5, <2>6 DEF Placed
<1>8. CASE Enqueue(h) \/ StartTurn(h) \/ Inform(h)
  <2>1. Moves(h, "mark") /\ Busy(h) /\ processed' = processed
    BY <1>1, <1>8, HandlerMoves DEF Enqueue, StartTurn, Inform, At, Same
  <2>2. Inform(h) => JobsPlaced'
    BY <1>1, NothingMoves DEF Inform, tvars
  <2>3. JobsPlaced'
    BY <1>8, <2>2, EnqueuePlaces, StartPlaces
  <2>4. HandlersPlaced'
    BY <1>1, <1>2, <1>3, <1>4, <2>1, HandlerMovesOn
  <2> QED BY <2>3, <2>4 DEF Placed
<1>9. CASE CancelTurn(h) \/ ClearQueue(h)
  <2>1. PICK do \in {"clear", "mark", "tell"} : Moves(h, do)
    BY <1>1, <1>9, HandlerMoves
  <2>2. /\ Busy(h) /\ Now(h).do \in {"cancel", "clear"} /\ processed' = processed
    BY <1>9 DEF CancelTurn, ClearQueue, At, Same
  <2>3. ~Enqueue(h) /\ ~StartTurn(h) /\ Fresh(u) /\ u \in Updates
    BY <1>3, <1>5, <2>2 DEF At, Enqueue, StartTurn
  <2>4. \A w \in Updates : Fresh(w) => Fresh(w)'
    BY <1>4, <2>3
  <2>5. JobsPlaced'
    BY <1>9, CancelPlaces, ClearPlaces
  <2>6. HandlersPlaced'
    BY <1>1, <1>2, <2>1, <2>2, <2>3, <2>4, HandlerMovesOn
  <2> QED BY <2>5, <2>6 DEF Placed
<1>10. CASE ((Advance(h) \/ Receive(h)) /\ UNCHANGED tvars) \/ FailToTell(h)
  <2>1. UNCHANGED tvars /\ processed' = processed
    BY <1>10 DEF Advance, Receive, FailToTell, Fail
  <2>2. JobsPlaced'
    BY <1>1, <2>1, NothingMoves DEF tvars
  <2>3. \A w \in Updates : Fresh(w) => Fresh(w)'
    BY <2>1 DEF Fresh, Touched, tvars
  <2>4. CASE Advance(h) \/ FailToTell(h)
    <3>1. Leaves(h) /\ Now(h).do # "mark"
      BY <1>1, <2>4, HandlerMoves DEF Advance, FailToTell, At
    <3>2. HandlersPlaced'
      BY <1>1, <2>1, <2>3, <3>1, HandlerGoes
    <3> QED BY <2>2, <3>2 DEF Placed
  <2>5. CASE Receive(h)
    <3>1. PICK v \in 1..Len(inbox) : Due(v) /\ Takes(h, v)
      BY <1>1, <2>5, HandlerMoves
    <3>2. HandlersPlaced'
      BY <1>1, <2>1, <2>3, <3>1, HandlerTakes
    <3> QED BY <2>2, <3>2 DEF Placed
  <2> QED BY <1>10, <2>4, <2>5
<1> QED BY <1>6, <1>7, <1>8, <1>9, <1>10 DEF Work

LEMMA JobsKeepPlaced ==
    ASSUME TurnConstants, IInv, Placed, NEW u \in Updates, InBackground(u) \/ FailToAnswer(u)
    PROVE  Placed'
<1>1. Typed /\ HandlersPlaced /\ JobsPlaced
  BY DEF IInv, Placed
<1>2. UNCHANGED <<hand, processed>>
  BY DEF InBackground, Launch, Think, Answer, Look, Accept, StartQueued, DeleteQueued,
         FailToAnswer, uvars
<1>3. \A w \in Updates : Fresh(w) => Fresh(w)'
  BY <1>1, FreshInBackground
<1>4. HandlersPlaced'
  BY <1>1, <1>2, <1>3, HandlersRest
<1>5. JobsPlaced'
  BY <1>1, BackgroundPlaces
<1> QED BY <1>4, <1>5 DEF Placed

LEMMA OthersKeepPlaced ==
    ASSUME TurnConstants, ~Crashes, IInv, Placed, SaySomething \/ CrashAll \/ UNCHANGED vars
    PROVE  Placed'
<1>1. Typed /\ HandlersPlaced /\ JobsPlaced
  BY DEF IInv, Placed
<1>2. UNCHANGED <<hand, processed, turn, queued, job, answered>>
  BY DEF SaySomething, Arrive, CrashAll, Crash, vars, uvars, tvars
<1>3. \A w \in Updates : Fresh(w) => Fresh(w)'
  BY <1>2 DEF Fresh, Touched
<1>4. HandlersPlaced'
  BY <1>1, <1>2, <1>3, HandlersRest
<1>5. JobsPlaced'
  BY <1>1, <1>2, NothingMoves
<1> QED BY <1>4, <1>5 DEF Placed

\* Without crashes, for any handlers, updates and limits, an update is in one
\* place at a time: with its handler, then among the queued messages or with one
\* job, which knows what has become of its turn (src/domain/telegramAssistant/
\* service.ts, drainQueuedMessages and runProjectQuestionTurn).
THEOREM PlacedInvariant ==
    ASSUME TurnConstants, ~Crashes
    PROVE  Spec => []Placed
<1>1. Init => Placed
  <2>1. SUFFICES ASSUME Init PROVE Placed
    OBVIOUS
  <2>2. /\ queued = {} /\ processed = {} /\ hand = [h \in Handlers |-> Idle]
        /\ turn = [u \in Updates |-> "none"] /\ job = [u \in Updates |-> NoJob]
        /\ answered = [u \in Updates |-> 0]
    BY <2>1 DEF Init, UpdatesInit
  <2>3. \A h \in Handlers : ~Busy(h)
    BY <2>2 DEF Busy, Idle
  <2>4. \A u \in Updates : Fresh(u)
    BY <2>2 DEF Fresh, Touched, NoJob
  <2>5. HandlersPlaced
    BY <2>3, <2>4 DEF HandlersPlaced, OneHandler, Untouched, Marked, At
  <2>6. JobsPlaced
    BY <2>2 DEF JobsPlaced, InQueue, AtWork, WellPlaced, OneJob, AnsweredOnce, Engaged, NoJob
  <2> QED BY <2>5, <2>6 DEF Placed
<1>2. IInv /\ Placed /\ [Next]_vars => Placed'
  BY HandlersKeepPlaced, JobsKeepPlaced, OthersKeepPlaced DEF Next
<1> QED BY <1>1, <1>2, TurnInvariant, PTL DEF Spec

\* Without crashes a question is answered once, whether its handler starts its turn
\* or another question's job takes it from the queue.
THEOREM Once ==
    ASSUME TurnConstants, ~Crashes
    PROVE  Spec => []AnsweredOnce
<1>1. Placed => AnsweredOnce
  BY DEF Placed, JobsPlaced
<1> QED BY <1>1, PlacedInvariant, PTL

\* Without crashes a turn that a person cancelled is not completed or failed in
\* name afterwards, and its question is not answered, though Codex goes on with it.
THEOREM Silent ==
    ASSUME TurnConstants, ~Crashes
    PROVE  Spec => CancelledIsSilent
<1>1. IInv /\ Placed /\ [Next]_vars => [StaysSilent]_vars
  <2>1. SUFFICES ASSUME IInv, Placed, Next, NEW u \in Updates, turn[u] = "cancelled"
                 PROVE  turn'[u] \notin {"completed", "failed"} /\ answered'[u] = answered[u]
    BY DEF StaysSilent
  <2>2. /\ turn \in [Updates -> {"none", "running", "completed", "failed", "cancelled"}]
        /\ answered \in [Updates -> 0..2]
    BY <2>1 DEF IInv, Typed, TypeOK
  <2>3. CASE UNCHANGED <<turn, answered>>
    BY <2>1, <2>3
  <2>4. ASSUME NEW h \in Handlers, StartTurn(h) \/ CancelTurn(h)
        PROVE  turn'[u] \notin {"completed", "failed"} /\ answered'[u] = answered[u]
    BY <2>1, <2>2, <2>4 DEF StartTurn, CancelTurn
  <2>5. ASSUME NEW v \in Updates, StartQueued(v)
        PROVE  turn'[u] \notin {"completed", "failed"} /\ answered'[u] = answered[u]
    BY <2>1, <2>2, <2>5 DEF StartQueued
  <2>6. ASSUME NEW v \in Updates, Think(v)
        PROVE  turn'[u] \notin {"completed", "failed"} /\ answered'[u] = answered[u]
    <3>1. \/ turn' = turn
          \/ turn[job[v].on] = "running" /\ \E status : turn' = [turn EXCEPT ![job[v].on] = status]
      BY <2>6 DEF Think, CompleteIfRunning, Failed
    <3> QED BY <2>1, <2>2, <2>6, <3>1 DEF Think
  <2>7. ASSUME NEW v \in Updates, Answer(v)
        PROVE  turn'[u] \notin {"completed", "failed"} /\ answered'[u] = answered[u]
    <3>1. turn[job[v].on] \in {"completed", "failed"}
      BY <2>1, <2>7 DEF Answer, Placed, JobsPlaced, AtWork, WellPlaced
    <3> QED BY <2>1, <2>2, <2>7, <3>1 DEF Answer
  <2>8. \/ UNCHANGED <<turn, answered>>
        \/ \E h \in Handlers : StartTurn(h) \/ CancelTurn(h)
        \/ \E v \in Updates : StartQueued(v) \/ Think(v) \/ Answer(v)
    BY <2>1 DEF Next, SaySomething, CrashAll, Work, Handle, Enqueue, ClearQueue, Inform, FailToTell,
                InBackground, Launch, Look, Accept, DeleteQueued, FailToAnswer, tvars
  <2> QED BY <2>3, <2>4, <2>5, <2>6, <2>7, <2>8
<1> QED BY <1>1, TurnInvariant, PlacedInvariant, PTL DEF Spec, CancelledIsSilent

-----------------------------------------------------------------------------
(* Notices of a task, and answers to its questions *)

CONSTANTS Scanners, Confirm, Bodies, MaxEvents

VARIABLES events, waiting, answers, delivery, watermark, told, prompts, closed, pending, scan

Notices == INSTANCE TelegramNotices

NoticeConstants == MaxUpdates \in Nat /\ MaxEvents \in Nat

\* What people write, and the steps that it may lead to.
Written == Bodies \ {"elsewhere"}
Doings  == {"handle", "propose", "take", "execute", "comment", "resume", "close", "finish", "tell",
            "mark", "advance"}
Ids     == Nat \cup Written \cup {"none"}
Tasks   == [do : Doings, id : Ids, key : Nat]

NoticesTyped ==
    /\ inbox \in Seq(Written) /\ Len(inbox) <= MaxUpdates
    /\ events \in Seq({"plain", "asks"}) /\ Len(events) <= MaxEvents
    /\ waiting \in BOOLEAN
    /\ answers \in [1..MaxEvents -> [Bodies -> {0, 1}]]
    /\ delivery \in [1..MaxEvents -> {"none", "sending", "stale", "sent"}]
    /\ watermark \in Nat /\ watermark <= Len(events)
    /\ told \in [1..MaxEvents -> {0, 1, 2}]
    /\ pending \in [Updates -> [status : {"none", "pending", "executing", "completed"}, of : Nat,
                                body : Written \cup {"none"}]]

\* Prompts are of events, each once, and those that were answered are not among them.
PromptsStand ==
    /\ prompts \in Seq(1..Len(events)) /\ closed \subseteq 1..Len(events)
    /\ \A i, k \in 1..Len(prompts) : prompts[i] = prompts[k] => i = k
    /\ \A i \in 1..Len(prompts) : prompts[i] \notin closed

\* The rest of a handler's steps: it ends as it must, and an answer is recorded first.
Fits(s, k, n) ==
    /\ s.do = "advance" <=> k = n
    /\ s.do = "mark" => k + 1 = n
    /\ s.do \in {"handle", "comment"} => k = 1
    /\ s.do = "execute" => s.id \in Updates
    /\ s.do = "close" => s.key \in 1..Len(events)
Remaining(todo) ==
    /\ todo \in Seq(Tasks) /\ todo # <<>>
    /\ \A k \in 1..Len(todo) : Fits(todo[k], k, Len(todo))

\* One handler is between its decision and the end of it, and the answer that it is about
\* to record is not there yet.
Amid(c) == c.update # 0 /\ Head(c.todo).do \notin {"handle", "mark", "advance"}
Unrecorded(s) ==
    s.do = "comment" =>
        /\ s.id # "elsewhere"
        /\ s.key \in 1..MaxEvents /\ s.id \in Bodies => answers[s.key][s.id] = 0
HandsFull ==
    /\ hand = [h \in Handlers |-> [update |-> hand[h].update, todo |-> hand[h].todo]]
    /\ \A h \in Handlers :
          hand[h].update # 0 =>
              hand[h].update \in 1..Len(inbox) /\ Remaining(hand[h].todo) /\ Unrecorded(Head(hand[h].todo))
    /\ \A g, h \in Handlers : Amid(hand[g]) /\ Amid(hand[h]) => g = h

\* What a scan goes by: events that there are, the first of which it has reserved.
Sending(c) == c.at \in {"sending", "prompting", "recording"}
Scanning(c) ==
    /\ c = [at |-> c.at, mark |-> c.mark, todo |-> c.todo, open |-> c.open]
    /\ c.at \in {"none", "listed", "next", "sending", "prompting", "recording"}
    /\ c.mark \in Nat /\ c.mark <= Len(events)
    /\ c.open \in Nat /\ c.open <= Len(events)
    /\ c.at = "prompting" => c.open # 0
    /\ c.todo \in Seq(1..Len(events))
    /\ Sending(c) => c.todo # <<>> /\ delivery[Head(c.todo)] = "sending"
ScansStand ==
    /\ scan = [s \in Scanners |-> scan[s]]
    /\ \A s \in Scanners : Scanning(scan[s])
    /\ \A s, t \in Scanners :
          Sending(scan[s]) /\ Sending(scan[t]) /\ Head(scan[s].todo) = Head(scan[t].todo) => s = t

NoticesInv == NoticesTyped /\ PromptsStand /\ HandsFull /\ ScansStand
-----------------------------------------------------------------------------

\* One of numbers up to some has a greatest.
LEMMA LatestIsOne ==
    ASSUME NEW n \in Nat, NEW S \in SUBSET (1..n), S # {}
    PROVE  Notices!Latest(S) \in S
<1>1. PICK T : T = {n - x : x \in S}
  OBVIOUS
<1>2. T \in SUBSET Nat /\ T # {}
  <2>1. PICK x \in S : TRUE
    OBVIOUS
  <2>2. n - x \in T
    BY <1>1
  <2>3. ASSUME NEW y \in T PROVE y \in Nat
    <3>1. PICK z \in S : y = n - z
      BY <1>1, <2>3
    <3>2. z \in 1..n
      OBVIOUS
    <3> QED BY <3>1, <3>2
  <2> QED BY <2>2, <2>3
<1>3. PICK m \in T : \A k \in T : m <= k
  BY <1>2, HasLeast
<1>4. PICK x \in S : m = n - x
  BY <1>1, <1>3
<1>5. ASSUME NEW y \in S PROVE y <= x
  <2>1. n - y \in T
    BY <1>1
  <2>2. m <= n - y
    BY <1>3, <2>1
  <2> QED BY <1>4, <2>2
<1> QED BY <1>5 DEF Notices!Latest

LEMMA LatestIsNumber ==
    ASSUME NEW n \in Nat, NEW S \in SUBSET (1..n)
    PROVE  Notices!Latest(S) \in 0..n
<1>1. CASE S = {}
  BY <1>1 DEF Notices!Latest
<1>2. CASE S # {}
  <2>1. PICK x : x = Notices!Latest(S)
    OBVIOUS
  <2>2. x \in S
    BY <1>2, <2>1, LatestIsOne
  <2>3. x \in 1..n
    BY <2>2
  <2> QED BY <2>1, <2>3
<1> QED BY <1>1, <1>2

\* What a list begins with, and what is left of it.
LEMMA Parts ==
    ASSUME NEW A, NEW s \in Seq(A), s # <<>>
    PROVE  /\ Len(s) \in Nat /\ Len(s) >= 1 /\ Head(s) = s[1] /\ Head(s) \in A
           /\ Tail(s) \in Seq(A) /\ Len(Tail(s)) = Len(s) - 1
           /\ \A i \in 1..Len(s) - 1 : Tail(s)[i] = s[i + 1]
BY HeadTailProperties, EmptySeq, LenProperties

\* A prompt is taken out of those that are open.
LEMMA TakenOut ==
    ASSUME NEW A, NEW s \in Seq(A), NEW q, \A i, k \in 1..Len(s) : s[i] = s[k] => i = k,
           NEW t, t = Notices!RemoveFirst(s, q)
    PROVE  /\ t \in Seq(A) /\ \A i, k \in 1..Len(t) : t[i] = t[k] => i = k
           /\ \A i \in 1..Len(t) : t[i] # q /\ \E k \in 1..Len(s) : t[i] = s[k]
<1>1. CASE ~\E i \in 1..Len(s) : s[i] = q
  <2>1. t = s
    BY <1>1 DEF Notices!RemoveFirst
  <2> QED BY <1>1, <2>1
<1>2. CASE \E i \in 1..Len(s) : s[i] = q
  <2>1. PICK I : I = {i \in 1..Len(s) : s[i] = q}
    OBVIOUS
  <2>2. PICK p : p = Notices!Min(I)
    OBVIOUS
  <2>3. I \in SUBSET Nat /\ I # {}
    BY <1>2, <2>1
  <2>4. p \in I
    BY <2>2, <2>3, HasLeast DEF Notices!Min
  <2>5. t = Notices!RemoveAt(s, p)
    BY <1>2, <2>1, <2>2, <2>3 DEF Notices!RemoveFirst, Notices!SelectInSeq
  <2>6. p \in 1..Len(s) /\ s[p] = q /\ Len(s) \in Nat
    BY <2>1, <2>4
  <2>7. t = SubSeq(s, 1, p - 1) \o SubSeq(s, p + 1, Len(s))
    BY <2>5 DEF Notices!RemoveAt
  <2>8. /\ SubSeq(s, 1, p - 1) \in Seq(A) /\ Len(SubSeq(s, 1, p - 1)) = p - 1
        /\ \A i \in 1..p - 1 : SubSeq(s, 1, p - 1)[i] = s[i]
    BY <2>6
  <2>9. /\ SubSeq(s, p + 1, Len(s)) \in Seq(A) /\ Len(SubSeq(s, p + 1, Len(s))) = Len(s) - p
        /\ \A i \in 1..Len(s) - p : SubSeq(s, p + 1, Len(s))[i] = s[i + p]
    BY <2>6
  <2>10. t \in Seq(A) /\ Len(t) = Len(s) - 1
    <3>1. PICK a \in Seq(A), b \in Seq(A) :
             a = SubSeq(s, 1, p - 1) /\ b = SubSeq(s, p + 1, Len(s))
      BY <2>8, <2>9
    <3>2. t = a \o b /\ Len(a) = p - 1 /\ Len(b) = Len(s) - p
      BY <2>7, <2>8, <2>9, <3>1
    <3>3. a \o b \in Seq(A) /\ Len(a \o b) = Len(a) + Len(b)
      BY <3>1, ConcatProperties
    <3> QED BY <2>6, <3>2, <3>3
  <2>11. ASSUME NEW i \in 1..Len(t) PROVE t[i] = IF i < p THEN s[i] ELSE s[i + 1]
    <3>1. PICK a \in Seq(A), b \in Seq(A) :
             a = SubSeq(s, 1, p - 1) /\ b = SubSeq(s, p + 1, Len(s))
      BY <2>8, <2>9
    <3>2. t = a \o b /\ Len(a) = p - 1 /\ Len(b) = Len(s) - p
      BY <2>7, <2>8, <2>9, <3>1
    <3>3. i \in 1..Len(a) + Len(b)
      BY <2>6, <2>10, <3>2
    <3>4. t[i] = IF i <= Len(a) THEN a[i] ELSE b[i - Len(a)]
      BY <3>1, <3>2, <3>3, ConcatProperties
    <3>5. CASE i < p
      <4>1. i \in 1..p - 1 /\ i <= Len(a)
        BY <2>6, <2>10, <3>2, <3>5
      <4> QED BY <2>8, <3>1, <3>4, <3>5, <4>1
    <3>6. CASE ~(i < p)
      <4>1. i - Len(a) \in 1..Len(s) - p /\ i - Len(a) + p = i + 1 /\ ~(i <= Len(a))
        BY <2>6, <2>10, <3>2, <3>6
      <4> QED BY <2>9, <3>1, <3>4, <3>6, <4>1
    <3> QED BY <3>5, <3>6
  <2>12. ASSUME NEW i \in 1..Len(t)
         PROVE \E k \in 1..Len(s) : k = (IF i < p THEN i ELSE i + 1) /\ t[i] = s[k] /\ k # p
    BY <2>6, <2>10, <2>11
  <2>13. ASSUME NEW i \in 1..Len(t) PROVE t[i] # q
    <3>1. PICK k \in 1..Len(s) : t[i] = s[k] /\ k # p
      BY <2>12
    <3> QED BY <2>6, <3>1
  <2>14. ASSUME NEW i \in 1..Len(t), NEW k \in 1..Len(t), t[i] = t[k] PROVE i = k
    <3>1. PICK a \in 1..Len(s) : a = (IF i < p THEN i ELSE i + 1) /\ t[i] = s[a]
      BY <2>12
    <3>2. PICK b \in 1..Len(s) : b = (IF k < p THEN k ELSE k + 1) /\ t[k] = s[b]
      BY <2>12
    <3>3. a = b
      BY <2>14, <3>1, <3>2
    <3> QED BY <2>6, <2>10, <3>1, <3>2, <3>3
  <2> QED BY <2>10, <2>12, <2>13, <2>14
<1> QED BY <1>1, <1>2

-----------------------------------------------------------------------------

\* A scan of s goes on as c.
LEMMA ScanGoesOn ==
    ASSUME NoticesTyped, ScansStand, NEW s \in Scanners, NEW c,
           scan' = [scan EXCEPT ![s] = c], UNCHANGED events, Scanning(c)',
           \A t \in Scanners \ {s} : Sending(scan[t]) =>
                /\ delivery'[Head(scan[t].todo)] = "sending"
                /\ Sending(c) => Head(scan[t].todo) # Head(c.todo)
    PROVE  ScansStand'
<1>1. /\ scan' = [t \in Scanners |-> scan'[t]] /\ scan'[s] = c
      /\ \A t \in Scanners \ {s} : scan'[t] = scan[t]
  BY DEF ScansStand
<1>2. ASSUME NEW t \in Scanners PROVE Scanning(scan[t])'
  <2>1. CASE t = s
    BY <1>1, <2>1 DEF Scanning, Sending
  <2>2. CASE t # s
    <3>1. scan'[t] = scan[t] /\ Scanning(scan[t])
      BY <1>1, <2>2 DEF ScansStand
    <3> QED BY <2>2, <3>1 DEF Scanning, Sending
  <2> QED BY <2>1, <2>2
<1>3. ASSUME NEW t \in Scanners, NEW u \in Scanners, Sending(scan'[t]), Sending(scan'[u]),
             Head(scan'[t].todo) = Head(scan'[u].todo)
      PROVE  t = u
  BY <1>1, <1>3 DEF ScansStand
<1> QED BY <1>1, <1>2, <1>3 DEF ScansStand, Sending

\* Of an instance that scans.
LEMMA AtScan ==
    ASSUME NoticesInv, NEW s \in Scanners
    PROVE  \E c : c = scan[s] /\ Scanning(c) /\ Len(events) \in Nat /\ Len(events) <= MaxEvents
BY DEF NoticesInv, ScansStand, NoticesTyped

LEMMA OtherScans ==
    ASSUME NoticesInv, NEW s \in Scanners, NEW t \in Scanners \ {s}, Sending(scan[t])
    PROVE  /\ delivery[Head(scan[t].todo)] = "sending"
           /\ Sending(scan[s]) => Head(scan[t].todo) # Head(scan[s].todo)
BY DEF NoticesInv, ScansStand, Scanning

\* The rest, where a step is not about it.
LEMMA TextsStay ==
    ASSUME NoticesInv, UNCHANGED <<events, prompts, closed>>
    PROVE  PromptsStand'
BY DEF NoticesInv, PromptsStand
LEMMA HandsStay ==
    ASSUME NoticesInv, UNCHANGED <<hand, inbox, events, answers>>
    PROVE  HandsFull'
BY DEF NoticesInv, HandsFull, Remaining, Fits, Unrecorded, Amid
LEMMA ScansStay ==
    ASSUME NoticesInv, UNCHANGED <<scan, events, delivery>>
    PROVE  ScansStand'
BY DEF NoticesInv, ScansStand, Scanning, Sending

LEMMA ScansBegin ==
    ASSUME NoticeConstants, NoticesInv, NEW s \in Scanners, Notices!StartScan(s) \/ Notices!ReadTask(s)
    PROVE  NoticesInv'
<1>1. UNCHANGED <<inbox, offset, acked, processed, hand, faults, events, waiting, answers, delivery, watermark, told,
                  prompts, closed, pending>>
  BY DEF Notices!StartScan, Notices!ReadTask, Notices!uvars
<1>2. NoticesTyped' /\ PromptsStand' /\ HandsFull'
  BY <1>1, TextsStay, HandsStay DEF NoticesInv, NoticesTyped
<1>3. PICK d : d = scan[s] /\ Scanning(d) /\ Len(events) \in Nat /\ Len(events) <= MaxEvents
  BY AtScan
<1>4. CASE Notices!StartScan(s)
  <2>1. PICK c : c = [Notices!NoScan EXCEPT !.at = "listed", !.mark = watermark]
    OBVIOUS
  <2>2. scan' = [scan EXCEPT ![s] = c]
    BY <1>4, <2>1 DEF Notices!StartScan
  <2>3. c = [at |-> "listed", mark |-> watermark, todo |-> <<>>, open |-> 0]
    BY <2>1 DEF Notices!NoScan
  <2>4. watermark \in Nat /\ watermark <= Len(events)
    BY DEF NoticesInv, NoticesTyped
  <2>5. Scanning(c)' /\ ~Sending(c)
    BY <1>1, <1>3, <2>3, <2>4 DEF Scanning, Sending
  <2>6. ScansStand'
    BY <1>1, <2>2, <2>5, OtherScans, ScanGoesOn DEF NoticesInv
  <2> QED BY <1>2, <2>6 DEF NoticesInv
<1>5. CASE Notices!ReadTask(s)
  <2> DEFINE m == d.mark
             todo == [i \in 1..(Len(events) - m) |-> m + i]
             open == Notices!Latest(Notices!OpenQuestions)
  <2>1. PICK c : c = [d EXCEPT !.at = "next", !.todo = todo, !.open = open]
    OBVIOUS
  <2>2. scan' = [scan EXCEPT ![s] = c]
    <3>1. scan' = [scan EXCEPT ![s].at = "next",
                            ![s].todo = [i \in 1..(Len(events) - scan[s].mark) |-> scan[s].mark + i],
                            ![s].open = Notices!Latest(Notices!OpenQuestions)]
      BY <1>5 DEF Notices!ReadTask
    <3> QED BY <1>3, <2>1, <3>1 DEF NoticesInv, ScansStand
  <2>3. m \in Nat /\ m <= Len(events)
    BY <1>3 DEF Scanning
  <2>4. todo \in Seq(1..Len(events))
    <3>1. Len(events) - m \in Nat
      BY <1>3, <2>3
    <3>2. \A i \in 1..(Len(events) - m) : m + i \in 1..Len(events)
      BY <1>3, <2>3
    <3> QED BY <3>1, <3>2
  <2>5. open \in Nat /\ open <= Len(events)
    <3>1. Notices!OpenQuestions \in SUBSET (1..Len(events))
      BY DEF Notices!OpenQuestions
    <3>2. open \in 0..Len(events)
      BY <1>3, <3>1, LatestIsNumber
    <3> QED BY <1>3, <3>2
  <2> HIDE DEF todo, open
  <2>6. c = [at |-> "next", mark |-> m, todo |-> todo, open |-> open]
    BY <1>3, <2>1 DEF Scanning
  <2>7. Scanning(c)' /\ ~Sending(c)
    BY <1>1, <2>3, <2>4, <2>5, <2>6 DEF Scanning, Sending
  <2>8. ScansStand'
    BY <1>1, <2>2, <2>7, OtherScans, ScanGoesOn DEF NoticesInv
  <2> QED BY <1>2, <2>8 DEF NoticesInv
<1> QED BY <1>4, <1>5

\* A scan turns to the next event.
LEMMA ScanSkips ==
    ASSUME NoticesInv, NEW s \in Scanners, scan[s].todo # <<>>, Notices!Skip(s), UNCHANGED events,
           \A t \in Scanners \ {s} : Sending(scan[t]) => delivery'[Head(scan[t].todo)] = "sending"
    PROVE  ScansStand'
<1>1. PICK d : d = scan[s] /\ Scanning(d)
  BY AtScan
<1>2. PICK c : c = [d EXCEPT !.at = "next", !.todo = Tail(d.todo)]
  OBVIOUS
<1>3. scan' = [scan EXCEPT ![s] = c]
  BY <1>1, <1>2 DEF Notices!Skip, NoticesInv, ScansStand
<1>4. c = [at |-> "next", mark |-> d.mark, todo |-> Tail(d.todo), open |-> d.open]
  BY <1>1, <1>2 DEF Scanning
<1>5. Tail(d.todo) \in Seq(1..Len(events))
  BY <1>1, Parts DEF Scanning
<1>6. Scanning(c)' /\ ~Sending(c)
  BY <1>1, <1>4, <1>5 DEF Scanning, Sending
<1> QED BY <1>3, <1>6, ScanGoesOn DEF NoticesInv

\* A scan does not go on with the event at hand, or at all.
LEMMA ScansReserve ==
    ASSUME NoticeConstants, NoticesInv, NEW s \in Scanners, Notices!Reserve(s)
    PROVE  NoticesInv'
<1>1. UNCHANGED <<inbox, offset, acked, processed, hand, faults, events, waiting, answers, watermark, told,
                  prompts, closed, pending>>
  BY DEF Notices!Reserve, Notices!uvars
<1>2. PromptsStand' /\ HandsFull'
  BY <1>1, TextsStay, HandsStay
<1>3. PICK d : d = scan[s] /\ Scanning(d) /\ Len(events) \in Nat /\ Len(events) <= MaxEvents
  BY AtScan
<1>4. CASE d.todo = <<>>
  <2>1. PICK c : c = Notices!NoScan
    OBVIOUS
  <2>2. scan' = [scan EXCEPT ![s] = c] /\ UNCHANGED delivery
    BY <1>3, <1>4, <2>1 DEF Notices!Reserve
  <2>3. Scanning(c)' /\ ~Sending(c)
    BY <1>1, <1>3, <2>1 DEF Scanning, Sending, Notices!NoScan
  <2>4. ScansStand'
    BY <1>1, <2>2, <2>3, OtherScans, ScanGoesOn DEF NoticesInv
  <2> QED BY <1>1, <1>2, <2>2, <2>4 DEF NoticesInv, NoticesTyped
<1>5. CASE d.todo # <<>> /\ Notices!MayReserve(Head(d.todo))
  <2>1. PICK e : e = Head(d.todo) /\ e \in 1..Len(events) /\ e \in 1..MaxEvents
    <3>1. PICK e : e = Head(d.todo)
      OBVIOUS
    <3>2. e \in 1..Len(events)
      BY <1>3, <1>5, <3>1, Parts DEF Scanning
    <3>3. MaxEvents \in Nat
      BY DEF NoticeConstants
    <3>4. e \in 1..MaxEvents
      BY <1>3, <3>2, <3>3
    <3> QED BY <3>1, <3>2, <3>4
  <2>2. delivery' = [delivery EXCEPT ![e] = "sending"] /\ delivery[e] \in {"none", "stale"}
        /\ scan' = [scan EXCEPT ![s].at = "sending"]
    BY <1>3, <1>5, <2>1 DEF Notices!Reserve, Notices!Event, Notices!MayReserve
  <2>3. PICK c : c = [d EXCEPT !.at = "sending"]
    OBVIOUS
  <2>4. scan' = [scan EXCEPT ![s] = c]
    BY <1>3, <2>2, <2>3 DEF NoticesInv, ScansStand
  <2>5. c = [at |-> "sending", mark |-> d.mark, todo |-> d.todo, open |-> d.open]
    BY <1>3, <2>3 DEF Scanning
  <2>6. delivery' \in [1..MaxEvents -> {"none", "sending", "stale", "sent"}]
        /\ delivery'[e] = "sending" /\ \A f \in 1..MaxEvents \ {e} : delivery'[f] = delivery[f]
    BY <2>1, <2>2 DEF NoticesInv, NoticesTyped
  <2>7. Scanning(c)'
    BY <1>1, <1>3, <1>5, <2>1, <2>5, <2>6 DEF Scanning, Sending
  <2>8. ASSUME NEW t \in Scanners \ {s}, Sending(scan[t])
        PROVE  delivery'[Head(scan[t].todo)] = "sending" /\ Head(scan[t].todo) # Head(c.todo)
    <3>1. delivery[Head(scan[t].todo)] = "sending"
      BY <2>8, OtherScans
    <3>2. Head(scan[t].todo) # e
      BY <2>2, <3>1
    <3>3. PICK b : b = scan[t] /\ Scanning(b)
      BY AtScan
    <3>4. Head(b.todo) \in 1..MaxEvents
      <4>1. b.todo \in Seq(1..Len(events)) /\ b.todo # <<>>
        BY <2>8, <3>3 DEF Scanning
      <4>2. Head(b.todo) \in 1..Len(events)
        BY <4>1, Parts
      <4> QED BY <1>3, <4>2 DEF NoticeConstants
    <3> QED BY <2>1, <2>5, <2>6, <3>1, <3>2, <3>3, <3>4
  <2>9. ScansStand'
    BY <1>1, <2>4, <2>7, <2>8, ScanGoesOn DEF NoticesInv
  <2> QED BY <1>1, <1>2, <2>6, <2>9 DEF NoticesInv, NoticesTyped
<1>6. CASE d.todo # <<>> /\ ~Notices!MayReserve(Head(d.todo))
  <2>1. Notices!Skip(s) /\ UNCHANGED delivery
    BY <1>3, <1>6 DEF Notices!Reserve, Notices!Event
  <2>2. \A t \in Scanners \ {s} : Sending(scan[t]) => delivery'[Head(scan[t].todo)] = "sending"
    BY <2>1, OtherScans
  <2>3. ScansStand'
    BY <1>1, <1>3, <1>6, <2>1, <2>2, ScanSkips
  <2> QED BY <1>1, <1>2, <2>1, <2>3 DEF NoticesInv, NoticesTyped
<1> QED BY <1>4, <1>5, <1>6

\* The event at hand, which is being sent.
LEMMA AtHand ==
    ASSUME NoticeConstants, NoticesInv, NEW s \in Scanners, Sending(scan[s])
    PROVE  \E e \in 1..MaxEvents : e = Notices!Event(s) /\ e \in 1..Len(events) /\ delivery[e] = "sending"
<1>1. PICK d : d = scan[s] /\ Scanning(d) /\ Len(events) \in Nat /\ Len(events) <= MaxEvents
  BY AtScan
<1>2. PICK e : e = Head(d.todo)
  OBVIOUS
<1>3. e \in 1..Len(events) /\ delivery[e] = "sending"
  BY <1>1, <1>2, Parts DEF Scanning
<1>4. e \in 1..MaxEvents
  BY <1>1, <1>3 DEF NoticeConstants
<1> QED BY <1>1, <1>2, <1>3, <1>4 DEF Notices!Event

\* A message is counted up to two.
LEMMA Counted ==
    ASSUME NoticesInv, NEW e \in 1..MaxEvents,
           told' \in {told, [told EXCEPT ![e] = IF @ < 2 THEN @ + 1 ELSE @]}
    PROVE  told' \in [1..MaxEvents -> {0, 1, 2}]
<1>1. told \in [1..MaxEvents -> {0, 1, 2}] /\ told[e] \in {0, 1, 2}
  BY DEF NoticesInv, NoticesTyped
<1>2. (IF told[e] < 2 THEN told[e] + 1 ELSE told[e]) \in {0, 1, 2}
  BY <1>1
<1> QED BY <1>1, <1>2

\* A scan goes on with the event at hand.
LEMMA StillSending ==
    ASSUME NoticesInv, NEW s \in Scanners, Sending(scan[s]), NEW at \in {"prompting", "recording"},
           scan' = [scan EXCEPT ![s].at = at], UNCHANGED <<events, delivery>>,
           at = "prompting" => scan[s].open # 0
    PROVE  ScansStand'
<1>1. PICK d : d = scan[s] /\ Scanning(d)
  BY AtScan
<1>2. PICK c : c = [d EXCEPT !.at = at]
  OBVIOUS
<1>3. scan' = [scan EXCEPT ![s] = c]
  BY <1>1, <1>2 DEF NoticesInv, ScansStand
<1>4. c = [at |-> at, mark |-> d.mark, todo |-> d.todo, open |-> d.open]
  BY <1>1, <1>2 DEF Scanning
<1>5. Scanning(c)'
  BY <1>1, <1>4 DEF Scanning, Sending
<1>6. ASSUME NEW t \in Scanners \ {s}, Sending(scan[t])
      PROVE  delivery'[Head(scan[t].todo)] = "sending" /\ Head(scan[t].todo) # Head(c.todo)
  BY <1>1, <1>4, <1>6, OtherScans
<1> QED BY <1>3, <1>5, <1>6, ScanGoesOn DEF NoticesInv

LEMMA ScansSend ==
    ASSUME NoticeConstants, NoticesInv, NEW s \in Scanners, Notices!Send(s)
    PROVE  NoticesInv'
<1>1. UNCHANGED <<inbox, offset, acked, processed, hand, faults, events, waiting, answers, delivery, watermark,
                  prompts, closed, pending>> /\ Sending(scan[s])
  BY DEF Notices!Send, Notices!uvars, Sending
<1>2. PICK e \in 1..MaxEvents : e = Notices!Event(s)
  BY <1>1, AtHand
<1>3. told' \in [1..MaxEvents -> {0, 1, 2}]
  BY <1>2, Counted DEF Notices!Send
<1>4. PICK at : at = IF events[Notices!Event(s)] = "asks" /\ scan[s].open # 0 THEN "prompting" ELSE "recording"
  OBVIOUS
<1>5. scan' = [scan EXCEPT ![s].at = at]
  BY <1>4 DEF Notices!Send
<1>6. at \in {"prompting", "recording"} /\ (at = "prompting" => scan[s].open # 0)
  BY <1>4
<1>7. ScansStand'
  BY <1>1, <1>5, <1>6, StillSending
<1> QED BY <1>1, <1>3, <1>7, TextsStay, HandsStay DEF NoticesInv, NoticesTyped

LEMMA ScansFail ==
    ASSUME NoticeConstants, NoticesInv, NEW s \in Scanners, Notices!FailToSend(s)
    PROVE  NoticesInv'
<1>1. UNCHANGED <<inbox, hand, events, waiting, answers, delivery, watermark, prompts, closed, pending>>
      /\ Sending(scan[s])
  BY DEF Notices!FailToSend, Sending
<1>2. PICK e \in 1..MaxEvents : e = Notices!Event(s)
  BY <1>1, AtHand
<1>3. told' \in [1..MaxEvents -> {0, 1, 2}]
  BY <1>2, Counted DEF Notices!FailToSend
<1>4. PICK c : c = Notices!NoScan
  OBVIOUS
<1>5. scan' = [scan EXCEPT ![s] = c]
  BY <1>4 DEF Notices!FailToSend
<1>6. Scanning(c)' /\ ~Sending(c)
  <2>1. PICK d : d = scan[s] /\ Scanning(d) /\ Len(events) \in Nat /\ Len(events) <= MaxEvents
    BY AtScan
  <2> QED BY <1>1, <1>4, <2>1 DEF Scanning, Sending, Notices!NoScan
<1>7. ScansStand'
  BY <1>1, <1>5, <1>6, OtherScans, ScanGoesOn DEF NoticesInv
<1> QED BY <1>1, <1>3, <1>7, TextsStay, HandsStay DEF NoticesInv, NoticesTyped

\* A prompt comes last, and is no longer where it was.
LEMMA PromptOpens ==
    ASSUME NoticesInv, NEW q \in 1..Len(events), Notices!Prompt(q), UNCHANGED <<events, closed>>
    PROVE  PromptsStand'
<1>1. PICK n : n = Len(events) /\ n = Len(events)'
  OBVIOUS
<1>2. PICK s : s = prompts /\ s \in Seq(1..n) /\ (\A i, k \in 1..Len(s) : s[i] = s[k] => i = k)
               /\ \A i \in 1..Len(s) : s[i] \notin closed
  BY <1>1 DEF NoticesInv, PromptsStand
<1>3. CASE q \in closed
  BY <1>3, TextsStay DEF Notices!Prompt
<1>4. CASE q \notin closed
  <2>1. PICK t : t = Notices!RemoveFirst(s, q)
    OBVIOUS
  <2>2. /\ t \in Seq(1..n) /\ \A i, k \in 1..Len(t) : t[i] = t[k] => i = k
        /\ \A i \in 1..Len(t) : t[i] # q /\ \E k \in 1..Len(s) : t[i] = s[k]
    BY <1>2, <2>1, TakenOut
  <2>3. PICK r : r = Append(t, q) /\ r = prompts'
    BY <1>2, <1>4, <2>1 DEF Notices!Prompt
  <2>4. r \in Seq(1..n) /\ Len(r) = Len(t) + 1 /\ Len(t) \in Nat /\ \A i \in 1..Len(t) : r[i] = t[i]
    <3>1. q \in 1..n /\ t \in Seq(1..n) /\ r = Append(t, q)
      BY <1>1, <2>2, <2>3
    <3> QED BY ONLY <3>1, AppendProperties, LenProperties
  <2>5. r[Len(t) + 1] = q
    <3>1. q \in 1..n /\ t \in Seq(1..n) /\ r = Append(t, q)
      BY <1>1, <2>2, <2>3
    <3> QED BY ONLY <3>1, AppendProperties, LenProperties
  <2>6. \A i \in 1..Len(r) : i \in 1..Len(t) \/ i = Len(t) + 1
    BY <2>4
  <2>7. \A i, k \in 1..Len(r) : r[i] = r[k] => i = k
    BY <2>2, <2>4, <2>5, <2>6
  <2>8. \A i \in 1..Len(r) : r[i] \notin closed
    BY <1>2, <1>4, <2>2, <2>4, <2>5, <2>6
  <2> QED BY <1>1, <2>3, <2>4, <2>7, <2>8 DEF NoticesInv, PromptsStand
<1> QED BY <1>3, <1>4

LEMMA ScansPrompt ==
    ASSUME NoticeConstants, NoticesInv, NEW s \in Scanners, Notices!OpenPrompt(s)
    PROVE  NoticesInv'
<1>1. UNCHANGED <<inbox, offset, acked, processed, hand, faults, events, waiting, answers, delivery, watermark,
                  told, closed, pending>>
      /\ Sending(scan[s]) /\ scan' = [scan EXCEPT ![s].at = "recording"]
  BY DEF Notices!OpenPrompt, Notices!uvars, Sending
<1>2. PICK d : d = scan[s] /\ Scanning(d) /\ Len(events) \in Nat
  BY AtScan
<1>3. PICK q : q = d.open /\ q \in 1..Len(events) /\ Notices!Prompt(q)
  BY <1>2 DEF Scanning, Notices!OpenPrompt
<1>4. PromptsStand'
  BY <1>1, <1>3, PromptOpens
<1>5. PICK at \in {"prompting", "recording"} : at = "recording"
  OBVIOUS
<1>6. ScansStand'
  BY <1>1, <1>5, StillSending
<1> QED BY <1>1, <1>4, <1>6, HandsStay DEF NoticesInv, NoticesTyped

LEMMA ScansRecord ==
    ASSUME NoticeConstants, NoticesInv, NEW s \in Scanners, Notices!Record(s)
    PROVE  NoticesInv'
<1>1. UNCHANGED <<inbox, offset, acked, processed, hand, faults, events, waiting, answers,
                  told, prompts, closed, pending>> /\ Sending(scan[s])
  BY DEF Notices!Record, Notices!uvars, Sending
<1>2. PICK e \in 1..MaxEvents : e = Notices!Event(s) /\ e \in 1..Len(events)
  BY <1>1, AtHand
<1>3. delivery' = [delivery EXCEPT ![e] = "sent"] /\ watermark' = e /\ Notices!Skip(s)
  BY <1>2 DEF Notices!Record
<1>4. delivery' \in [1..MaxEvents -> {"none", "sending", "stale", "sent"}]
      /\ watermark' \in Nat /\ watermark' <= Len(events)'
  <2>1. PICK n : n = Len(events) /\ n \in Nat
    BY AtScan
  <2>2. e \in Nat /\ e <= n
    BY <1>2, <2>1
  <2> QED BY <1>1, <1>3, <2>1, <2>2 DEF NoticesInv, NoticesTyped
<1>5. ASSUME NEW t \in Scanners \ {s}, Sending(scan[t])
      PROVE  delivery'[Head(scan[t].todo)] = "sending"
  <2>1. delivery[Head(scan[t].todo)] = "sending" /\ Head(scan[t].todo) # e
    BY <1>1, <1>2, <1>5, OtherScans DEF Notices!Event
  <2>2. PICK f \in 1..MaxEvents : f = Notices!Event(t)
    BY <1>5, AtHand
  <2>3. f = Head(scan[t].todo)
    BY <2>2 DEF Notices!Event
  <2> QED BY <1>3, <2>1, <2>3 DEF NoticesInv, NoticesTyped
<1>6. scan[s].todo # <<>>
  BY <1>1 DEF NoticesInv, ScansStand, Scanning
<1>7. ScansStand'
  BY <1>1, <1>3, <1>5, <1>6, ScanSkips
<1> QED BY <1>1, <1>4, <1>7, TextsStay, HandsStay DEF NoticesInv, NoticesTyped

\* A reservation that nobody works on.
LEMMA ScansStale ==
    ASSUME NoticeConstants, NoticesInv, NEW e \in Notices!Events, Notices!BecomeStale(e)
    PROVE  NoticesInv'
<1>1. UNCHANGED <<inbox, offset, acked, processed, hand, faults, events, waiting, answers, watermark, told,
                  prompts, closed, pending, scan>> /\ e \in 1..MaxEvents
      /\ delivery' = [delivery EXCEPT ![e] = "stale"] /\ ~Notices!InHand(e)
  BY DEF Notices!BecomeStale, Notices!uvars, Notices!Events
<1>2. delivery' \in [1..MaxEvents -> {"none", "sending", "stale", "sent"}]
      /\ \A f \in 1..MaxEvents \ {e} : delivery'[f] = delivery[f]
  BY <1>1 DEF NoticesInv, NoticesTyped
<1>3. ASSUME NEW s \in Scanners PROVE Scanning(scan[s])'
  <2>1. PICK d : d = scan[s] /\ Scanning(d)
    BY AtScan
  <2>2. Sending(d) => delivery'[Head(d.todo)] = "sending"
    <3>1. SUFFICES ASSUME Sending(d) PROVE delivery'[Head(d.todo)] = "sending"
      OBVIOUS
    <3>2. PICK f \in 1..MaxEvents : f = Notices!Event(s) /\ delivery[f] = "sending"
      BY <2>1, <3>1, AtHand
    <3>3. f # e
      BY <1>1, <2>1, <3>1, <3>2 DEF Notices!InHand, Sending
    <3>4. f = Head(d.todo)
      BY <2>1, <3>2 DEF Notices!Event
    <3> QED BY <1>2, <3>2, <3>3, <3>4
  <2> QED BY <1>1, <2>1, <2>2 DEF Scanning, Sending
<1>4. ScansStand'
  BY <1>1, <1>3 DEF NoticesInv, ScansStand, Sending
<1> QED BY <1>1, <1>2, <1>4, TextsStay, HandsStay DEF NoticesInv, NoticesTyped

-----------------------------------------------------------------------------

\* Steps that a handler may put before those it still has.
Leads(s, k) ==
    /\ s.do \notin {"handle", "mark", "advance"}
    /\ s.do = "comment" => k = 1 /\ Unrecorded(s)
    /\ s.do = "execute" => s.id \in Updates
    /\ s.do = "close" => s.key \in 1..Len(events)
Led(first) == first \in Seq(Tasks) /\ \A k \in 1..Len(first) : Leads(first[k], k)

\* A handler is at c, the others where they were.
LEMMA HandGoes ==
    ASSUME HandsFull, NEW h \in Handlers, NEW c, hand' = [hand EXCEPT ![h] = c],
           c = [update |-> c.update, todo |-> c.todo], UNCHANGED <<inbox, events>>,
           c.update # 0 =>
               c.update \in 1..Len(inbox) /\ Remaining(c.todo) /\ Unrecorded(Head(c.todo))',
           Amid(c) => \A g \in Handlers \ {h} : ~Amid(hand[g]),
           (\A g \in Handlers \ {h} : ~Amid(hand[g])) \/ UNCHANGED answers
    PROVE  HandsFull'
<1>1. /\ hand' = [g \in Handlers |-> hand'[g]] /\ hand'[h] = c
      /\ \A g \in Handlers \ {h} : hand'[g] = hand[g]
  BY DEF HandsFull
<1>2. ASSUME NEW g \in Handlers \ {h}, hand[g].update # 0
      PROVE  Unrecorded(Head(hand[g].todo))'
  <2>1. PICK s : s = Head(hand[g].todo) /\ Unrecorded(s)
    BY <1>2 DEF HandsFull
  <2>2. CASE UNCHANGED answers
    BY <1>1, <2>1, <2>2 DEF Unrecorded
  <2>3. CASE ~Amid(hand[g])
    <3>1. s.do # "comment"
      BY <1>2, <2>1, <2>3 DEF Amid
    <3> QED BY <1>1, <2>1, <3>1 DEF Unrecorded
  <2> QED BY <2>2, <2>3
<1>3. ASSUME NEW g \in Handlers, hand'[g].update # 0
      PROVE  /\ hand'[g].update \in 1..Len(inbox)' /\ Remaining(hand[g].todo)'
             /\ Unrecorded(Head(hand[g].todo))'
  <2>1. CASE g = h
    BY <1>1, <1>3, <2>1 DEF Remaining, Fits, Unrecorded
  <2>2. CASE g # h
    <3>1. hand'[g] = hand[g] /\ hand[g].update \in 1..Len(inbox) /\ Remaining(hand[g].todo)
      BY <1>1, <1>3, <2>2 DEF HandsFull
    <3>2. Unrecorded(Head(hand[g].todo))'
      BY <1>2, <1>3, <2>2, <3>1
    <3> QED BY <3>1, <3>2 DEF Remaining, Fits
  <2> QED BY <2>1, <2>2
<1>4. hand' = [g \in Handlers |-> [update |-> hand'[g].update, todo |-> hand'[g].todo]]
  BY <1>1 DEF HandsFull
<1>5. ASSUME NEW f \in Handlers, NEW g \in Handlers, Amid(hand'[f]), Amid(hand'[g]) PROVE f = g
  BY <1>1, <1>5 DEF HandsFull
<1> QED BY <1>3, <1>4, <1>5 DEF HandsFull, Amid

\* A list without its first step and with others in its place.
LEMMA Onward ==
    ASSUME NEW todo, Remaining(todo), Head(todo).do # "advance", NEW first, Led(first)
    PROVE  /\ Remaining(first \o Tail(todo)) /\ Unrecorded(Head(first \o Tail(todo)))
           /\ Head(todo).do = "mark" /\ first = <<>> => Head(first \o Tail(todo)).do = "advance"
<1>1. PICK n : n = Len(todo)
  OBVIOUS
<1>2. PICK p : p = Len(first)
  OBVIOUS
<1>3. PICK rest : rest = Tail(todo)
  OBVIOUS
<1>4. PICK r : r = first \o rest
  OBVIOUS
<1>5. todo \in Seq(Tasks) /\ todo # <<>> /\ first \in Seq(Tasks)
  BY DEF Remaining, Led
<1>6. /\ n \in Nat /\ n >= 1 /\ Head(todo) = todo[1]
      /\ rest \in Seq(Tasks) /\ Len(rest) = n - 1 /\ \A i \in 1..n - 1 : rest[i] = todo[i + 1]
  BY <1>1, <1>3, <1>5, Parts
<1>7. \A k \in 1..n : Fits(todo[k], k, n)
  BY <1>1 DEF Remaining
<1>8. n >= 2
  BY <1>6, <1>7 DEF Fits
<1>9. p \in Nat
  BY <1>2, <1>5, LenProperties
<1>10. /\ r \in Seq(Tasks) /\ Len(r) = p + (n - 1)
       /\ \A i \in 1..p + (n - 1) : r[i] = IF i <= p THEN first[i] ELSE rest[i - p]
  <2>1. Len(r) = p + Len(rest) /\ r \in Seq(Tasks)
        /\ \A i \in 1..p + Len(rest) : r[i] = IF i <= p THEN first[i] ELSE rest[i - p]
    BY <1>2, <1>4, <1>5, <1>6, ConcatProperties
  <2>2. p + Len(rest) = p + (n - 1)
    BY <1>6
  <2> QED BY <2>1, <2>2
<1>11. ASSUME NEW k \in 1..Len(r) PROVE Fits(r[k], k, Len(r)) /\ (r[k].do = "comment" => Unrecorded(r[k]))
  <2>1. CASE k <= p
    <3>1. k \in 1..p /\ k # Len(r) /\ r[k] = first[k]
      BY <1>8, <1>6, <1>9, <1>10, <2>1
    <3>2. Leads(r[k], k)
      BY <1>2, <3>1 DEF Led
    <3> QED BY <3>1, <3>2 DEF Leads, Fits
  <2>2. CASE ~(k <= p)
    <3>1. k - p \in 1..n - 1 /\ k - p + 1 \in 1..n /\ k - p + 1 # 1
      BY <1>6, <1>9, <1>10, <2>2
    <3>2. r[k] = todo[k - p + 1]
      BY <1>6, <1>10, <2>2, <3>1
    <3>3. PICK j : j = k - p + 1 /\ j \in 1..n /\ j # 1
      BY <3>1
    <3>4. Fits(r[k], j, n)
      BY <1>7, <3>2, <3>3
    <3>5. (j = n <=> k = Len(r)) /\ (j + 1 = n <=> k + 1 = Len(r))
      BY <1>6, <1>9, <1>10, <3>3
    <3> QED BY <3>3, <3>4, <3>5 DEF Fits
  <2> QED BY <2>1, <2>2
<1>12. Len(r) \in Nat /\ Len(r) >= 1 /\ r # <<>>
  BY <1>6, <1>8, <1>9, <1>10
<1>13. Remaining(r) /\ Head(r) = r[1]
  BY <1>10, <1>11, <1>12, Parts DEF Remaining
<1>14. Unrecorded(r[1])
  <2>1. 1 \in 1..Len(r)
    BY <1>12
  <2> QED BY <1>11, <2>1 DEF Unrecorded
<1>15. Head(todo).do = "mark" /\ first = <<>> => r[1].do = "advance"
  <2>1. SUFFICES ASSUME Head(todo).do = "mark", first = <<>> PROVE r[1].do = "advance"
    OBVIOUS
  <2>2. n = 2
    BY <1>6, <1>7, <2>1 DEF Fits
  <2>3. p = 0
    BY <1>2, <2>1
  <2>4. Len(r) = 1
    BY <1>10, <2>2, <2>3
  <2> QED BY <1>11, <2>4 DEF Fits
<1> QED BY <1>3, <1>4, <1>13, <1>14, <1>15

\* A handler goes on.
LEMMA HandlerGoesOn ==
    ASSUME NoticesInv, NEW h \in Handlers, Notices!Busy(h), Notices!Now(h).do # "advance",
           NEW first, Led(first), Notices!Then(h, first), UNCHANGED <<inbox, events>>,
           \/ first = <<>> /\ Notices!Now(h).do = "mark" /\ UNCHANGED answers
           \/ first = <<>> /\ \A g \in Handlers \ {h} : ~Amid(hand[g])
           \/ UNCHANGED answers /\ \A g \in Handlers \ {h} : ~Amid(hand[g])
    PROVE  HandsFull'
<1>1. PICK d : d = hand[h] /\ d = [update |-> d.update, todo |-> d.todo]
  BY DEF NoticesInv, HandsFull
<1>2. d.update # 0 /\ d.update \in 1..Len(inbox) /\ Remaining(d.todo) /\ Head(d.todo).do # "advance"
  BY <1>1 DEF NoticesInv, HandsFull, Notices!Busy, Notices!Now
<1>3. PICK r : r = first \o Tail(d.todo)
  OBVIOUS
<1>4. /\ Remaining(r) /\ Unrecorded(Head(r))
      /\ Head(d.todo).do = "mark" /\ first = <<>> => Head(r).do = "advance"
  BY <1>2, <1>3, Onward
<1>5. PICK c : c = [update |-> d.update, todo |-> r]
  OBVIOUS
<1>6. hand' = [hand EXCEPT ![h] = c]
  <2>1. hand' = [hand EXCEPT ![h].todo = r]
    BY <1>1, <1>3, Zenon DEF Notices!Then
  <2>2. hand = [g \in Handlers |-> hand[g]]
    BY DEF NoticesInv, HandsFull
  <2>3. [d EXCEPT !.todo = r] = c
    <3>1. PICK u, t : d = [update |-> u, todo |-> t] /\ d.update = u
      BY <1>1
    <3> QED BY <1>5, <3>1
  <2>4. hand' = [hand EXCEPT ![h] = [hand[h] EXCEPT !.todo = r]]
    BY <2>1, <2>2
  <2> QED BY <1>1, <2>3, <2>4
<1>7. c = [update |-> c.update, todo |-> c.todo] /\ c.update = d.update /\ c.todo = r
  BY <1>5
<1>8. Amid(c) => \A g \in Handlers \ {h} : ~Amid(hand[g])
  BY <1>1, <1>4, <1>7 DEF Amid, Notices!Now
<1>9. Unrecorded(Head(r))'
  <2>1. CASE UNCHANGED answers
    BY <1>4, <2>1 DEF Unrecorded
  <2>2. CASE first = <<>>
    <3>1. Head(r).do # "comment"
      <4>1. /\ Tail(d.todo) \in Seq(Tasks) /\ Len(Tail(d.todo)) = Len(d.todo) - 1
            /\ \A i \in 1..Len(d.todo) - 1 : Tail(d.todo)[i] = d.todo[i + 1]
            /\ Len(d.todo) \in Nat /\ Len(d.todo) >= 1 /\ Head(d.todo) = d.todo[1]
        BY <1>2, Parts DEF Remaining
      <4>2. r = Tail(d.todo)
        BY <1>3, <2>2, <4>1
      <4>3. r \in Seq(Tasks) /\ r # <<>>
        BY <1>4 DEF Remaining
      <4>4. Head(r) = r[1] /\ Len(r) >= 1
        BY <4>3, Parts
      <4>5. Len(d.todo) >= 2 /\ r[1] = d.todo[2]
        BY <4>1, <4>2, <4>4
      <4>6. 2 \in 1..Len(d.todo)
        BY <4>1, <4>5
      <4>7. Fits(d.todo[2], 2, Len(d.todo))
        BY <1>2, <4>6 DEF Remaining
      <4> QED BY <4>4, <4>5, <4>7 DEF Fits
    <3> QED BY <3>1 DEF Unrecorded
  <2> QED BY <2>1, <2>2
<1>10. (\A g \in Handlers \ {h} : ~Amid(hand[g])) \/ UNCHANGED answers
  OBVIOUS
<1> QED BY <1>2, <1>4, <1>6, <1>7, <1>8, <1>9, <1>10, HandGoes DEF NoticesInv

LEMMA LedNothing == Led(<<>>)
BY DEF Led

LEMMA LedOne ==
    ASSUME NEW s \in Tasks, Leads(s, 1)
    PROVE  Led(<<s>>)
<1>1. <<s>> \in Seq(Tasks) /\ Len(<<s>>) = 1 /\ <<s>>[1] = s
  OBVIOUS
<1>2. PICK t : t = <<s>>
  OBVIOUS
<1>3. \A k \in 1..Len(t) : k = 1
  BY <1>1, <1>2
<1> QED BY <1>1, <1>2, <1>3 DEF Led

\* Steps that do not record an answer may come after others.
LEMMA LedThen ==
    ASSUME NEW s, Led(s), NEW t, Led(t), \A k \in 1..Len(t) : t[k].do # "comment"
    PROVE  Led(s \o t)
<1>1. s \in Seq(Tasks) /\ t \in Seq(Tasks)
  BY DEF Led
<1>2. PICK r : r = s \o t
  OBVIOUS
<1>3. /\ r \in Seq(Tasks) /\ Len(r) = Len(s) + Len(t) /\ Len(s) \in Nat /\ Len(t) \in Nat
      /\ \A i \in 1..Len(s) + Len(t) : r[i] = IF i <= Len(s) THEN s[i] ELSE t[i - Len(s)]
  BY <1>1, <1>2, ConcatProperties, LenProperties
<1>4. ASSUME NEW k \in 1..Len(r) PROVE Leads(r[k], k)
  <2>1. CASE k <= Len(s)
    BY <1>3, <2>1 DEF Led
  <2>2. CASE ~(k <= Len(s))
    <3>1. PICK j : j = k - Len(s) /\ j \in 1..Len(t)
      BY <1>3, <2>2
    <3>2. r[k] = t[j] /\ t[j].do # "comment" /\ Leads(t[j], j)
      BY <1>3, <2>2, <3>1 DEF Led
    <3> QED BY <3>2 DEF Leads
  <2> QED BY <2>1, <2>2
<1> QED BY <1>2, <1>3, <1>4 DEF Led

\* Of a step that is not one that records.
LEMMA LedStep ==
    ASSUME NEW do \in Doings \ {"handle", "mark", "advance", "comment"}, NEW id \in Ids, NEW key \in Nat,
           do = "execute" => id \in Updates, do = "close" => key \in 1..Len(events),
           NEW t, t = <<Notices!Step(do, id, key)>>
    PROVE  Led(t) /\ \A k \in 1..Len(t) : t[k].do # "comment"
<1>1. PICK s : s = Notices!Step(do, id, key)
  OBVIOUS
<1>2. s \in Tasks /\ s.do = do /\ s.id = id /\ s.key = key
  BY <1>1 DEF Notices!Step, Tasks
<1>3. Leads(s, 1)
  BY <1>2 DEF Leads
<1>4. Led(t)
  BY <1>1, <1>2, <1>3, LedOne
<1>5. Len(t) = 1 /\ t[1] = s
  BY <1>1
<1>6. \A k \in 1..Len(t) : k = 1
  BY <1>5
<1> QED BY <1>2, <1>4, <1>5, <1>6

LEMMA LedTell == Led(Notices!Tell) /\ \A k \in 1..Len(Notices!Tell) : Notices!Tell[k].do # "comment"
<1>1. PICK do \in Doings \ {"handle", "mark", "advance", "comment"} :
         do = "tell" /\ do # "execute" /\ do # "close"
  BY DEF Doings
<1>2. PICK t : t = <<Notices!Step(do, 0, 0)>> /\ t = Notices!Tell
  BY <1>1 DEF Notices!Tell, Notices!Steps
<1>3. 0 \in Ids /\ 0 \in Nat
  BY DEF Ids
<1> QED BY <1>1, <1>2, <1>3, LedStep

\* How an answer is recorded: not at all if it is there already.
LEMMA LedAnswer ==
    ASSUME NoticesInv, NEW q \in Nat, NEW b \in Written \cup {"none"}
    PROVE  Led(Notices!Answering(q, b))
<1>1. CASE Notices!Recorded(q, b)
  BY <1>1, LedNothing DEF Notices!Answering
<1>2. CASE ~Notices!Recorded(q, b)
  <2>1. PICK c : c = Notices!Step("comment", b, q)
    OBVIOUS
  <2>2. PICK r : r = Notices!Step("resume", 0, q)
    OBVIOUS
  <2>3. Notices!Answering(q, b) = <<c, r>>
    BY <1>2, <2>1, <2>2 DEF Notices!Answering
  <2>4. c \in Tasks /\ c.do = "comment" /\ c.id = b /\ c.key = q
    BY <2>1 DEF Notices!Step, Tasks, Doings, Ids
  <2>5. r \in Tasks /\ r.do = "resume"
    BY <2>2 DEF Notices!Step, Tasks, Doings, Ids
  <2>6. Unrecorded(c)
    <3>1. b # "elsewhere"
      BY DEF Written
    <3>2. q \in 1..MaxEvents /\ b \in Bodies => answers[q][b] = 0
      BY <1>2 DEF Notices!Recorded, NoticesInv, NoticesTyped
    <3> QED BY <2>4, <3>1, <3>2 DEF Unrecorded
  <2>7. Leads(c, 1) /\ Leads(r, 2)
    BY <2>4, <2>5, <2>6 DEF Leads
  <2>8. PICK t : t = <<c, r>>
    OBVIOUS
  <2>9. t \in Seq(Tasks) /\ Len(t) = 2 /\ t[1] = c /\ t[2] = r
    BY <2>4, <2>5, <2>8
  <2>10. \A k \in 1..Len(t) : k = 1 \/ k = 2
    BY <2>9
  <2> QED BY <2>3, <2>7, <2>8, <2>9, <2>10 DEF Led
<1> QED BY <1>1, <1>2

\* What a handler decides.
LEMMA LedPlan ==
    ASSUME NoticeConstants, NoticesInv, NEW u \in 1..Len(inbox)
    PROVE  Led(Notices!Plan(u, inbox[u]))
<1>1. PICK b : b = inbox[u] /\ b \in Written \cup {"none"}
  BY DEF NoticesInv, NoticesTyped
<1>2. PICK tell : tell = Notices!Tell
  OBVIOUS
<1>3. Led(tell) /\ \A k \in 1..Len(tell) : tell[k].do # "comment"
  BY <1>2, LedTell
<1>4. ASSUME prompts # <<>> PROVE Led(Notices!Plan(u, b))
  <2>1. PICK q : q = Notices!Last(prompts)
    OBVIOUS
  <2>2. q \in 1..Len(events) /\ q \in Nat
    <3>1. PICK n : n = Len(events)
      OBVIOUS
    <3>2. prompts \in Seq(1..n)
      BY <3>1 DEF NoticesInv, PromptsStand
    <3>3. Len(prompts) \in 1..Len(prompts)
      BY <1>4, <3>2, Parts
    <3>4. prompts[Len(prompts)] \in 1..n
      BY <3>2, <3>3, ElementOfSeq
    <3> QED BY <2>1, <3>1, <3>4 DEF Notices!Last
  <2>3. PICK close : close = <<Notices!Step("close", 0, q)>>
    OBVIOUS
  <2>4. Led(close) /\ \A k \in 1..Len(close) : close[k].do # "comment"
    <3>1. PICK do \in Doings \ {"handle", "mark", "advance", "comment"} : do = "close" /\ do # "execute"
      BY DEF Doings
    <3>2. 0 \in Ids
      BY DEF Ids
    <3> QED BY <2>2, <2>3, <3>1, <3>2, LedStep
  <2>5. PICK first : first = IF Confirm THEN <<Notices!Step("propose", u, q)>> ELSE Notices!Answering(q, b)
    OBVIOUS
  <2>6. Led(first)
    <3>1. CASE Confirm
      <4>1. PICK do \in Doings \ {"handle", "mark", "advance", "comment"} :
               do = "propose" /\ do # "execute" /\ do # "close"
        BY DEF Doings
      <4>2. u \in Ids
        BY DEF Ids
      <4>3. first = <<Notices!Step(do, u, q)>>
        BY <2>5, <3>1, <4>1
      <4> QED BY <2>2, <4>1, <4>2, <4>3, LedStep
    <3>2. CASE ~Confirm
      BY <1>1, <2>2, <2>5, <3>2, LedAnswer
    <3> QED BY <3>1, <3>2
  <2>7. Led(first \o close)
    BY <2>4, <2>6, LedThen
  <2>8. Led((first \o close) \o tell)
    BY <1>3, <2>7, LedThen
  <2>9. Notices!Plan(u, b) \in {tell, (first \o close) \o tell}
    BY <1>2, <1>4, <2>1, <2>3, <2>5, Zenon DEF Notices!Plan
  <2> QED BY <1>3, <2>8, <2>9
<1>5. ASSUME prompts = <<>>, b # "yes" \/ Notices!LatestPending = 0 PROVE Led(Notices!Plan(u, b))
  BY <1>2, <1>3, <1>5 DEF Notices!Plan
<1>6. ASSUME prompts = <<>>, b = "yes", Notices!LatestPending # 0 PROVE Led(Notices!Plan(u, b))
  <2>1. PICK p : p = Notices!LatestPending
    OBVIOUS
  <2>2. p \in Updates
    <3>1. PICK S : S = {v \in Notices!Updates : pending[v].status \in {"pending", "executing"}}
      OBVIOUS
    <3>2. p = Notices!Latest(S) /\ S # {}
      BY <1>6, <2>1, <3>1 DEF Notices!LatestPending, Notices!Latest
    <3>3. S \in SUBSET (1..MaxUpdates) /\ MaxUpdates \in Nat
      BY <3>1 DEF Notices!Updates, NoticeConstants
    <3> QED BY <3>2, <3>3, LatestIsOne DEF Updates
  <2>3. PICK take : take = IF pending[p].status = "pending" THEN <<Notices!Step("take", p, 0)>> ELSE <<>>
    OBVIOUS
  <2>4. PICK run : run = <<Notices!Step("execute", p, 0)>>
    OBVIOUS
  <2>5. p \in Ids /\ 0 \in Nat
    BY <2>2 DEF Ids, Updates
  <2>6. Led(run) /\ \A k \in 1..Len(run) : run[k].do # "comment"
    <3>1. PICK do \in Doings \ {"handle", "mark", "advance", "comment"} : do = "execute" /\ do # "close"
      BY DEF Doings
    <3> QED BY <2>2, <2>4, <2>5, <3>1, LedStep
  <2>7. Led(take)
    <3>1. PICK do \in Doings \ {"handle", "mark", "advance", "comment"} :
             do = "take" /\ do # "execute" /\ do # "close"
      BY DEF Doings
    <3>2. PICK t : t = <<Notices!Step(do, p, 0)>>
      OBVIOUS
    <3>3. Led(t)
      BY <2>5, <3>1, <3>2, LedStep
    <3> QED BY <2>3, <3>1, <3>2, <3>3, LedNothing
  <2>8. Led(take \o run)
    BY <2>6, <2>7, LedThen
  <2>9. Notices!Plan(u, b) = take \o run
    BY <1>6, <2>1, <2>3, <2>4, Zenon DEF Notices!Plan
  <2> QED BY <2>8, <2>9
<1> QED BY <1>1, <1>4, <1>5, <1>6

\* One handler is amid its steps.
LEMMA AmidAlone ==
    ASSUME NoticesInv, NEW h \in Handlers, Notices!Busy(h), Notices!Now(h).do \notin {"handle", "mark", "advance"}
    PROVE  \A g \in Handlers \ {h} : ~Amid(hand[g])
BY DEF NoticesInv, HandsFull, Amid, Notices!Busy, Notices!Now

\* Of a handler that has work.
LEMMA AtStep ==
    ASSUME NoticesInv, NEW h \in Handlers, Notices!Busy(h)
    PROVE  \E s \in Tasks : /\ s = Notices!Now(h) /\ hand[h].update \in 1..Len(inbox) /\ Unrecorded(s)
                            /\ s.do = "execute" => s.id \in Updates
                            /\ s.do = "close" => s.key \in 1..Len(events)
<1>1. PICK todo : todo = hand[h].todo /\ Remaining(todo) /\ Unrecorded(Head(todo)) /\ hand[h].update \in 1..Len(inbox)
  BY DEF NoticesInv, HandsFull, Notices!Busy
<1>2. Head(todo) \in Tasks /\ Head(todo) = todo[1] /\ 1 \in 1..Len(todo)
  BY <1>1, Parts DEF Remaining
<1>3. Fits(todo[1], 1, Len(todo))
  BY <1>1, <1>2 DEF Remaining
<1> QED BY <1>1, <1>2, <1>3 DEF Fits, Notices!Now

-----------------------------------------------------------------------------

\* A step that leaves texts, events and deliveries alone.
LEMMA HandlerSteps ==
    ASSUME NoticesInv, NEW h \in Handlers, Notices!Busy(h), Notices!Now(h).do # "advance",
           NEW first, Led(first), Notices!Then(h, first), UNCHANGED <<inbox, events, delivery, scan>>,
           \/ first = <<>> /\ Notices!Now(h).do = "mark" /\ UNCHANGED answers
           \/ first = <<>> /\ \A g \in Handlers \ {h} : ~Amid(hand[g])
           \/ UNCHANGED answers /\ \A g \in Handlers \ {h} : ~Amid(hand[g]),
           NoticesTyped', PromptsStand'
    PROVE  NoticesInv'
<1>1. HandsFull'
  BY HandlerGoesOn, Zenon
<1> QED BY <1>1, ScansStay DEF NoticesInv

LEMMA HandlerReceives ==
    ASSUME NoticesInv, NEW h \in Handlers, Notices!Receive(h), UNCHANGED Notices!nvars
    PROVE  NoticesInv'
<1>1. UNCHANGED <<inbox, events, waiting, answers, delivery, watermark, told, prompts, closed, pending, scan>>
  BY DEF Notices!Receive, Notices!nvars
<1>2. PICK u, todo :
         /\ u \in 1..Len(inbox)
         /\ hand' = [hand EXCEPT ![h] = [update |-> u, todo |-> todo]]
         /\ todo \in {Notices!Steps("advance"),
                      Notices!Steps("handle") \o Notices!Steps("mark") \o Notices!Steps("advance")}
  BY Zenon DEF Notices!Receive
<1>3. PICK a, m, f : /\ a = Notices!Step("advance", 0, 0) /\ m = Notices!Step("mark", 0, 0)
                     /\ f = Notices!Step("handle", 0, 0)
  OBVIOUS
<1>4. /\ a \in Tasks /\ m \in Tasks /\ f \in Tasks
      /\ a.do = "advance" /\ m.do = "mark" /\ f.do = "handle"
  BY <1>3 DEF Notices!Step, Tasks, Doings, Ids
<1>5. todo \in {<<a>>, <<f, m, a>>}
  <2>1. <<f>> \o <<m>> = <<f, m>> /\ <<f, m>> \o <<a>> = <<f, m, a>>
    BY ShortLists
  <2> QED BY <1>2, <1>3, <2>1, Zenon DEF Notices!Steps
<1>6. Remaining(todo) /\ Head(todo).do \in {"advance", "handle"}
  <2>1. CASE todo = <<a>>
    <3>1. todo \in Seq(Tasks) /\ todo # <<>> /\ Len(todo) = 1 /\ todo[1] = a
      BY <1>4, <2>1
    <3>2. \A k \in 1..Len(todo) : k = 1
      BY <3>1
    <3>3. Fits(a, 1, 1)
      BY <1>4 DEF Fits
    <3>4. Head(todo) = a
      BY <3>1
    <3> QED BY <1>4, <3>1, <3>2, <3>3, <3>4 DEF Remaining
  <2>2. CASE todo = <<f, m, a>>
    <3>1. /\ todo \in Seq(Tasks) /\ todo # <<>> /\ Len(todo) = 3
          /\ todo[1] = f /\ todo[2] = m /\ todo[3] = a
      BY <1>4, <2>2
    <3>2. \A k \in 1..Len(todo) : k = 1 \/ k = 2 \/ k = 3
      BY <3>1
    <3>3. Fits(f, 1, 3) /\ Fits(m, 2, 3) /\ Fits(a, 3, 3)
      BY <1>4 DEF Fits
    <3>4. Head(todo) = f
      BY <3>1
    <3> QED BY <1>4, <3>1, <3>2, <3>3, <3>4 DEF Remaining
  <2> QED BY <1>5, <2>1, <2>2
<1>7. PICK c : c = [update |-> u, todo |-> todo]
  OBVIOUS
<1>8. c.update = u /\ c.todo = todo /\ c = [update |-> c.update, todo |-> c.todo] /\ ~Amid(c)
  BY <1>6, <1>7 DEF Amid
<1>9. Unrecorded(Head(todo))'
  BY <1>6 DEF Unrecorded
<1>10. HandsFull'
  BY <1>1, <1>2, <1>6, <1>7, <1>8, <1>9, HandGoes DEF NoticesInv
<1> QED BY <1>1, <1>10, TextsStay, ScansStay DEF NoticesInv, NoticesTyped

\* A handler that is done, or gives up.
LEMMA HandlerLeaves ==
    ASSUME NoticesInv, NEW h \in Handlers, hand' = [hand EXCEPT ![h] = Notices!Idle],
           UNCHANGED inbox, UNCHANGED Notices!nvars
    PROVE  NoticesInv'
<1>1. UNCHANGED <<inbox, events, waiting, answers, delivery, watermark, told, prompts, closed, pending, scan>>
  BY DEF Notices!nvars
<1>2. PICK c : c = Notices!Idle
  OBVIOUS
<1>3. c.update = 0 /\ c = [update |-> c.update, todo |-> c.todo] /\ ~Amid(c)
  BY <1>2 DEF Notices!Idle, Amid
<1>4. HandsFull'
  BY <1>1, <1>2, <1>3, HandGoes DEF NoticesInv
<1> QED BY <1>1, <1>4, TextsStay, ScansStay DEF NoticesInv, NoticesTyped

LEMMA HandlerMarks ==
    ASSUME NoticesInv, NEW h \in Handlers, Notices!Mark(h), UNCHANGED Notices!nvars
    PROVE  NoticesInv'
<1>1. UNCHANGED <<inbox, events, waiting, answers, delivery, watermark, told, prompts, closed, pending, scan>>
  BY DEF Notices!Mark, Notices!nvars
<1>2. PICK first : first = <<>>
  OBVIOUS
<1>3. Notices!Busy(h) /\ Notices!Now(h).do = "mark" /\ Notices!Then(h, first)
  BY <1>2 DEF Notices!Mark, Notices!At, Notices!Pop
<1>4. NoticesTyped' /\ PromptsStand'
  BY <1>1, TextsStay DEF NoticesInv, NoticesTyped
<1> QED BY <1>1, <1>2, <1>3, <1>4, LedNothing, HandlerSteps

LEMMA HandlerHandles ==
    ASSUME NoticeConstants, NoticesInv, NEW h \in Handlers, Notices!Handle(h)
    PROVE  NoticesInv'
<1>1. UNCHANGED <<inbox, events, waiting, answers, delivery, watermark, told, prompts, closed, pending, scan>>
  BY DEF Notices!Handle, Notices!nvars, Notices!Same
<1>2. PICK first : first = Notices!Plan(hand[h].update, inbox[hand[h].update])
  OBVIOUS
<1>3. Notices!Busy(h) /\ Notices!Now(h).do = "handle" /\ Notices!Then(h, first)
  BY <1>2 DEF Notices!Handle, Notices!At
<1>4. hand[h].update \in 1..Len(inbox)
  BY <1>3, AtStep
<1>5. Led(first)
  BY <1>2, <1>4, LedPlan
<1>6. \A g \in Handlers \ {h} : ~Amid(hand[g])
  BY DEF Notices!Handle, Amid, Notices!Busy, Notices!Now
<1>7. NoticesTyped' /\ PromptsStand'
  BY <1>1, TextsStay DEF NoticesInv, NoticesTyped
<1> QED BY <1>1, <1>3, <1>5, <1>6, <1>7, HandlerSteps

LEMMA HandlerExecutes ==
    ASSUME NoticeConstants, NoticesInv, NEW h \in Handlers, Notices!Execute(h)
    PROVE  NoticesInv'
<1>1. UNCHANGED <<inbox, events, waiting, answers, delivery, watermark, told, prompts, closed, pending, scan>>
  BY DEF Notices!Execute, Notices!nvars, Notices!Same
<1>2. Notices!Busy(h) /\ Notices!Now(h).do = "execute"
  BY DEF Notices!Execute, Notices!At
<1>3. PICK s \in Tasks : s = Notices!Now(h) /\ s.id \in Updates
  BY <1>2, AtStep
<1>4. PICK p : p = pending[s.id] /\ p.of \in Nat /\ p.body \in Written \cup {"none"}
  BY <1>3 DEF NoticesInv, NoticesTyped
<1>5. PICK answer : answer = Notices!Answering(p.of, p.body)
  OBVIOUS
<1>6. PICK finish : finish = <<Notices!Step("finish", s.id, 0)>>
  OBVIOUS
<1>7. Led(answer)
  BY <1>4, <1>5, LedAnswer
<1>8. Led(finish) /\ \A k \in 1..Len(finish) : finish[k].do # "comment"
  <2>1. PICK do \in Doings \ {"handle", "mark", "advance", "comment"} :
           do = "finish" /\ do # "execute" /\ do # "close"
    BY DEF Doings
  <2>2. s.id \in Ids /\ 0 \in Nat
    BY <1>3 DEF Tasks
  <2> QED BY <1>6, <2>1, <2>2, LedStep
<1>9. PICK tell : tell = Notices!Tell
  OBVIOUS
<1>10. Led((answer \o finish) \o tell)
  <2>1. Led(answer \o finish)
    BY <1>7, <1>8, LedThen
  <2> QED BY <1>9, <2>1, LedTell, LedThen
<1>11. PICK first : first = (answer \o finish) \o tell
  OBVIOUS
<1>12. Notices!Then(h, first)
  BY <1>3, <1>4, <1>5, <1>6, <1>9, <1>11, Zenon DEF Notices!Execute
<1>13. \A g \in Handlers \ {h} : ~Amid(hand[g])
  BY <1>2, AmidAlone
<1>14. NoticesTyped' /\ PromptsStand'
  BY <1>1, TextsStay DEF NoticesInv, NoticesTyped
<1> QED BY <1>1, <1>2, <1>10, <1>11, <1>12, <1>13, <1>14, HandlerSteps

\* A handler that has done a step of its own.
LEMMA HandlerPops ==
    ASSUME NoticesInv, NEW h \in Handlers, Notices!Busy(h), Notices!Pop(h),
           Notices!Now(h).do \notin {"handle", "mark", "advance"},
           UNCHANGED <<inbox, events, delivery, scan>>, NoticesTyped', PromptsStand'
    PROVE  NoticesInv'
<1>1. PICK first : first = <<>>
  OBVIOUS
<1>2. Notices!Then(h, first)
  BY <1>1 DEF Notices!Pop
<1>3. \A g \in Handlers \ {h} : ~Amid(hand[g])
  BY AmidAlone
<1> QED BY <1>1, <1>2, <1>3, LedNothing, HandlerSteps

LEMMA HandlerProposes ==
    ASSUME NoticesInv, NEW h \in Handlers, Notices!Propose(h)
    PROVE  NoticesInv'
<1>1. UNCHANGED <<inbox, events, waiting, answers, delivery, watermark, told, prompts, closed, scan>>
      /\ Notices!Busy(h) /\ Notices!Now(h).do = "propose" /\ Notices!Pop(h)
  BY DEF Notices!Propose, Notices!At, Notices!Same
<1>2. PICK s \in Tasks : s = Notices!Now(h) /\ hand[h].update \in 1..Len(inbox)
  BY <1>1, AtStep
<1>3. PICK r : r = [status |-> "pending", of |-> s.key, body |-> inbox[hand[h].update]]
  OBVIOUS
<1>4. r \in [status : {"none", "pending", "executing", "completed"}, of : Nat, body : Written \cup {"none"}]
  <2>1. inbox[hand[h].update] \in Written
    BY <1>2, ElementOfSeq DEF NoticesInv, NoticesTyped
  <2>2. s.key \in Nat
    BY DEF Tasks
  <2> QED BY <1>3, <2>1, <2>2
<1>5. pending' = [pending EXCEPT ![s.id] = r]
  BY <1>2, <1>3 DEF Notices!Propose
<1>6. NoticesTyped' /\ PromptsStand'
  BY <1>1, <1>4, <1>5, TextsStay DEF NoticesInv, NoticesTyped
<1> QED BY <1>1, <1>6, HandlerPops

LEMMA HandlerSettles ==
    ASSUME NoticesInv, NEW h \in Handlers, NEW do \in {"take", "finish"},
           NEW status \in {"executing", "completed"}, Notices!Settle(h, do, status)
    PROVE  NoticesInv'
<1>1. UNCHANGED <<inbox, events, waiting, answers, delivery, watermark, told, prompts, closed, scan>>
      /\ Notices!Busy(h) /\ Notices!Now(h).do = do /\ Notices!Pop(h)
  BY DEF Notices!Settle, Notices!At, Notices!Same
<1>2. PICK id : id = Notices!Now(h).id
  OBVIOUS
<1>3. pending' = [pending EXCEPT ![id].status = status]
  BY <1>2 DEF Notices!Settle
<1>4. NoticesTyped' /\ PromptsStand'
  BY <1>1, <1>3, TextsStay DEF NoticesInv, NoticesTyped
<1> QED BY <1>1, <1>4, HandlerPops

LEMMA HandlerCloses ==
    ASSUME NoticesInv, NEW h \in Handlers, Notices!Close(h)
    PROVE  NoticesInv'
<1>1. UNCHANGED <<inbox, events, waiting, answers, delivery, watermark, told, pending, scan>>
      /\ Notices!Busy(h) /\ Notices!Now(h).do = "close" /\ Notices!Pop(h)
  BY DEF Notices!Close, Notices!At, Notices!Same
<1>2. PICK q : q = Notices!Now(h).key /\ q \in 1..Len(events)
  BY <1>1, AtStep
<1>3. PICK n : n = Len(events) /\ n = Len(events)'
  BY <1>1
<1>4. PICK s : s = prompts /\ s \in Seq(1..n) /\ (\A i, k \in 1..Len(s) : s[i] = s[k] => i = k)
               /\ \A i \in 1..Len(s) : s[i] \notin closed
  BY <1>3 DEF NoticesInv, PromptsStand
<1>5. PICK t : t = Notices!RemoveFirst(s, q)
  OBVIOUS
<1>6. /\ t \in Seq(1..n) /\ \A i, k \in 1..Len(t) : t[i] = t[k] => i = k
      /\ \A i \in 1..Len(t) : t[i] # q /\ \E k \in 1..Len(s) : t[i] = s[k]
  BY <1>4, <1>5, TakenOut
<1>7. prompts' = t /\ closed' = closed \cup {q}
  BY <1>2, <1>4, <1>5 DEF Notices!Close
<1>8. \A i \in 1..Len(t) : t[i] \notin closed'
  BY <1>4, <1>6, <1>7
<1>9. PromptsStand'
  BY <1>2, <1>3, <1>6, <1>7, <1>8 DEF NoticesInv, PromptsStand
<1> QED BY <1>1, <1>9, HandlerPops DEF NoticesInv, NoticesTyped

LEMMA HandlerRecords ==
    ASSUME NoticesInv, NEW h \in Handlers, Notices!Comment(h)
    PROVE  NoticesInv'
<1>1. UNCHANGED <<inbox, events, waiting, delivery, watermark, told, prompts, closed, pending, scan>>
      /\ Notices!Busy(h) /\ Notices!Now(h).do = "comment" /\ Notices!Pop(h)
  BY DEF Notices!Comment, Notices!At, Notices!Same
<1>2. PICK s \in Tasks : s = Notices!Now(h) /\ Unrecorded(s)
  BY <1>1, AtStep
<1>3. PICK q, b : q = s.key /\ b = s.id /\ (q \in 1..MaxEvents /\ b \in Bodies => answers[q][b] = 0)
  BY <1>1, <1>2 DEF Unrecorded
<1>4. answers' = [answers EXCEPT ![q][b] = IF @ < 2 THEN @ + 1 ELSE @]
  BY <1>2, <1>3 DEF Notices!Comment
<1>5. answers' \in [1..MaxEvents -> [Bodies -> {0, 1}]]
  <2>1. answers \in [1..MaxEvents -> [Bodies -> {0, 1}]]
    BY DEF NoticesInv, NoticesTyped
  <2>2. CASE q \in 1..MaxEvents
    <3>1. PICK a : a = [answers[q] EXCEPT ![b] = IF @ < 2 THEN @ + 1 ELSE @]
      OBVIOUS
    <3>2. a \in [Bodies -> {0, 1}]
      <4>1. PICK f : f = answers[q] /\ f \in [Bodies -> {0, 1}] /\ (b \in Bodies => f[b] = 0)
        BY <1>3, <2>1, <2>2
      <4>2. a = [f EXCEPT ![b] = IF f[b] < 2 THEN f[b] + 1 ELSE f[b]]
        BY <3>1, <4>1
      <4>3. CASE b \in Bodies
        <5>1. a = [f EXCEPT ![b] = 1]
          BY <4>1, <4>2, <4>3
        <5> QED BY <4>1, <5>1
      <4>4. CASE b \notin Bodies
        BY <4>1, <4>2, <4>4
      <4> QED BY <4>3, <4>4
    <3>3. answers' = [answers EXCEPT ![q] = a]
      BY <1>4, <3>1
    <3> QED BY <2>1, <2>2, <3>2, <3>3
  <2>3. CASE q \notin 1..MaxEvents
    BY <1>4, <2>1, <2>3
  <2> QED BY <2>2, <2>3
<1>6. NoticesTyped' /\ PromptsStand'
  BY <1>1, <1>5, TextsStay DEF NoticesInv, NoticesTyped
<1> QED BY <1>1, <1>6, HandlerPops

LEMMA HandlerTells ==
    ASSUME NoticesInv, NEW h \in Handlers, Notices!Resume(h) \/ Notices!Inform(h)
    PROVE  NoticesInv'
<1>1. UNCHANGED <<inbox, events, answers, delivery, watermark, told, prompts, closed, pending, scan>>
      /\ Notices!Busy(h) /\ Notices!Now(h).do \in {"resume", "tell"} /\ Notices!Pop(h)
      /\ waiting' \in {waiting, FALSE}
  BY DEF Notices!Resume, Notices!Inform, Notices!At, Notices!Same, Notices!nvars
<1>2. NoticesTyped' /\ PromptsStand'
  BY <1>1, TextsStay DEF NoticesInv, NoticesTyped
<1> QED BY <1>1, <1>2, HandlerPops

-----------------------------------------------------------------------------

\* A list of numbers up to some is one of numbers up to more.
LEMMA UpToMore ==
    ASSUME NEW n \in Nat, NEW m \in Nat, n <= m, NEW s \in Seq(1..n)
    PROVE  s \in Seq(1..m)
<1>1. Len(s) \in Nat /\ s = [i \in 1..Len(s) |-> s[i]] /\ \A i \in 1..Len(s) : s[i] \in 1..n
  BY LenProperties, ElementOfSeq
<1>2. \A i \in 1..Len(s) : s[i] \in 1..m
  BY <1>1
<1>3. [i \in 1..Len(s) |-> s[i]] \in Seq(1..m)
  BY <1>1, <1>2
<1> QED BY <1>1, <1>3

LEMMA TaskMoves ==
    ASSUME NoticeConstants, NoticesInv, NEW kind \in {"plain", "asks"}, Notices!Happen(kind)
    PROVE  NoticesInv'
<1>1. UNCHANGED <<inbox, hand, answers, delivery, watermark, told, prompts, closed, pending, scan>>
      /\ Len(events) < MaxEvents /\ events' = Append(events, kind) /\ waiting' \in {waiting, TRUE}
  BY DEF Notices!Happen, Notices!uvars, NoticesInv, NoticesTyped
<1>2. PICK n, m : n = Len(events) /\ m = Len(events')
  OBVIOUS
<1>3. events' \in Seq({"plain", "asks"}) /\ m = n + 1 /\ n \in Nat
  BY <1>1, <1>2, AppendProperties, LenProperties DEF NoticesInv, NoticesTyped
<1>4. m \in Nat /\ n <= m /\ m <= MaxEvents /\ \A i \in 1..n : i \in 1..m
  BY <1>1, <1>2, <1>3 DEF NoticeConstants
<1>5. NoticesTyped'
  <2>1. watermark' \in Nat /\ watermark' <= m
    BY <1>1, <1>2, <1>3 DEF NoticesInv, NoticesTyped
  <2> QED BY <1>1, <1>2, <1>3, <1>4, <2>1 DEF NoticesInv, NoticesTyped
<1>6. PromptsStand'
  <2>1. prompts \in Seq(1..n) /\ closed \subseteq 1..n
    BY <1>2 DEF NoticesInv, PromptsStand
  <2>2. prompts \in Seq(1..m)
    BY <1>3, <1>4, <2>1, UpToMore
  <2>3. closed \subseteq 1..m
    BY <1>4, <2>1
  <2> QED BY <1>1, <1>2, <2>2, <2>3 DEF NoticesInv, PromptsStand
<1>7. HandsFull'
  <2>1. ASSUME NEW todo, Remaining(todo) PROVE Remaining(todo)'
    <3>1. ASSUME NEW k \in 1..Len(todo) PROVE Fits(todo[k], k, Len(todo))'
      <4>1. Fits(todo[k], k, Len(todo))
        BY <2>1 DEF Remaining
      <4> QED BY <1>2, <1>4, <4>1 DEF Fits
    <3> QED BY <2>1, <3>1 DEF Remaining
  <2>2. \A h \in Handlers : hand'[h].update # 0 => Remaining(hand[h].todo)'
    BY <1>1, <2>1 DEF NoticesInv, HandsFull
  <2> QED BY <1>1, <2>2 DEF NoticesInv, HandsFull, Unrecorded, Amid
<1>8. ScansStand'
  <2>1. ASSUME NEW s \in Scanners PROVE Scanning(scan[s])'
    <3>1. PICK d : d = scan[s] /\ Scanning(d)
      BY AtScan
    <3>2. d.todo \in Seq(1..m)
      BY <1>2, <1>3, <1>4, <3>1, UpToMore DEF Scanning
    <3>3. d.mark \in Nat /\ d.mark <= m /\ d.open \in Nat /\ d.open <= m
      BY <1>2, <1>3, <3>1 DEF Scanning
    <3> QED BY <1>1, <1>2, <3>1, <3>2, <3>3 DEF Scanning, Sending
  <2> QED BY <1>1, <2>1 DEF NoticesInv, ScansStand, Sending
<1> QED BY <1>5, <1>6, <1>7, <1>8 DEF NoticesInv

LEMMA OthersAnswer ==
    ASSUME NoticesInv, Notices!AnswerElsewhere
    PROVE  NoticesInv'
<1>1. UNCHANGED <<inbox, hand, events, delivery, watermark, told, prompts, closed, pending, scan>>
      /\ waiting' = FALSE
  BY DEF Notices!AnswerElsewhere, Notices!uvars
<1>2. PICK q : answers' = [answers EXCEPT ![q]["elsewhere"] = 1]
  BY DEF Notices!AnswerElsewhere
<1>3. answers' \in [1..MaxEvents -> [Bodies -> {0, 1}]]
  BY <1>2 DEF NoticesInv, NoticesTyped
<1>4. ASSUME NEW p \in 1..MaxEvents, NEW b \in Bodies, b # "elsewhere" PROVE answers'[p][b] = answers[p][b]
  BY <1>2, <1>4 DEF NoticesInv, NoticesTyped
<1>5. ASSUME NEW s, Unrecorded(s) PROVE Unrecorded(s)'
  BY <1>4, <1>5 DEF Unrecorded
<1>6. HandsFull'
  <2>1. \A h \in Handlers : hand'[h].update # 0 => Unrecorded(Head(hand[h].todo))'
    BY <1>1, <1>5 DEF NoticesInv, HandsFull
  <2> QED BY <1>1, <2>1 DEF NoticesInv, HandsFull, Remaining, Fits, Amid
<1> QED BY <1>1, <1>3, <1>6, TextsStay, ScansStay DEF NoticesInv, NoticesTyped

LEMMA PeopleWrite ==
    ASSUME NoticeConstants, NoticesInv, Notices!SaySomething
    PROVE  NoticesInv'
<1>1. UNCHANGED <<hand, events, waiting, answers, delivery, watermark, told, prompts, closed, pending, scan>>
  BY DEF Notices!SaySomething, Notices!Arrive, Notices!nvars
<1>2. PICK b \in Written : Len(inbox) < MaxUpdates /\ inbox' = Append(inbox, b)
  BY DEF Notices!SaySomething, Notices!Arrive, Written
<1>3. inbox' \in Seq(Written) /\ Len(inbox') = Len(inbox) + 1 /\ Len(inbox) \in Nat
  BY <1>2, AppendProperties, LenProperties DEF NoticesInv, NoticesTyped
<1>4. Len(inbox') <= MaxUpdates /\ \A i \in 1..Len(inbox) : i \in 1..Len(inbox')
  BY <1>2, <1>3 DEF NoticeConstants
<1>5. NoticesTyped'
  BY <1>1, <1>3, <1>4 DEF NoticesInv, NoticesTyped
<1>6. HandsFull'
  BY <1>1, <1>4 DEF NoticesInv, HandsFull, Remaining, Fits, Unrecorded, Amid
<1> QED BY <1>1, <1>5, <1>6, TextsStay, ScansStay DEF NoticesInv

LEMMA ChatResubscribes ==
    ASSUME NoticesInv, Notices!Resubscribe
    PROVE  NoticesInv'
<1>1. UNCHANGED <<inbox, hand, events, waiting, answers, delivery, told, prompts, closed, pending, scan>>
      /\ watermark' = 0
  BY DEF Notices!Resubscribe, Notices!uvars
<1>2. Len(events) \in Nat
  BY LenProperties DEF NoticesInv, NoticesTyped
<1> QED BY <1>1, <1>2, TextsStay, HandsStay, ScansStay DEF NoticesInv, NoticesTyped

LEMMA ProcessDies ==
    ASSUME NoticesInv, Notices!CrashOne
    PROVE  NoticesInv'
<1>1. UNCHANGED <<inbox, events, waiting, answers, delivery, watermark, told, prompts, closed, pending>>
      /\ hand' \in {hand, [h \in Handlers |-> Notices!Idle]}
  BY DEF Notices!CrashOne
<1>2. PICK s \in Scanners : scan' = [scan EXCEPT ![s] = Notices!NoScan]
  BY DEF Notices!CrashOne
<1>3. HandsFull'
  <2>1. CASE hand' = hand
    BY <1>1, <2>1, HandsStay
  <2>2. CASE hand' = [h \in Handlers |-> Notices!Idle]
    BY <2>2 DEF HandsFull, Notices!Idle, Amid
  <2> QED BY <1>1, <2>1, <2>2
<1>4. PICK c : c = Notices!NoScan
  OBVIOUS
<1>5. Scanning(c)' /\ ~Sending(c)
  <2>1. PICK d : d = scan[s] /\ Scanning(d) /\ Len(events) \in Nat /\ Len(events) <= MaxEvents
    BY AtScan
  <2> QED BY <1>1, <1>4, <2>1 DEF Scanning, Sending, Notices!NoScan
<1>6. ScansStand'
  BY <1>1, <1>2, <1>4, <1>5, OtherScans, ScanGoesOn DEF NoticesInv
<1> QED BY <1>1, <1>3, <1>6, TextsStay DEF NoticesInv, NoticesTyped

LEMMA NoticesBegin ==
    ASSUME NoticeConstants, Notices!Init
    PROVE  NoticesInv
<1>1. NoticesTyped
  <2>1. /\ inbox = <<>> /\ events = <<>> /\ waiting = FALSE /\ watermark = 0
        /\ answers = [q \in 1..MaxEvents |-> [b \in Bodies |-> 0]]
        /\ delivery = [e \in 1..MaxEvents |-> "none"] /\ told = [e \in 1..MaxEvents |-> 0]
        /\ pending = [u \in Updates |-> [status |-> "none", of |-> 0, body |-> "none"]]
    BY DEF Notices!Init, Notices!Events, Notices!Updates, Updates
  <2>2. inbox \in Seq(Written) /\ events \in Seq({"plain", "asks"}) /\ Len(inbox) = 0 /\ Len(events) = 0
    BY <2>1
  <2>3. Len(inbox) <= MaxUpdates /\ Len(events) <= MaxEvents /\ watermark \in Nat /\ watermark <= Len(events)
    BY <2>1, <2>2 DEF NoticeConstants
  <2>4. answers \in [1..MaxEvents -> [Bodies -> {0, 1}]]
    BY <2>1
  <2>5. delivery \in [1..MaxEvents -> {"none", "sending", "stale", "sent"}] /\ told \in [1..MaxEvents -> {0, 1, 2}]
    BY <2>1
  <2>6. pending \in [Updates -> [status : {"none", "pending", "executing", "completed"}, of : Nat,
                                 body : Written \cup {"none"}]]
    BY <2>1
  <2> QED BY <2>1, <2>2, <2>3, <2>4, <2>5, <2>6 DEF NoticesTyped
<1>2. PromptsStand
  <2>1. prompts = <<>> /\ closed = {}
    BY DEF Notices!Init
  <2> QED BY <2>1 DEF PromptsStand
<1>3. HandsFull
  BY DEF Notices!Init, Notices!UpdatesInit, Notices!Idle, HandsFull, Amid
<1>4. ScansStand
  <2>1. events = <<>> /\ scan = [s \in Scanners |-> Notices!NoScan]
    BY DEF Notices!Init
  <2>2. PICK c : c = Notices!NoScan
    OBVIOUS
  <2>3. c = [at |-> "none", mark |-> 0, todo |-> <<>>, open |-> 0] /\ Len(events) = 0
    BY <2>1, <2>2 DEF Notices!NoScan
  <2>4. Scanning(c) /\ ~Sending(c)
    BY <2>3 DEF Scanning, Sending
  <2> QED BY <2>1, <2>2, <2>4 DEF ScansStand
<1> QED BY <1>1, <1>2, <1>3, <1>4 DEF NoticesInv

LEMMA NoticesGoOn ==
    ASSUME NoticeConstants, NoticesInv, [Notices!Next]_Notices!vars
    PROVE  NoticesInv'
<1>1. ASSUME NEW s \in Scanners, Notices!Scan(s) \/ Notices!FailToSend(s) PROVE NoticesInv'
  BY <1>1, ScansBegin, ScansReserve, ScansSend, ScansPrompt, ScansRecord, ScansFail DEF Notices!Scan
<1>2. ASSUME NEW e \in Notices!Events, Notices!BecomeStale(e) PROVE NoticesInv'
  BY <1>2, ScansStale
<1>3. ASSUME NEW h \in Handlers, Notices!Work(h) PROVE NoticesInv'
  <2>1. CASE Notices!Receive(h) /\ UNCHANGED Notices!nvars
    BY <2>1, HandlerReceives
  <2>2. CASE Notices!Mark(h) /\ UNCHANGED Notices!nvars
    BY <2>2, HandlerMarks
  <2>3. CASE Notices!Advance(h) /\ UNCHANGED Notices!nvars
    <3>1. hand' = [hand EXCEPT ![h] = Notices!Idle] /\ UNCHANGED inbox
      BY <2>3 DEF Notices!Advance
    <3> QED BY <2>3, <3>1, HandlerLeaves
  <2>4. CASE Notices!Settle(h, "take", "executing")
    <3>1. PICK do \in {"take", "finish"}, status \in {"executing", "completed"} :
             do = "take" /\ status = "executing"
      OBVIOUS
    <3> QED BY <2>4, <3>1, HandlerSettles
  <2>5. CASE Notices!Settle(h, "finish", "completed")
    <3>1. PICK do \in {"take", "finish"}, status \in {"executing", "completed"} :
             do = "finish" /\ status = "completed"
      OBVIOUS
    <3> QED BY <2>5, <3>1, HandlerSettles
  <2>6. CASE Notices!Handle(h) \/ Notices!Propose(h) \/ Notices!Close(h) \/ Notices!Execute(h)
               \/ Notices!Comment(h) \/ Notices!Resume(h) \/ Notices!Inform(h)
    BY <2>6, HandlerHandles, HandlerProposes, HandlerCloses, HandlerExecutes, HandlerRecords, HandlerTells
  <2> QED BY <1>3, <2>1, <2>2, <2>3, <2>4, <2>5, <2>6 DEF Notices!Work
<1>4. ASSUME NEW h \in Handlers, Notices!FailToTell(h) PROVE NoticesInv'
  <2>1. hand' = [hand EXCEPT ![h] = Notices!Idle] /\ UNCHANGED inbox /\ UNCHANGED Notices!nvars
    BY <1>4 DEF Notices!FailToTell, Notices!Fail
  <2> QED BY <2>1, HandlerLeaves
<1>5. ASSUME NEW kind \in {"plain", "asks"}, Notices!Happen(kind) PROVE NoticesInv'
  BY <1>5, TaskMoves
<1>6. ASSUME Notices!AnswerElsewhere \/ Notices!Resubscribe \/ Notices!SaySomething \/ Notices!CrashOne
      PROVE  NoticesInv'
  BY <1>6, OthersAnswer, ChatResubscribes, PeopleWrite, ProcessDies
<1>7. CASE UNCHANGED Notices!vars
  <2>1. UNCHANGED <<inbox, hand, events, waiting, answers, delivery, watermark, told, prompts, closed, pending, scan>>
    BY <1>7 DEF Notices!vars, Notices!uvars, Notices!nvars
  <2> QED BY <2>1, TextsStay, HandsStay, ScansStay DEF NoticesInv, NoticesTyped
<1> QED BY <1>1, <1>2, <1>3, <1>4, <1>5, <1>6, <1>7 DEF Notices!Next

\* What the notices of a task and the answers to its questions rest on, whatever the number
\* of processes, updates and events, with a webhook or by polling: an open prompt is of a
\* question that has no closed prompt, one handler at a time is between what it decided and
\* the end of it, an answer it is about to record is not recorded yet, and no two scans send
\* one event (notificationRouter.ts, service.ts and postgresStore.ts of telegramAssistant).
THEOREM NoticesInvariant ==
    ASSUME NoticeConstants
    PROVE  Notices!Spec => []NoticesInv
<1>1. Notices!Init => NoticesInv
  BY NoticesBegin
<1>2. NoticesInv /\ [Notices!Next]_Notices!vars => NoticesInv'
  BY NoticesGoOn
<1> QED BY <1>1, <1>2, PTL DEF Notices!Spec

\* Its variables keep their types: the watermark, the prompts and the deliveries are of
\* events that happened.
THEOREM NoticesTypes ==
    ASSUME NoticeConstants
    PROVE  Notices!Spec => []Notices!TypeOK
<1>1. NoticesInv => Notices!TypeOK
  <2>1. SUFFICES ASSUME NoticesInv PROVE Notices!TypeOK
    OBVIOUS
  <2>2. PICK n : n = Len(events)
    OBVIOUS
  <2>3. n \in Nat /\ watermark \in 0..n
    BY <2>1, <2>2, LenProperties DEF NoticesInv, NoticesTyped
  <2>4. answers \in [1..MaxEvents -> [Bodies -> 0..2]]
    <3>1. answers \in [1..MaxEvents -> [Bodies -> {0, 1}]]
      BY <2>1 DEF NoticesInv, NoticesTyped
    <3>2. [Bodies -> {0, 1}] \subseteq [Bodies -> 0..2]
      OBVIOUS
    <3> QED BY <3>1, <3>2
  <2>5. told \in [1..MaxEvents -> 0..2]
    BY <2>1 DEF NoticesInv, NoticesTyped
  <2>6. Notices!ToSet(prompts) \cup closed \subseteq 1..n
    <3>1. prompts \in Seq(1..n) /\ closed \subseteq 1..n
      BY <2>1, <2>2 DEF NoticesInv, PromptsStand
    <3>2. \A i \in DOMAIN prompts : prompts[i] \in 1..n
      BY <3>1, ElementOfSeq, LenProperties
    <3> QED BY <3>1, <3>2 DEF Notices!ToSet
  <2>7. \A u \in Updates : pending[u].status \in {"none", "pending", "executing", "completed"}
    BY <2>1 DEF NoticesInv, NoticesTyped
  <2>8. /\ events \in Seq({"plain", "asks"}) /\ Len(events) <= MaxEvents /\ waiting \in BOOLEAN
        /\ delivery \in [1..MaxEvents -> {"none", "sending", "stale", "sent"}]
    BY <2>1 DEF NoticesInv, NoticesTyped
  <2> QED BY <2>2, <2>3, <2>4, <2>5, <2>6, <2>7, <2>8
          DEF Notices!TypeOK, Notices!Events, Notices!Updates, Updates
<1> QED BY <1>1, NoticesInvariant, PTL

\* A prompt that was answered does not take texts again, although a notice may be sent anew
\* after a crash (upsertActiveTaskQuestionPrompt, consumeActiveTaskQuestionPrompt).
THEOREM PromptsStay ==
    ASSUME NoticeConstants
    PROVE  Notices!Spec => []Notices!AnsweredPromptStays
<1>1. NoticesInv => Notices!AnsweredPromptStays
  <2>1. SUFFICES ASSUME NoticesInv PROVE Notices!AnsweredPromptStays
    OBVIOUS
  <2>2. \A i \in DOMAIN prompts : prompts[i] \notin closed
    BY <2>1, LenProperties DEF NoticesInv, PromptsStand
  <2> QED BY <2>2 DEF Notices!AnsweredPromptStays, Notices!ToSet
<1> QED BY <1>1, NoticesInvariant, PTL

\* An answer is recorded once, however often the reply or the yes to it is delivered, and
\* wherever a handler was when its process died (hasRecordedTelegramAnswer).
THEOREM AnswersOnce ==
    ASSUME NoticeConstants
    PROVE  Notices!Spec => []Notices!AnswerRecordedOnce
<1>1. NoticesInv => Notices!AnswerRecordedOnce
  <2>1. SUFFICES ASSUME NoticesInv, NEW q \in 1..MaxEvents, NEW b \in Bodies PROVE answers[q][b] <= 1
    BY DEF Notices!AnswerRecordedOnce, Notices!Events
  <2>2. answers \in [1..MaxEvents -> [Bodies -> {0, 1}]]
    BY <2>1 DEF NoticesInv, NoticesTyped
  <2>3. answers[q] \in [Bodies -> {0, 1}]
    BY <2>2
  <2>4. answers[q][b] \in {0, 1}
    BY <2>3
  <2> QED BY <2>4
<1> QED BY <1>1, NoticesInvariant, PTL

\* A notice whose delivery is recorded is not sent again by any process, whatever each scan
\* read before (reserveNotificationDelivery, completeNotificationDelivery).
THEOREM SentOnce ==
    ASSUME NoticeConstants
    PROVE  Notices!Spec => Notices!RecordedIsNotRepeated
<1>1. NoticesInv /\ [Notices!Next]_Notices!vars => [Notices!RepeatsNothing]_Notices!vars
  <2>1. SUFFICES ASSUME NoticesInv, Notices!Next, NEW e \in Notices!Events, delivery[e] = "sent"
                 PROVE  told'[e] = told[e]
    BY DEF Notices!RepeatsNothing
  <2>2. CASE UNCHANGED told
    BY <2>2
  <2>3. ASSUME NEW s \in Scanners, Notices!Send(s) \/ Notices!FailToSend(s) PROVE told'[e] = told[e]
    <3>1. told' \in {told, [told EXCEPT ![Notices!Event(s)] = IF @ < 2 THEN @ + 1 ELSE @]} /\ Sending(scan[s])
      BY <2>3 DEF Notices!Send, Notices!FailToSend, Sending
    <3>2. PICK f \in 1..MaxEvents : f = Notices!Event(s) /\ delivery[f] = "sending"
      BY <2>1, <3>1, AtHand
    <3>3. e # f
      BY <2>1, <3>2
    <3> QED BY <2>1, <3>1, <3>2, <3>3 DEF NoticesInv, NoticesTyped, Notices!Events
  <2>4. \/ UNCHANGED told
        \/ \E s \in Scanners : Notices!Send(s) \/ Notices!FailToSend(s)
    <3>1. ASSUME NEW s \in Scanners, Notices!Scan(s) PROVE UNCHANGED told \/ Notices!Send(s)
      BY <3>1 DEF Notices!Scan, Notices!StartScan, Notices!ReadTask, Notices!Reserve, Notices!OpenPrompt,
                  Notices!Record
    <3>2. ASSUME NEW h \in Handlers, Notices!Work(h) \/ Notices!FailToTell(h) PROVE UNCHANGED told
      BY <3>2 DEF Notices!Work, Notices!FailToTell, Notices!nvars, Notices!Handle, Notices!Propose, Notices!Close,
                  Notices!Settle, Notices!Execute, Notices!Comment, Notices!Resume, Notices!Inform
    <3>3. ASSUME \/ \E f \in Notices!Events : Notices!BecomeStale(f)
                 \/ \E kind \in {"plain", "asks"} : Notices!Happen(kind)
                 \/ Notices!AnswerElsewhere \/ Notices!Resubscribe \/ Notices!SaySomething \/ Notices!CrashOne
          PROVE  UNCHANGED told
      BY <3>3 DEF Notices!BecomeStale, Notices!Happen, Notices!AnswerElsewhere, Notices!Resubscribe,
                  Notices!SaySomething, Notices!CrashOne, Notices!nvars
    <3> QED BY <2>1, <3>1, <3>2, <3>3 DEF Notices!Next
  <2> QED BY <2>2, <2>3, <2>4
<1> QED BY <1>1, NoticesInvariant, PTL DEF Notices!Spec, Notices!RecordedIsNotRepeated
=============================================================================
