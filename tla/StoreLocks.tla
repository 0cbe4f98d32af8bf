----------------------------- MODULE StoreLocks -----------------------------
(***************************************************************************)
(* The locks of the Telegram assistant's stores, one inside the other: of  *)
(* an update, of its conversation, of the digital twin's session there,    *)
(* and around all of them the lease of the process that polls.             *)
(*                                                                         *)
(* In memory (domain/telegramAssistant/store.ts) a lock is a chain of      *)
(* promises: who comes waits for the promise the map has, and leaves one   *)
(* of its own.  In PostgreSQL (postgresStore.ts) it is an advisory lock of *)
(* a connection, which is taken from the pool of the process before the    *)
(* lock is waited for and given back after it; what is done inside takes   *)
(* further connections from the same pool.                                 *)
(*                                                                         *)
(* A definition whose name has a suffix after an underscore is a seeded    *)
(* fault of the definition below it; no specification uses it.             *)
(***************************************************************************)
EXTENDS Naturals, Sequences, FiniteSets, SequencesExt, Functions

CONSTANTS
    Memory,     \* which store
    Callers,    \* handlers of updates, each runs once: [process, update, talk, kind],
                \* kind "message", "business" or "poll"
    Pool,       \* connections of a process
    MaxFaults   \* bound: operations that fail, processes that die

VARIABLES
    todo,       \* what each caller has still to do
    phase,      \* "new", "ready", "connected" (waits for the lock), "chained", "done", "dead"
    inside,     \* locks each caller is inside of, the last one innermost
    links,      \* promises: for each caller and lock, the caller it waits for
    tail,       \* the map of promises
    asked,      \* of each lock, who asked for it and is not past it, in order
    marked,     \* updates on record as processed
    handled,    \* times an update's handler went through
    faults

vars == <<todo, phase, inside, links, tail, asked, marked, handled, faults>>

Nobody == [process |-> 0, update |-> 0, talk |-> 0, kind |-> "none"]

\* Names of locks.
LeaseKey     == <<"lease", 0>>
UpdateKey(c) == <<"update", c.update>>
TalkKey(c)   == <<"talk", c.talk>>
TwinKey_Talk(c) == TalkKey(c)
TwinKey(c)   == <<"twin", c.talk>>
Keys == {LeaseKey} \cup UNION {{UpdateKey(c), TalkKey(c), TwinKey(c)} : c \in Callers}

Step(do, key) == [do |-> do, key |-> key]
Around(key, steps) == <<Step("lock", key)>> \o steps \o <<Step("unlock", key)>>
Query == <<Step("query", LeaseKey)>>

\* handleUnprocessedUpdate: the conversation is let go before the update is marked.
Handler(c) == Around(TalkKey(c), IF c.kind = "business" THEN Around(TwinKey(c), Query) ELSE Query) \o <<Step("mark", UpdateKey(c))>>
Plan(c) ==
    LET update == Around(UpdateKey(c), <<Step("check", UpdateKey(c))>> \o Handler(c))
    IN  IF c.kind = "poll" THEN Around(LeaseKey, update) ELSE update

Now(c)  == Head(todo[c])
At(c, do) == phase[c] = "ready" /\ todo[c] # <<>> /\ Now(c).do = do
Pop(c)  == todo' = [todo EXCEPT ![c] = Tail(@)]
\* `finally`: the locks the caller is inside of are let go.
LetGo(c) == [i \in DOMAIN inside[c] |-> Step("unlock", Reverse(inside[c])[i])]

Mates(c) == {d \in Callers : d.process = c.process}
\* A lock, or the wait for one, holds a connection; nothing does in memory.
Held(c) == Len(inside[c]) + IF phase[c] = "connected" THEN 1 ELSE 0
Sum(S) == FoldLeft(LAMBDA n, c : n + Held(c), 0, SetToSeq(S))
Free(c) == Pool - Sum(Mates(c))
MayConnect(c) == Memory \/ Free(c) > 0
Owner(key) == {c \in Callers : \E i \in DOMAIN inside[c] : inside[c][i] = key}

Arrive(c) ==
    /\ phase[c] = "new"
    /\ phase' = [phase EXCEPT ![c] = "ready"]
    /\ UNCHANGED <<todo, inside, links, tail, asked, marked, handled, faults>>

-----------------------------------------------------------------------------
(* A chain of promises *)

\* The promise that is put into the map is over when its caller, and the one it
\* waits for, are through; the caller that finds none goes in.
Chain(c) ==
    /\ Memory /\ At(c, "lock") /\ Now(c).key # LeaseKey
    /\ LET key == Now(c).key
       IN  /\ tail' = [tail EXCEPT ![key] = c]
           /\ links' = [links EXCEPT ![<<c, key>>] = tail[key]]
           /\ asked' = [asked EXCEPT ![key] = Append(@, c)]
    /\ phase' = [phase EXCEPT ![c] = "chained"]
    /\ UNCHANGED <<todo, inside, marked, handled, faults>>

\* Through: past the lock, or never in it.
Through(d, key) == d = Nobody \/ \A i \in DOMAIN asked[key] : asked[key][i] # d
GoIn(c) ==
    /\ \/ phase[c] = "chained" /\ Through(links[<<c, Now(c).key>>], Now(c).key)
       \/ Memory /\ At(c, "lock") /\ Now(c).key = LeaseKey    \* withPollingLease asks nobody
    /\ inside' = [inside EXCEPT ![c] = Append(@, Now(c).key)]
    /\ Pop(c) /\ phase' = [phase EXCEPT ![c] = "ready"]
    /\ UNCHANGED <<links, tail, asked, marked, handled, faults>>

\* The map forgets the promise where no other has been put there since.
Forget(c, key) == IF tail[key] = c THEN Nobody ELSE tail[key]
Leave(c) ==
    /\ Memory /\ At(c, "unlock")
    /\ LET key == Now(c).key
       IN  /\ tail' = [tail EXCEPT ![key] = Forget(c, key)]
           /\ asked' = [asked EXCEPT ![key] = SelectSeq(@, LAMBDA d : d # c)]
           /\ inside' = [inside EXCEPT ![c] = Front(@)]
    /\ Pop(c)
    /\ UNCHANGED <<phase, links, marked, handled, faults>>

-----------------------------------------------------------------------------
(* Advisory locks *)

\* A connection is taken before the lock is asked for.
Connect(c) ==
    /\ ~Memory /\ At(c, "lock") /\ Free(c) > 0
    /\ phase' = [phase EXCEPT ![c] = "connected"]
    /\ UNCHANGED <<todo, inside, links, tail, asked, marked, handled, faults>>

Grant(c) ==
    /\ phase[c] = "connected" /\ Owner(Now(c).key) = {}
    /\ inside' = [inside EXCEPT ![c] = Append(@, Now(c).key)]
    /\ Pop(c) /\ phase' = [phase EXCEPT ![c] = "ready"]
    /\ UNCHANGED <<links, tail, asked, marked, handled, faults>>

\* withPollingLease tries: who does not get it comes back another time.
Refuse(c) ==
    /\ phase[c] = "connected" /\ Now(c).key = LeaseKey /\ Owner(LeaseKey) # {}
    /\ phase' = [phase EXCEPT ![c] = "ready"]
    /\ UNCHANGED <<todo, inside, links, tail, asked, marked, handled, faults>>

\* The lock and its connection are let go together.
Unlocked_Kept(c) == inside[c]
Unlocked(c) == Front(inside[c])
Unlock(c) ==
    /\ ~Memory /\ At(c, "unlock")
    /\ inside' = [inside EXCEPT ![c] = Unlocked(c)]
    /\ Pop(c)
    /\ UNCHANGED <<phase, links, tail, asked, marked, handled, faults>>

-----------------------------------------------------------------------------
(* What is done inside *)

\* withUpdateProcessing looks, on the connection that has the lock, whether the
\* update is on record.
Check(c) == c.update \in marked
Look(c) ==
    /\ At(c, "check")
    /\ todo' = [todo EXCEPT ![c] = IF Check(c) THEN LetGo(c) ELSE Tail(@)]
    /\ UNCHANGED <<phase, inside, links, tail, asked, marked, handled, faults>>

\* Any other query takes a connection of its own, and gives it back.
Work(c) ==
    /\ At(c, "query") /\ MayConnect(c)
    /\ Pop(c)
    /\ UNCHANGED <<phase, inside, links, tail, asked, marked, handled, faults>>

Mark(c) ==
    /\ At(c, "mark") /\ MayConnect(c)
    /\ marked' = marked \cup {c.update}
    /\ handled' = [handled EXCEPT ![c.update] = @ + 1]
    /\ Pop(c)
    /\ UNCHANGED <<phase, inside, links, tail, asked, faults>>

Done(c) ==
    /\ phase[c] = "ready" /\ todo[c] = <<>>
    /\ phase' = [phase EXCEPT ![c] = "done"]
    /\ UNCHANGED <<todo, inside, links, tail, asked, marked, handled, faults>>

\* The handler throws.
Fail(c) ==
    /\ At(c, "query") \/ At(c, "mark") \/ At(c, "check")
    /\ faults < MaxFaults /\ faults' = faults + 1
    /\ todo' = [todo EXCEPT ![c] = LetGo(c)]
    /\ UNCHANGED <<phase, inside, links, tail, asked, marked, handled>>

\* A process dies, and its connections and locks with it.
Die(c) ==
    /\ ~Memory /\ faults < MaxFaults /\ faults' = faults + 1
    /\ phase' = [d \in Callers |-> IF d \in Mates(c) THEN "dead" ELSE phase[d]]
    /\ inside' = [d \in Callers |-> IF d \in Mates(c) THEN <<>> ELSE inside[d]]
    /\ UNCHANGED <<todo, links, tail, asked, marked, handled>>

Init ==
    /\ todo = [c \in Callers |-> Plan(c)]
    /\ phase = [c \in Callers |-> "new"]
    /\ inside = [c \in Callers |-> <<>>]
    /\ links = [x \in Callers \X Keys |-> Nobody]
    /\ tail = [k \in Keys |-> Nobody]
    /\ asked = [k \in Keys |-> <<>>]
    /\ marked = {} /\ handled = [u \in {c.update : c \in Callers} |-> 0] /\ faults = 0

Go(c) == \/ Chain(c) \/ GoIn(c) \/ Leave(c) \/ Connect(c) \/ Grant(c) \/ Unlock(c)
         \/ Look(c) \/ Work(c) \/ Mark(c) \/ Done(c)
Next == \E c \in Callers : Arrive(c) \/ Go(c) \/ Refuse(c) \/ Fail(c) \/ Die(c)

Spec == Init /\ [][Next]_vars

-----------------------------------------------------------------------------
(* Properties *)

\* The state is of the right shape.
TypeOK ==
    /\ phase \in [Callers -> {"new", "ready", "connected", "chained", "done", "dead"}]
    /\ \A c \in Callers : Range(inside[c]) \subseteq Keys /\ (Memory \/ Free(c) \in 0..Pool)
    /\ tail \in [Keys -> Callers \cup {Nobody}] /\ faults \in 0..MaxFaults

\* At most one caller is inside a lock, and no update is handled twice, however
\* often and to whomever it is delivered.
OneInside == \A key \in Keys : (Memory /\ key = LeaseKey) \/ Cardinality(Owner(key)) <= 1
HandledOnce == \A u \in DOMAIN handled : handled[u] <= 1

\* In memory callers get a lock in the order in which they asked for it.
InOrder == \A key \in Keys : \A c \in Owner(key) : asked[key] # <<>> => Head(asked[key]) = c

\* Nothing is left behind: no promise in the map, no lock and no connection.
NothingLeft ==
    (\A c \in Callers : phase[c] \in {"new", "done", "dead"}) =>
        /\ \A key \in Keys : tail[key] = Nobody /\ Owner(key) = {}
        /\ Memory \/ \A c \in Callers : Free(c) = Pool

\* Callers wait for one another for ever only where those of one process could
\* hold all its connections by their locks; then they can, and nothing ends it.
Busy == {c \in Callers : phase[c] \in {"ready", "connected", "chained"}}
CanGo(c) ==
    CASE phase[c] = "chained"   -> Through(links[<<c, Now(c).key>>], Now(c).key)
      [] phase[c] = "connected" -> Owner(Now(c).key) = {} \/ Now(c).key = LeaseKey
      [] OTHER -> todo[c] = <<>> \/ Now(c).do \in {"check", "unlock"} \/ MayConnect(c)
Nest(c) == Cardinality({i \in DOMAIN Plan(c) : Plan(c)[i].do = "lock"})
WedgedByPool ==
    Busy # {} /\ (\A c \in Busy : ~CanGo(c)) =>
        \E c \in Busy : ~Memory /\ FoldLeft(LAMBDA n, d : n + Nest(d), 0, SetToSeq(Busy \cap Mates(c))) >= Pool

\* What the locks of the assistant owe the messages they are taken for.
LocksAreSound == OneInside /\ HandledOnce /\ InOrder /\ NothingLeft /\ WedgedByPool

=============================================================================
