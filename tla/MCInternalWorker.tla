-------------------------- MODULE MCInternalWorker --------------------------
(***************************************************************************)
(* Small instances of InternalWorker: one or two workers, one task or two  *)
(* of one repository, and per run the verdicts, people and faults that     *)
(* matter.  Workers are alike, and so are tasks of equal rank.  What may   *)
(* go wrong, and what people do, happens a bounded number of times: a      *)
(* behaviour here is one of InternalWorker.                                *)
(***************************************************************************)
EXTENDS InternalWorker, TLC

CONSTANTS w1, w2, t1, t2

CONSTANT MaxEvents     \* bound: errors, crashes, and what people do, in all

VARIABLE events

boundedVars == <<vars, events>>

TwoWorkers == {w1, w2}
OneWorker  == {w1}
OneTask    == {t1}
TwoTasks   == {t1, t2}
OneRepo    == [t \in Tasks |-> "r1"]
Equal      == [t \in Tasks |-> 0]
Alike      == Permutations(TwoWorkers) \cup Permutations(TwoTasks)

Disturbance ==
    \/ \E w \in Workers : Fault(w)
    \/ \E t \in Tasks : \/ \E a \in Answers : Answer(t, a)
                        \/ \E s \in Commands : Command(t, s)
                        \/ \E r \in Reviews : Review(t, r)

ByItself ==
    \/ \E w \in Workers : Cycle(w) \/ Process(w) \/ Restart(w) \/ Heartbeat(w)
    \/ \E t \in Tasks : AnswerReads(t) \/ AnswerWakes(t)
    \/ Tick

BoundedInit == Init /\ events = 0

BoundedNext ==
    \/ ByItself /\ UNCHANGED events
    \/ Disturbance /\ events < MaxEvents /\ events' = events + 1

BoundedSpec == BoundedInit /\ [][BoundedNext]_boundedVars

BoundedFairSpec == BoundedSpec /\ Fairness
=============================================================================
