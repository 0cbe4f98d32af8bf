-------------------------------- MODULE Fleet --------------------------------
(***************************************************************************)
(* Several fleet workers over one Yandex Tracker                           *)
(* (src/domain/fleetOrchestrator.ts), which keep out of each other's way   *)
(* by leases written as comments (src/domain/lockBackend.ts,               *)
(* src/integrations/tracker/commentProtocol.ts): a lease on the issue and  *)
(* one on the checkout, both in comments of the issue.                     *)
(*                                                                         *)
(* Only the latest lease comment of an issue and a kind is ever looked at, *)
(* so lease holds that one; a token is the worker and a bit that changes   *)
(* with every new lease of its kind.  Time is left out: a lease runs out   *)
(* when its worker no longer keeps it, or, as a fault, when it does not    *)
(* get round to renewing it.  The searches of one poll are one step, and   *)
(* the work on an issue is two: DirectWorker has what lies between them.   *)
(*                                                                         *)
(* A definition whose name has a suffix after an underscore is a seeded    *)
(* fault of the definition below it; no specification uses it.             *)
(***************************************************************************)
EXTENDS Naturals, FiniteSets

CONSTANTS
    Workers, NoWorker,
    Gone,         \* a worker that is not started again
    Issues,       \* numbers, in the order of the search
    Rank,         \* place of each issue by its score
    Checkout,     \* of the repository of each issue
    Heartbeats,   \* whether work is long enough for heartbeats
    MaxFaults     \* bound: crashes and lapses in all

VARIABLES
    status,       \* logical status of each issue
    lease,        \* the latest lease comment of each issue and kind
    worker,       \* the cycle of each worker
    renewing,     \* renewals a worker has still to write
    faults

vars == <<status, lease, worker, renewing, faults>>

Kinds == {"task", "repository"}
NoLease == [by |-> NoWorker, bit |-> 0, live |-> FALSE]
Nobody  == [issue |-> 0, by |-> NoWorker]

Stages == {"idle", "inspect", "choose", "read", "renew", "write", "post", "verify", "yield",
           "work", "started", "release"}
Idle(bit) ==
    [at |-> "idle", bit |-> bit,
     open |-> {}, unseen |-> {},                  \* issues listed as open; comments to read
     fit  |-> {},                                 \* candidates
     used |-> [c \in {Checkout[i] : i \in Issues} |-> Nobody],
     issue |-> 0, kind |-> "task",                \* what is being acquired
     held |-> {}, lost |-> FALSE]                 \* kinds acquired; a renewal failed

Least(S) == CHOOSE x \in S : \A y \in S : x <= y
First(S) == CHOOSE x \in S : \A y \in S : Rank[x] <= Rank[y]

\* findActiveLease.
Active_Expired(k) == lease[k].by # NoWorker
Active(k) == lease[k].live

Key(w)       == <<worker[w].issue, worker[w].kind>>
Own(w, k)    == Active(k) /\ lease[k].by = w /\ lease[k].bit = worker[w].bit[k[2]]
Go(w, at)    == worker' = [worker EXCEPT ![w].at = at]
Rest(w)      == worker' = [worker EXCEPT ![w] = Idle(worker[w].bit)]
Write(k, w, live) ==
    lease' = [lease EXCEPT ![k] = [by |-> w, bit |-> worker[w].bit[k[2]], live |-> live]]

-----------------------------------------------------------------------------
(* A poll: collectCandidates *)

Poll(w) ==
    /\ worker[w].at = "idle"
    /\ worker' = [worker EXCEPT ![w].at = "inspect", ![w].unseen = Issues,
                                ![w].open = {i \in Issues : status[i] = "open"}]
    /\ UNCHANGED <<status, lease, renewing, faults>>

\* The comments of the next issue: any repository lease is noted, an issue that
\* another worker has leased is skipped, and so is one that was not open.
Inspect(w) ==
    /\ worker[w].at = "inspect" /\ worker[w].unseen # {}
    /\ LET i == Least(worker[w].unseen)
           mine == Active(<<i, "task">>) => lease[<<i, "task">>].by = w
       IN  worker' = [worker EXCEPT
             ![w].unseen = @ \ {i},
             ![w].fit    = IF mine /\ i \in worker[w].open THEN @ \cup {i} ELSE @,
             ![w].used[Checkout[i]] = IF Active(<<i, "repository">>)
                                      THEN [issue |-> i, by |-> lease[<<i, "repository">>].by] ELSE @]
    /\ UNCHANGED <<status, lease, renewing, faults>>

\* isRepositoryAvailable, of the leases noted.
Available(w, i) == LET u == worker[w].used[Checkout[i]] IN u.by \in {NoWorker, w} \/ u.issue = i

Inspected(w) ==
    /\ worker[w].at = "inspect" /\ worker[w].unseen = {}
    /\ worker' = [worker EXCEPT ![w].at = "choose",
                                ![w].fit = {i \in worker[w].fit : Available(w, i)}]
    /\ UNCHANGED <<status, lease, renewing, faults>>

\* The candidates in the order of their scores.
Choose(w) ==
    /\ worker[w].at = "choose"
    /\ IF worker[w].fit = {} THEN Rest(w)
       ELSE worker' = [worker EXCEPT ![w].at = "read", ![w].kind = "task", ![w].held = {},
                                     ![w].issue = First(worker[w].fit),
                                     ![w].fit = @ \ {First(worker[w].fit)}]
    /\ UNCHANGED <<status, lease, renewing, faults>>

-----------------------------------------------------------------------------
(* acquireLease, for the issue and then for its checkout *)

Fail(w) == Go(w, IF worker[w].kind = "task" THEN "choose" ELSE "yield")

Got(w) ==
    worker' = [worker EXCEPT ![w].held = @ \cup {worker[w].kind}, ![w].kind = "repository",
                             ![w].at = IF worker[w].kind = "task" THEN "read" ELSE "work"]

\* The worker's own lease of an earlier life is renewed under its token.
ReadLease(w) ==
    /\ worker[w].at = "read"
    /\ LET l == lease[Key(w)] IN
       \/ ~Active(Key(w)) /\ worker' = [worker EXCEPT ![w].at = "post",
                                                      ![w].bit[worker[w].kind] = 1 - @]
       \/ Active(Key(w)) /\ l.by # w /\ Fail(w)
       \/ Active(Key(w)) /\ l.by = w /\ worker' = [worker EXCEPT ![w].at = "renew",
                                                      ![w].bit[worker[w].kind] = l.bit]
    /\ UNCHANGED <<status, lease, renewing, faults>>

\* renewTaskLease reads again, and throws if the lease is gone: what was acquired
\* before is then not released.
RenewOwn(w) ==
    /\ worker[w].at = "renew"
    /\ IF Own(w, Key(w)) THEN Go(w, "write") ELSE Rest(w)
    /\ UNCHANGED <<status, lease, renewing, faults>>

WriteOwn(w) ==
    /\ worker[w].at = "write"
    /\ Write(Key(w), w, TRUE) /\ Got(w)
    /\ UNCHANGED <<status, renewing, faults>>

Post(w) ==
    /\ worker[w].at = "post"
    /\ Write(Key(w), w, TRUE) /\ Go(w, "verify")
    /\ UNCHANGED <<status, renewing, faults>>

Verify(w) ==
    /\ worker[w].at = "verify"
    /\ IF Own(w, Key(w)) THEN Got(w) ELSE Fail(w)
    /\ UNCHANGED <<status, lease, renewing, faults>>

\* No checkout: the lease on the issue is given back, whoever holds it by now.
Yield(w) ==
    /\ worker[w].at = "yield"
    /\ Write(<<worker[w].issue, "task">>, w, FALSE) /\ Go(w, "choose")
    /\ UNCHANGED <<status, renewing, faults>>

-----------------------------------------------------------------------------
(* withLeaseHeartbeat around processSelectedIssue *)

\* The issue is taken up as it was when it was listed.
Start(w) ==
    /\ worker[w].at = "work"
    /\ status' = [status EXCEPT ![worker[w].issue] = "in_progress"]
    /\ Go(w, "started")
    /\ UNCHANGED <<lease, renewing, faults>>

Finish(w) ==
    /\ worker[w].at = "started"
    /\ status' = [status EXCEPT ![worker[w].issue] = "review"]
    /\ Go(w, "release")
    /\ UNCHANGED <<lease, renewing, faults>>

\* A heartbeat reads both leases; one that is gone ends the heartbeats, and the
\* work goes on.
Beat(w) ==
    /\ Heartbeats /\ worker[w].at \in {"work", "started"} /\ renewing[w] = {} /\ ~worker[w].lost
    /\ LET here == {<<worker[w].issue, kind>> : kind \in worker[w].held}
           kept == {x \in here : Own(w, x)}
       IN  /\ renewing' = [renewing EXCEPT ![w] = {<<x, worker[w].bit[x[2]]>> : x \in kept}]
           /\ worker' = [worker EXCEPT ![w].lost = kept # here]
    /\ UNCHANGED <<status, lease, faults>>

\* The comment of a renewal may come after the lease has been released.
Renew(w) ==
    /\ \E r \in renewing[w] :
         /\ lease' = [lease EXCEPT ![r[1]] = [by |-> w, bit |-> r[2], live |-> TRUE]]
         /\ renewing' = [renewing EXCEPT ![w] = @ \ {r}]
    /\ UNCHANGED <<status, worker, faults>>

\* releaseTaskLease of both leases, whoever holds them by now.
Release(w) == worker[w].held

GiveBack(w) ==
    /\ worker[w].at = "release"
    /\ \/ \E k \in Release(w) :
            /\ Write(<<worker[w].issue, k>>, w, FALSE)
            /\ worker' = [worker EXCEPT ![w].held = @ \ {k}]
       \/ Release(w) = {} /\ UNCHANGED lease /\ Rest(w)
    /\ UNCHANGED <<status, renewing, faults>>

-----------------------------------------------------------------------------
(* Time, crashes *)

Keeps(w, k) ==
    \/ /\ worker[w].issue = k[1] /\ worker[w].bit[k[2]] = lease[k].bit
       /\ \/ k[2] \in worker[w].held
          \/ k[2] = worker[w].kind /\ worker[w].at \in {"renew", "write", "verify"}
    \/ \E r \in renewing[w] : r[1] = k

\* A lease nobody keeps runs out, unless its worker comes back for it.
Expire(k) ==
    /\ lease[k].live /\ ~(\E w \in Workers : lease[k].by = w /\ Keeps(w, k))
    /\ lease' = [lease EXCEPT ![k].live = FALSE]
    /\ UNCHANGED <<status, worker, renewing, faults>>

\* One that is kept runs out when its worker hangs for the time to live.
Lapse(k) ==
    /\ faults < MaxFaults /\ lease[k].live
    /\ \E w \in Workers : lease[k].by = w /\ Keeps(w, k)
    /\ faults' = faults + 1
    /\ lease' = [lease EXCEPT ![k].live = FALSE]
    /\ UNCHANGED <<status, worker, renewing>>

\* The worker dies and is started again.
Crash(w) ==
    /\ faults < MaxFaults /\ worker[w].at # "idle"
    /\ faults' = faults + 1
    /\ Rest(w) /\ renewing' = [renewing EXCEPT ![w] = {}]
    /\ UNCHANGED <<status, lease>>

-----------------------------------------------------------------------------
\* Leases that a worker that died has left, the one on the issue first.
Left == {{}, {"task"}, Kinds}

Init ==
    /\ status = [i \in Issues |-> "open"]
    /\ \E i \in Issues, held \in Left :
          lease = [k \in Issues \X Kinds |->
                     IF k[1] = i /\ k[2] \in held THEN [NoLease EXCEPT !.by = Gone, !.live = TRUE]
                                                  ELSE NoLease]
    /\ worker = [w \in Workers |-> Idle([k \in Kinds |-> 0])]
    /\ renewing = [w \in Workers |-> {}]
    /\ faults = 0

Cycle(w) ==
    \/ Poll(w) \/ Inspect(w) \/ Inspected(w) \/ Choose(w)
    \/ ReadLease(w) \/ RenewOwn(w) \/ WriteOwn(w) \/ Post(w) \/ Verify(w) \/ Yield(w)
    \/ Start(w) \/ Finish(w) \/ GiveBack(w)

Next ==
    \/ \E w \in Workers : Cycle(w) \/ Beat(w) \/ Renew(w) \/ Crash(w)
    \/ \E k \in Issues \X Kinds : Expire(k) \/ Lapse(k)

Spec == Init /\ [][Next]_vars

\* Workers poll for ever, writes get through, and time passes.
FairSpec ==
    /\ Spec
    /\ \A w \in Workers : WF_vars(Cycle(w)) /\ WF_vars(Renew(w))
    /\ \A k \in Issues \X Kinds : WF_vars(Expire(k))

-----------------------------------------------------------------------------
\* Leases are of workers, and a worker that works holds both kinds.
TypeOK ==
    /\ \A k \in DOMAIN lease : lease[k].live => lease[k].by \in Workers \cup {Gone}
    /\ \A w \in Workers : /\ worker[w].at \in Stages /\ worker[w].issue \in Issues \cup {0}
                          /\ worker[w].at \in {"work", "started"} => worker[w].held = Kinds

\* An open issue is taken up, in spite of workers that race for it and give way,
\* that lose their leases or die with them.
IssueIsTaken == \A i \in Issues : status[i] = "open" ~> status[i] # "open"

\* "The repository lease serializes work": no two workers are at work in one
\* checkout.
CheckoutIsSerial ==
    \A v, w \in Workers :
        /\ worker[v].at = "started" /\ worker[w].at = "started"
        /\ Checkout[worker[v].issue] = Checkout[worker[w].issue]
        => v = w
=============================================================================
