----------------------------- MODULE LeaseLock ------------------------------
(***************************************************************************)
(* What the lease table promises a worker, with no rows, transactions or   *)
(* clocks: keys are taken in whole sets, a key has one owner, and an owner *)
(* whose term still runs loses a key only by giving it up.                 *)
(***************************************************************************)
CONSTANTS Keys,      \* what can be locked
          Owners,
          NoOwner,
          Bundles    \* the sets of keys that are taken together

VARIABLES owner,     \* who holds a key
          live       \* keys whose term runs on every clock

lockVars == <<owner, live>>

Init == owner = [k \in Keys |-> NoOwner] /\ live = {}

\* Keys that are not live may be taken over, or simply dropped.
KeptOrDropped(K) ==
    /\ owner' \in [Keys -> Owners \cup {NoOwner}]
    /\ \A k \in K : owner'[k] = owner[k] \/ (k \notin live /\ owner'[k] = NoOwner)

Acquire(o, K) ==
    /\ K \cap live = {}
    /\ KeptOrDropped(Keys \ K)
    /\ \A k \in K : owner'[k] = o
    /\ live' \in {live, live \cup K}

Drop ==
    /\ KeptOrDropped(Keys)
    /\ UNCHANGED live

Renew(k) ==
    /\ owner[k] # NoOwner
    /\ live' = live \cup {k}
    /\ UNCHANGED owner

GiveUp(k) ==
    /\ owner' = [owner EXCEPT ![k] = NoOwner]
    /\ live' = live \ {k}

Expire ==
    /\ live' \in SUBSET live
    /\ UNCHANGED owner

Next ==
    \/ \E o \in Owners, K \in Bundles : Acquire(o, K)
    \/ \E k \in Keys : Renew(k) \/ GiveUp(k)
    \/ Drop
    \/ Expire

Spec == Init /\ [][Next]_lockVars
=============================================================================
