---------------------------- MODULE IntakeReview ----------------------------
(***************************************************************************)
(* The review of tasks before any work on them (domain/orchestrator.ts,    *)
(* domain/taskIntakeReview.ts): a worker in direct mode looks for an open  *)
(* task whose title, fields or human comments are not those of its last    *)
(* review, has Codex read it, and writes what it found as a comment that   *)
(* carries a fingerprint of what it had read.  Workers of several          *)
(* processes share the tracker, people edit and comment meanwhile, and a   *)
(* task is read in two calls, one for its fields and one for its comments. *)
(*                                                                         *)
(* A fingerprint is the pair of versions it is computed from.              *)
(*                                                                         *)
(* A definition whose name has a suffix after an underscore is a seeded    *)
(* fault of the definition below it; no specification uses it.             *)
(***************************************************************************)
EXTENDS Naturals, Sequences, FiniteSets, SequencesExt

CONSTANTS
    Workers,    \* of one repository
    Issues,     \* 1..n, in the order the tracker lists them
    Leases,     \* whether a lock backend is configured
    MaxEdits,   \* bound: changes people make
    MaxFaults   \* bound: failures of Codex or the tracker, leases that run out

VARIABLES
    issue,      \* [fields, said, open, reviews]: versions of the fields and of the human
                \* comments, whether it is a candidate, fingerprints of its reviews
    work,       \* of each worker: [at, on, listed, read, prompt]
    lease,      \* of each issue: none, or whose it is
    was,        \* of each issue: the pairs of versions it has had, together
    edits, faults,
    lost        \* leases that ran out under a worker

vars == <<issue, work, lease, was, edits, faults, lost>>

None   == <<>>
Idle   == [at |-> "idle", on |-> 0, listed |-> <<>>, read |-> 0, prompt |-> None]
Enter(w, at) == work' = [work EXCEPT ![w].at = at]
Same   == UNCHANGED <<issue, lease, was, edits, faults, lost>>

\* createTaskIntakeFingerprint of what two calls returned: comments of the
\* service and the system do not count.
Fingerprint_AllComments(w) == <<work[w].read, issue[work[w].on].said + Len(issue[work[w].on].reviews)>>
Fingerprint(w) == <<work[w].read, issue[work[w].on].said>>

\* findLatestTaskIntakeReview.
Latest(i) == IF issue[i].reviews = <<>> THEN None ELSE Last(issue[i].reviews)
Unchanged(w) == Latest(work[w].on) = Fingerprint(w)

-----------------------------------------------------------------------------
(* A cycle *)

\* findCandidateIssues: the fields of all come in one answer.
Search(w) ==
    /\ work[w].at = "idle"
    /\ work' = [work EXCEPT ![w] = [Idle EXCEPT !.at = "look",
          !.listed = SelectSeq([i \in 1..Cardinality(Issues) |-> [on |-> i, fields |-> issue[i].fields]],
                               LAMBDA x : issue[x.on].open)]]
    /\ Same

\* pickTaskIntakeReviewCandidate: the comments of one after the other.
Pick(w) ==
    /\ work[w].at = "look"
    /\ IF work[w].listed = <<>> THEN work' = [work EXCEPT ![w] = Idle]
       ELSE LET x == Head(work[w].listed)
            IN  work' = [work EXCEPT ![w] = [@ EXCEPT !.on = x.on, !.listed = Tail(work[w].listed),
                    !.at = IF Latest(x.on) = <<x.fields, issue[x.on].said>> THEN "look" ELSE "lease"]]
    /\ Same

\* acquireTaskIntakeReviewLease.
Rightful(i) == ToSet(lease[i])
Free_Always(w) == TRUE
Free(w) == Rightful(work[w].on) \subseteq {w}
Lease(w) ==
    /\ work[w].at = "lease"
    /\ IF ~Leases THEN Enter(w, "issue") /\ UNCHANGED lease
       ELSE IF Free(w) THEN Enter(w, "issue") /\ lease' = [lease EXCEPT ![work[w].on] = <<w>>]
       ELSE work' = [work EXCEPT ![w] = Idle] /\ UNCHANGED lease
    /\ UNCHANGED <<issue, was, edits, faults, lost>>

\* getIssue, before the prompt and after it.
Eligible(i) == issue[i].open
ReadIssue(w) ==
    /\ work[w].at \in {"issue", "issue again"}
    /\ work' = [work EXCEPT ![w] = [@ EXCEPT !.read = issue[work[w].on].fields,
          !.at = CASE work[w].at = "issue" -> "comments"
                   [] work[w].at # "issue" /\ ~Eligible(work[w].on) -> "release"
                   [] OTHER -> "comments again"]]
    /\ Same

\* getComments: nothing is done where the last review is of the same.
ReadComments(w) ==
    /\ work[w].at = "comments"
    /\ work' = [work EXCEPT ![w] = [@ EXCEPT
          !.prompt = IF Unchanged(w) THEN None ELSE Fingerprint(w),
          !.at     = IF Unchanged(w) THEN "release" ELSE "codex"]]
    /\ Same

\* runCodexStage; an answer that cannot be read becomes a review that asks.
Codex(w) == work[w].at = "codex" /\ Enter(w, "issue again") /\ Same

\* What was read again is compared with the last review, and with the prompt.
Stale_Not(w) == FALSE
Stale(w) == Fingerprint(w) # work[w].prompt
Compare(w) ==
    /\ work[w].at = "comments again"
    /\ Enter(w, IF Unchanged(w) \/ Stale(w) THEN "release" ELSE "post")
    /\ Same

\* formatTaskIntakeReviewComment: the fingerprint is that of the second reading.
Posted(w) == work[w].prompt
Post(w) ==
    /\ work[w].at = "post"
    /\ issue' = [issue EXCEPT ![work[w].on].reviews = Append(@, Posted(w))]
    /\ Enter(w, "release")
    /\ UNCHANGED <<lease, was, edits, faults, lost>>

\* withLeaseHeartbeat: finally.
Release(w) ==
    /\ work[w].at = "release"
    /\ lease' = [lease EXCEPT ![work[w].on] = IF Rightful(work[w].on) = {w} THEN <<>> ELSE @]
    /\ work' = [work EXCEPT ![w] = Idle]
    /\ UNCHANGED <<issue, was, edits, faults, lost>>

-----------------------------------------------------------------------------
(* Failures, and people *)

\* Codex or the tracker throws; so does everything at the end of the cycle where
\* a heartbeat failed.
Fail(w) ==
    /\ work[w].at \in {"look", "issue", "comments", "codex", "issue again", "comments again", "post"}
    /\ faults < MaxFaults /\ faults' = faults + 1
    /\ IF work[w].at = "look" THEN work' = [work EXCEPT ![w] = Idle] ELSE Enter(w, "release")
    /\ UNCHANGED <<issue, lease, was, edits, lost>>

\* The answer to the comment is lost: it is there, and the cycle throws.
Unheard(w) ==
    /\ work[w].at = "post" /\ faults < MaxFaults /\ faults' = faults + 1
    /\ issue' = [issue EXCEPT ![work[w].on].reviews = Append(@, Posted(w))]
    /\ Enter(w, "release")
    /\ UNCHANGED <<lease, was, edits, lost>>

\* Heartbeats fail for so long that the lease runs out; the worker goes on.
RunOut(i) ==
    /\ lease[i] # <<>> /\ faults < MaxFaults /\ faults' = faults + 1
    /\ lease' = [lease EXCEPT ![i] = <<>>] /\ lost' = lost + 1
    /\ UNCHANGED <<issue, work, was, edits>>

Changed(i, f, c) ==
    /\ edits < MaxEdits /\ edits' = edits + 1
    /\ issue' = [issue EXCEPT ![i] = [@ EXCEPT !.fields = f, !.said = c]]
    /\ was' = [was EXCEPT ![i] = @ \cup {<<f, c>>}]
    /\ UNCHANGED <<work, lease, faults, lost>>
Edit(i)    == \E f \in 0..MaxEdits : f # issue[i].fields /\ Changed(i, f, issue[i].said)
Comment(i) == Changed(i, issue[i].fields, issue[i].said + 1)
\* ... moves it to another queue or status, or takes the tag off it, or back.
Move(i) ==
    /\ edits < MaxEdits /\ edits' = edits + 1
    /\ issue' = [issue EXCEPT ![i].open = ~@]
    /\ UNCHANGED <<work, lease, was, faults, lost>>

Init ==
    /\ issue = [i \in Issues |-> [fields |-> 0, said |-> 0, open |-> TRUE, reviews |-> <<>>]]
    /\ work = [w \in Workers |-> Idle]
    /\ lease = [i \in Issues |-> <<>>]
    /\ was = [i \in Issues |-> {<<0, 0>>}]
    /\ edits = 0 /\ faults = 0 /\ lost = 0

Next ==
    \/ \E w \in Workers : Search(w) \/ Pick(w) \/ Lease(w) \/ ReadIssue(w) \/ ReadComments(w)
                          \/ Codex(w) \/ Compare(w) \/ Post(w) \/ Release(w) \/ Fail(w) \/ Unheard(w)
    \/ \E i \in Issues : RunOut(i) \/ Edit(i) \/ Comment(i) \/ Move(i)

Spec == Init /\ [][Next]_vars

\* Each worker goes on.
FairSpec == Spec /\ \A w \in Workers : WF_vars(Search(w) \/ Pick(w) \/ Lease(w) \/ ReadIssue(w) \/ ReadComments(w)
                                                \/ Codex(w) \/ Compare(w) \/ Post(w) \/ Release(w))

-----------------------------------------------------------------------------
(* Properties *)

\* The state is of the right shape.
TypeOK ==
    /\ \A i \in Issues : issue[i].fields \in 0..MaxEdits /\ issue[i].open \in BOOLEAN /\ lease[i] \in Seq(Workers)
    /\ \A w \in Workers : work[w].on \in Issues \cup {0}
    /\ edits \in 0..MaxEdits /\ faults \in 0..MaxFaults /\ lost \in 0..faults

\* A review is of a task as it was at one moment, though it was read in pieces.
ReviewsOfOneMoment == \A i \in Issues : ToSet(issue[i].reviews) \subseteq was[i]

\* docs/ENV_CONFIGURATION.md:270: no second review where nothing has changed since
\* the last one.  It takes a lease, unless there is one worker, and each lease that
\* runs out may cost one.
Repeats(i) == {k \in 1..Len(issue[i].reviews) - 1 : issue[i].reviews[k] = issue[i].reviews[k + 1]}
ReviewedOnce ==
    Leases \/ Cardinality(Workers) = 1 => \A i \in Issues : Cardinality(Repeats(i)) <= lost

\* Every review but the first follows a change: one that answered itself would never end.
\* A worker that has lost its lease may post what another has posted, and after a change
\* in between an older one, which is then answered once more.
ReviewsFollowChanges ==
    Leases \/ Cardinality(Workers) = 1 => \A i \in Issues : Len(issue[i].reviews) <= 1 + edits + 2 * lost

\* What the review of the intake owes the reporters of issues.
IntakeIsSound == ReviewsOfOneMoment /\ ReviewedOnce /\ ReviewsFollowChanges

\* When people have done, the last review of every open task is of what it says.
Settled == \A i \in Issues : issue[i].open => Latest(i) = <<issue[i].fields, issue[i].said>>
ReviewsSettle == <>[]Settled

=============================================================================
