---------------------------- MODULE ApiClients ----------------------------
(***************************************************************************)
(* The clients of Yandex Tracker, GitLab and Telegram                      *)
(* (src/integrations) and the retries behind them (src/utils/retry.ts):    *)
(* one call, made of requests that may fail, be refused, or take effect    *)
(* without an answer, while others add to the service and remove from it.  *)
(*                                                                         *)
(* A call adds one thing (a comment, an issue, a merge request, a note, a  *)
(* message), or lists all things page by page.  Time is in units of the    *)
(* first delay.                                                            *)
(*                                                                         *)
(* A definition whose name has a suffix after an underscore is a seeded    *)
(* fault of the definition below it; no specification uses it.             *)
(***************************************************************************)
EXTENDS Naturals, Sequences, FiniteSets, SequencesExt

CONSTANTS
    Services,   \* "tracker", "gitlab", "telegram", and "startup": Telegram's
                \* requests that are made when a process starts
    Lists,      \* a call may list
    Flaws,      \* what may be wrong with a message: "html", "reply"
    PerPage,    \* items of a page
    MaxItems,   \* bound: things of others
    MaxFaults   \* bound: requests that do not go well

VARIABLES
    items,      \* of the service, in order: Mine, or a number of the others'
    call,       \* [service, lists, wrong, flaws]: what is wrong with it, and still is
    phase,      \* "idle", "ask", "wait", or how the call ended: "ok", "error"
    attempt, delay, \* of withRetry
    again,      \* a message was sent again without what was wrong with it
    got, page,  \* what was listed
    waits,      \* the pauses of a request: [asked, waited]
    requests,   \* requests made for the page, or for the thing
    unknown,    \* requests that took effect without saying so
    before,     \* what was there when the call began,
    removed,    \* and whether anything was removed since
    faults

vars == <<items, call, phase, attempt, delay, again, got, page, waits, requests, unknown, before, removed, faults>>

Retries == 3
Unasked == 99   \* no Retry-After
Mine    == 0

-----------------------------------------------------------------------------
(* Answers of a service; "bad" is any refusal *)

Unanswered == {"lost", "late"}              \* effect, and no answer, or an error of a gateway
Refusals   == {"refused", "down", "slow", "bad"}
Effective  == {"ok", "garbled"} \cup Unanswered

\* The errors the clients call temporary: GitLab's does not know 429, and
\* Telegram's knows none, but those of the start know all.
Temporary_Garbled(service) ==
    IF service = "telegram" THEN {} ELSE {"refused", "down", "garbled"} \cup Unanswered
Temporary(service) ==
    CASE service = "gitlab" -> {"refused", "down"} \cup Unanswered
      [] service = "telegram" -> {}
      [] OTHER -> {"refused", "down", "slow"} \cup Unanswered

-----------------------------------------------------------------------------
(* A call *)

Begin ==
    /\ phase = "idle" /\ phase' = "ask"
    /\ \E s \in Services, l \in Lists, f \in SUBSET Flaws :
          /\ l => s \in {"tracker", "gitlab"}
          /\ f # {} => s = "telegram"
          /\ call' = [service |-> s, lists |-> l, wrong |-> f, flaws |-> f]
    /\ before' = ToSet(items)
    /\ UNCHANGED <<items, attempt, delay, again, got, page, waits, requests, unknown, removed, faults>>

\* fetchAllPages: a page that is not full is the last one.
LastPage_Full(read) == Len(read) <= PerPage
LastPage(read) == Len(read) < PerPage
Turn ==
    LET lo == (page - 1) * PerPage + 1
        read == SubSeq(items, lo, IF lo + PerPage - 1 > Len(items) THEN Len(items) ELSE lo + PerPage - 1)
    IN  /\ got' = got \o read
        /\ IF LastPage(read) THEN phase' = "ok" /\ UNCHANGED <<page, attempt, delay, requests, waits>>
           ELSE page' = page + 1 /\ attempt' = 0 /\ delay' = 1 /\ requests' = 0 /\ waits' = <<>> /\ UNCHANGED phase

\* withRetry: whether to try again, and when.
Exhausted_Later(n) == n > Retries + 1
Exhausted(n) == n > Retries
Pause_Ignored(asked) == delay
Pause(asked) == IF asked = Unasked THEN delay ELSE asked
Retry(a, asked) ==
    /\ attempt' = attempt + 1
    /\ IF a \notin Temporary(call.service) \/ Exhausted(attempt')
       THEN phase' = "error" /\ UNCHANGED <<delay, waits>>
       ELSE /\ phase' = "wait"
            /\ waits' = Append(waits, [asked |-> asked, waited |-> Pause(asked)])
            /\ delay' = 2 * (IF Pause(asked) > delay THEN Pause(asked) ELSE delay)

\* sendMessage, sendDocument: what Telegram says is wrong is left out, once.
Without_Nothing(flaw) == call.flaws
Without(flaw) == call.flaws \ {flaw}
Flawed(flaw) ==
    /\ IF again THEN phase' = "error" /\ UNCHANGED <<call, again>>
       ELSE again' = TRUE /\ call' = [call EXCEPT !.flaws = Without(flaw)] /\ UNCHANGED phase
    /\ requests' = requests + 1
    /\ UNCHANGED <<items, attempt, delay, got, page, waits, unknown, faults>>

\* request, requestBinary, post: one answer.
Answer(a, asked) ==
    /\ call.flaws = {}
    /\ a = "ok" \/ faults < MaxFaults
    /\ faults' = IF a = "ok" THEN faults ELSE faults + 1
    /\ asked # Unasked => a = "slow"
    /\ items' = IF a \in Effective /\ ~call.lists THEN Append(items, Mine) ELSE items
    /\ unknown' = IF a \in Unanswered THEN unknown + 1 ELSE unknown
    /\ \/ a = "ok" /\ call.lists /\ Turn
       \/ a = "ok" /\ ~call.lists /\ phase' = "ok" /\ UNCHANGED <<attempt, delay, waits, got, page>>
       \/ a # "ok" /\ Retry(a, asked) /\ UNCHANGED <<got, page>>
    /\ a # "ok" \/ ~call.lists => requests' = requests + 1
    /\ UNCHANGED <<call, again>>

Request ==
    /\ phase = "ask"
    /\ \/ \E f \in call.flaws : Flawed(f)
       \/ \E a \in {"ok", "garbled"} \cup Unanswered \cup Refusals, asked \in {0, 3, Unasked} : Answer(a, asked)
    /\ UNCHANGED <<before, removed>>

Resume ==
    /\ phase = "wait" /\ phase' = "ask"
    /\ UNCHANGED <<items, call, attempt, delay, again, got, page, waits, requests, unknown, before, removed, faults>>

\* Others add to the service, at its end, and remove from it.
Others ==
    /\ phase \in {"idle", "ask", "wait"}
    /\ \/ LET new == 1..MaxItems \ (ToSet(items) \cup before)
          IN  new # {} /\ items' = Append(items, Min(new)) /\ UNCHANGED removed
       \/ \E i \in DOMAIN items : items[i] # Mine /\ items' = RemoveAt(items, i) /\ removed' = (phase # "idle")
    /\ UNCHANGED <<call, phase, attempt, delay, again, got, page, waits, requests, unknown, before, faults>>

Init ==
    /\ items = <<>> /\ call = [service |-> "tracker", lists |-> FALSE, wrong |-> {}, flaws |-> {}]
    /\ phase = "idle" /\ attempt = 0 /\ delay = 1 /\ again = FALSE /\ got = <<>> /\ page = 1 /\ waits = <<>>
    /\ requests = 0 /\ unknown = 0 /\ before = {} /\ removed = FALSE /\ faults = 0

Next == Begin \/ Request \/ Resume \/ Others

Spec == Init /\ [][Next]_vars

-----------------------------------------------------------------------------
(* Properties *)

\* The state is of the right shape.
TypeOK ==
    /\ phase \in {"idle", "ask", "wait", "ok", "error"} /\ attempt \in 0..Retries + 1 /\ page \in Nat \ {0}
    /\ call.flaws \subseteq call.wrong /\ ToSet(items) \subseteq 0..MaxItems /\ faults \in 0..MaxFaults

\* A thing is added once, and once more at most for each request that took effect
\* without saying so; a call that went well has added it.
Added == Len(SelectSeq(items, LAMBDA i : i = Mine))
OnceUnlessUnknown ==
    /\ Added <= 1 + unknown
    /\ phase = "ok" /\ ~call.lists => Added >= 1

\* A request is made four times at most, a message of Telegram's twice; a service
\* that says when to come back is waited for, and otherwise the pauses double.
PatientAndBounded ==
    /\ requests <= IF call.service = "telegram" THEN 2 ELSE Retries + 1
    /\ \A i \in DOMAIN waits :
          IF waits[i].asked # Unasked THEN waits[i].waited = waits[i].asked
          ELSE waits[i].waited >= IF i = 1 THEN 1 ELSE 2 * waits[i - 1].waited

\* A list has everything that was there from the beginning to the end of the call,
\* once, unless something was removed while the pages were read.
ListIsWhole ==
    phase = "ok" /\ call.lists /\ ~removed => before \subseteq ToSet(got) /\ Len(got) = Cardinality(ToSet(got))

\* One thing that is wrong with a message does not keep it from being sent.
DegradesOnce == phase = "error" /\ faults = 0 => Cardinality(call.wrong) > 1

\* What the clients of the services owe their callers.
ClientsAreSound == OnceUnlessUnknown /\ PatientAndBounded /\ ListIsWhole /\ DegradesOnce

=============================================================================
