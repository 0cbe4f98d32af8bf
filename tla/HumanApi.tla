------------------------------ MODULE HumanApi ------------------------------
(***************************************************************************)
(* The HTTP API of the internal tracker                                    *)
(* (src/observability/taskTrackerHumanApi.ts): who a request comes from,   *)
(* what that allows, and the calls of the store its handler makes, one     *)
(* after the other, while other handlers make theirs.  Any call may fail,  *)
(* and the process may die.  The store is TaskRecords; commands about      *)
(* proposals and goals are authorised here and carried out in Proposals    *)
(* and ProjectManager.                                                     *)
(*                                                                         *)
(* A definition whose name has a suffix after an underscore is a seeded    *)
(* fault of the definition below it; no specification uses it.             *)
(***************************************************************************)
EXTENDS TaskRecords

CONSTANTS
    AuthMode,    \* config.authMode: bearer, trusted_headers or localhost
    Visitors,    \* what requests come with: [token, user, local]
    ProjectManaged  \* whether the project manager is configured

VARIABLE
    http         \* the request each client has made last

-----------------------------------------------------------------------------
(* Who asks *)

Rank == [viewer |-> 0, developer |-> 1, operator |-> 2, admin |-> 3]
Nobody == [role |-> "viewer", service |-> "none", owner |-> "none"]
As(role, service, owner) == [role |-> role, service |-> service, owner |-> owner]

\* authenticate: a visitor's user is the role of the trusted headers, or "".
Authenticate(v) ==
    IF v.token = "system" THEN As("admin", "system", "external_source")
    ELSE IF v.token = "agent" THEN As("operator", "agent", "worker_agent")
    ELSE IF AuthMode = "bearer" THEN Nobody
    ELSE IF v.user # "" THEN As(v.user, "human", "human")
    ELSE IF ~v.local THEN Nobody
    ELSE IF AuthMode = "localhost" THEN As("admin", "localhost", "human")
    ELSE As("viewer", "anonymous", "human")

\* requireAuth: the status of the refusal, or 0.
Refusal(v, role, systemOnly) ==
    LET auth == Authenticate(v) IN
    IF auth = Nobody THEN 401
    ELSE IF systemOnly /\ auth.service # "system" THEN 403
    ELSE IF auth.service = "anonymous" /\ role # "viewer" THEN 401
    ELSE IF Rank[auth.role] < Rank[role] THEN 403
    ELSE 0

CommandRole_Lower(r) == "developer"
CommandRole(r) == IF r.route \in {"hold", "retry", "force-reanalysis"} THEN "operator" ELSE "developer"

\* requireCreateAuth, and the role each route asks for.
ForSystem(r) == r.route = "bulk" \/ (r.route = "tasks" /\ r.items[1].key # "")
Reads == {"session", "read"}
ManagerRoutes == {"goal", "propose-tasks", "runs"}
RouteRole(r) ==
    IF r.route \in Reads THEN "viewer"
    ELSE IF ForSystem(r) THEN "admin"
    ELSE IF r.route \in {"proposals", "propose-tasks", "runs"} THEN "operator"
    ELSE CommandRole(r)
Forbidden(v, r) == Refusal(v, RouteRole(r), ForSystem(r))

\* buildSession: what a visitor is told it can do.  Of making a proposal it says
\* nothing.
Told(r) == r.route # "proposals"
Can(v, role) == Forbidden(v, [route |-> "session"]) = 0 /\ Rank[Authenticate(v).role] >= Rank[role]
Capable(v, r) ==
    CASE r.route = "tasks" /\ ~ForSystem(r) -> Can(v, "developer")                        \* canCreateTask
      [] ForSystem(r) -> Authenticate(v).service = "system" /\ Can(v, "admin")            \* canCreateSystemTask
      [] r.route \in {"hold", "retry", "force-reanalysis"} -> Can(v, "operator")          \* canHold, canRetry, ...
      [] r.route \in {"propose-tasks", "runs"} -> Can(v, "operator") /\ ProjectManaged    \* canRunProjectManager, ...
      [] r.route = "goal" -> Can(v, "developer") /\ ProjectManaged                        \* canApproveProjectGoals, ...
      [] r.route \in Reads -> Can(v, "viewer")                                            \* canReadTasks
      [] OTHER -> Can(v, "developer")                                                     \* canUpdateTask, ...

-----------------------------------------------------------------------------
(* What a handler asks of the store *)

\* createTaskFromBody.
Creation(auth, item) ==
    LET system == auth.service = "system" IN
    IF ~item.valid \/ (system /\ item.key = "") THEN [op |-> "invalid"]
    ELSE [op |-> "create", task |-> 0, keys |-> IF system THEN {<<item.key, "">>} ELSE {},
          by |-> auth.owner, as |-> item.as, complete |-> item.complete, system |-> system,
          title |-> "t0", body |-> "b0"]

To(op, r) == [op |-> op, task |-> r.task]
Into(r, as) == [op |-> "status", task |-> r.task, as |-> as]

\* applyCommand.
Command(r) ==
    CASE r.route = "mark-ready"             -> <<[op |-> "ready", task |-> r.task, as |-> "ready"]>>
      [] r.route \in {"resume", "retry"}    -> <<Into(r, "ready")>>
      [] r.route = "hold"                   -> <<Into(r, "blocked")>>
      [] r.route = "cancel"                 -> <<Into(r, "cancelled")>>
      [] r.route = "force-reanalysis"       -> <<To("decision", r), To("event", r)>>
      [] r.route = "approve-decomposition"  -> <<To("decision", r)>>
      [] OTHER                              -> <<>>

\* handle.
Calls(auth, r) ==
    CASE r.route \in {"tasks", "bulk"} -> [i \in DOMAIN r.items |-> Creation(auth, r.items[i])]
      [] r.route = "revisions"         -> <<[op |-> "revise", task |-> r.task, by |-> "human", title |-> "t1", body |-> ""]>>
      [] r.route = "attachments"       -> <<To("event", r)>>
      [] r.route = "answers"           -> <<[op |-> "answer", task |-> r.task, as |-> "ready"]>>
      [] OTHER                         -> Command(r)

-----------------------------------------------------------------------------
(* A request *)

NoRequest == [at |-> "idle", who |-> "none", ask |-> "none", todo |-> <<>>, wrote |-> FALSE, code |-> 0]

\* responseForError, by what became of a call.
Code == [missing |-> 404, unready |-> 422, duplicate |-> 409, conflict |-> 409, error |-> 500]

\* requireProjectManagerStore, requireProjectManagerRunner.
Unavailable(r) == r.route \in ManagerRoutes /\ ~ProjectManaged

\* The routes that create read the body before they ask who it is from.
Verdict(v, r) ==
    LET refusal == Forbidden(v, r)  bad == IF r.valid THEN 0 ELSE 400 IN
    IF r.route \in {"tasks", "bulk"} /\ bad # 0 THEN bad
    ELSE IF refusal # 0 THEN refusal
    ELSE IF Unavailable(r) THEN 503
    ELSE bad

Answered(c, code) == http' = [http EXCEPT ![c].at = "answered", ![c].code = code, ![c].todo = <<>>]

Receive(c) ==
    /\ http[c].at \in {"idle", "answered"}
    /\ calls < MaxCalls
    /\ calls' = calls + 1
    /\ \E v \in Visitors, r \in Requests :
         LET code == Verdict(v, r)  new == [NoRequest EXCEPT !.who = v, !.ask = r] IN
         http' = [http EXCEPT ![c] = IF code # 0 THEN [new EXCEPT !.at = "answered", !.code = code]
                                     ELSE [new EXCEPT !.at = "open", !.todo = Calls(Authenticate(v), r)]]
    /\ UNCHANGED <<store, call>>

\* The next call, or the answer, for which the task is read again.
NextCall(c) ==
    /\ http[c].at = "open" /\ call[c].at = "idle"
    /\ IF http[c].todo = <<>> THEN Answered(c, 200) /\ UNCHANGED call
       ELSE IF Head(http[c].todo).op = "invalid" THEN Answered(c, 400) /\ UNCHANGED call
       ELSE /\ call' = [call EXCEPT ![c] = [Idle EXCEPT !.at = "start", !.ask = Head(http[c].todo)]]
            /\ http' = [http EXCEPT ![c].todo = Tail(@)]
    /\ UNCHANGED <<store, calls>>

Return(c) ==
    /\ call[c].at = "done"
    /\ call' = [call EXCEPT ![c] = Idle]
    /\ IF call[c].result \in {"ok", "existing"} THEN UNCHANGED http
       ELSE Answered(c, Code[call[c].result])
    /\ UNCHANGED <<store, calls>>

\* A step of the store, with a note of whether it changed something.
Serve(c) ==
    /\ Perform(c)
    /\ http' = [http EXCEPT ![c].wrote = @ \/ store' # store]

\* A call that fails, or the read before the answer.
Fail(c) ==
    /\ http[c].at = "open" /\ call[c].at # "done"
    /\ call' = [call EXCEPT ![c] = Idle]
    /\ Answered(c, 500)
    /\ UNCHANGED <<store, calls>>

\* The process dies: nobody is answered.
Crash ==
    /\ \E c \in Callers : http[c].at = "open"
    /\ call' = [c \in Callers |-> Idle]
    /\ http' = [c \in Callers |-> IF http[c].at = "open" THEN NoRequest ELSE http[c]]
    /\ UNCHANGED <<store, calls>>

ApiInit == Init /\ http = [c \in Callers |-> NoRequest]
ApiNext == Crash \/ \E c \in Callers : Receive(c) \/ NextCall(c) \/ Serve(c) \/ Return(c) \/ Fail(c)
ApiSpec == ApiInit /\ [][ApiNext]_<<vars, http>>

-----------------------------------------------------------------------------
(* Properties *)

Done(c) == http[c].at = "answered"

\* What the session tells a visitor it can do is what the routes let it do.
CapabilitiesAreHonest ==
    \A c \in Callers : Done(c) /\ http[c].ask.valid /\ Told(http[c].ask) =>
      (http[c].code \in {401, 403, 503} <=> ~Capable(http[c].who, http[c].ask))

\* A bulk creation that is answered with success has made, or found, one task for
\* each key, whatever earlier tries of it or others in between have done.
KeyTasks(key) == {r.task : r \in {x \in refs : x.key = <<key, "">>}}
BulkIsWhole ==
    \A c \in Callers : Done(c) /\ http[c].code = 200 /\ http[c].ask.route = "bulk" =>
      \A i \in DOMAIN http[c].ask.items : Cardinality(KeyTasks(http[c].ask.items[i].key)) = 1

\* A request that is refused has changed nothing, but for a bulk creation that
\* stops in the middle and an answer that is stored before its task, which
\* another request changes meanwhile, refuses to be resumed.
RefusedLeavesNoTrace ==
    \A c \in Callers : Done(c) /\ http[c].code \in 400..499 /\ http[c].wrote =>
      \/ http[c].ask.route = "bulk"
      \/ http[c].ask.route = "answers" /\ http[c].code = 409
=============================================================================
