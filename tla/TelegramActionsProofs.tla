----------------------- MODULE TelegramActionsProofs -----------------------
(***************************************************************************)
(* That no task of the assistant comes about without a yes of somebody who *)
(* may say it, for any updates, people, failures and crashes, with polling.*)
(*                                                                         *)
(* An update is handled again only before the next one, and what it asked  *)
(* for is confirmed by later ones only.  So nothing that was confirmed is  *)
(* ever proposed anew, and what a step relies on when it is planned (that  *)
(* an action is confirmed, that the one who confirms it may) still holds   *)
(* when the step is taken.  A webhook may deliver a request again after    *)
(* its confirmation, and there the property does not hold.                 *)
(***************************************************************************)
EXTENDS TelegramActions, WellFoundedInduction, TLAPS

ActionConstants ==
    /\ MaxUpdates \in Nat
    /\ Says \subseteq {"user", "owner", "client"}
                      \X {"easy", "risky", "vague", "ask", "yes", "no", "press", "unpress"}

-----------------------------------------------------------------------------
(* Sequences *)

\* The greatest of a set of numbers up to n is one of them.
LEMMA MaxIsOne ==
    ASSUME NEW n \in Nat, NEW S \in SUBSET (1..n), S # {}
    PROVE  Max(S) \in S
<1> DEFINE Before == {p \in Nat \X Nat : p[1] < p[2]}
           left == {n - i : i \in S}
<1>1. IsWellFoundedOn(Before, Nat)
  <2>1. OpToRel(<, Nat) = Before
    BY DEF OpToRel
  <2> QED BY <2>1, NatLessThanWellFounded
<1>2. left \subseteq Nat /\ left # {}
  <2>1. PICK i : i \in S
    OBVIOUS
  <2>2. n - i \in left
    BY <2>1
  <2>3. \A j \in S : n - j \in Nat
    OBVIOUS
  <2> QED BY <2>2, <2>3
<1>3. PICK m \in left : \A k \in left : <<k, m>> \notin Before
  BY <1>1, <1>2, WFMin
<1>4. PICK i \in S : m = n - i
  OBVIOUS
<1>5. ASSUME NEW j \in S PROVE i >= j
  <2>1. n - j \in left /\ n - j \in Nat /\ m \in Nat
    BY <1>2
  <2>2. ~(n - j < m)
    BY <1>3, <2>1
  <2> QED BY <2>2, <1>4
<1> QED BY <1>5 DEF Max

\* The latest of a sequence that is in a set is in it.
LEMMA LatestIsOne ==
    ASSUME NEW T, NEW seq \in Seq(T), NEW S, LatestOf(seq, S) # 0
    PROVE  LatestOf(seq, S) \in S
<1> DEFINE at == {i \in DOMAIN seq : seq[i] \in S}
<1>1. Len(seq) \in Nat /\ at \in SUBSET (1..Len(seq))
  OBVIOUS
<1>2. at # {} /\ LatestOf(seq, S) = seq[Max(at)]
  BY DEF LatestOf
<1>3. Max(at) \in at
  BY <1>1, <1>2, MaxIsOne
<1> QED BY <1>2, <1>3

LEMMA OrderTyped ==
    ASSUME NEW T, NEW seq \in Seq(T), NEW x \in T
    PROVE  Forget(seq, x) \in Seq(T) /\ Touch(seq, x) \in Seq(T)
<1>1. Forget(seq, x) \in Seq(T)
  <2>1. CASE x \notin ToSet(seq)
    BY <2>1 DEF Forget
  <2>2. CASE x \in ToSet(seq)
    <3> DEFINE i == CHOOSE j \in DOMAIN seq : seq[j] = x
    <3>1. i \in 1..Len(seq)
      BY <2>2 DEF ToSet
    <3> HIDE DEF i
    <3>2. SubSeq(seq, 1, i - 1) \in Seq(T) /\ SubSeq(seq, i + 1, Len(seq)) \in Seq(T)
      BY <3>1
    <3>3. RemoveAt(seq, i) \in Seq(T)
      BY <3>2 DEF RemoveAt
    <3> QED BY <2>2, <3>3 DEF Forget, i
  <2> QED BY <2>1, <2>2
<1> QED BY <1>1 DEF Touch

-----------------------------------------------------------------------------
(* The inductive invariant *)

Doings == {"handle", "mark", "advance", "tell", "show", "propose", "collect", "complete_draft",
           "consume", "cancel", "drop", "execute", "create", "ready", "finish", "complete",
           "subscribe", "hand_over", "await_owner"}
StepOf == [do : Doings, id : 0..(2 * MaxUpdates), key : 0..MaxUpdates]

Yes     == {"executing", "completed"}
Asks(u) == inbox[u].what \in {"easy", "risky", "vague", "ask"}

Typed ==
    /\ inbox \in Seq(Content) /\ Len(inbox) <= MaxUpdates
    /\ offset \in Nat \ {0}
    /\ hand \in [Handlers -> [update : Nat, todo : Seq(StepOf)]]
    /\ session \in [Updates -> Session]
    /\ action \in [ActionIds -> Action]
    /\ latest \in [drafts : Seq(Updates), actions : Seq(ActionIds)]
    /\ task \in [Updates -> {"none", "new", "ready"}]
    /\ shown \in [cards : SUBSET ActionIds, subscribed : SUBSET Updates]

\* An action is that of an update up to the one that is handled, about a request of
\* the same person, in whose hands it is, or in the owner's for an outsider.  It is
\* decided while a later update is handled.
Proposed(a) ==
    action[a].status # "none" =>
        /\ a <= offset /\ a <= Len(inbox) /\ Asks(a)
        /\ action[a].key \in 1..a /\ inbox[action[a].key].from = inbox[a].from
        /\ action[a].conv = IF inbox[a].from = "user" THEN "user" ELSE "owner"
        /\ action[a].status # "pending" => a < offset

\* The owner's copy is of one that its person confirmed.
Copied(a) ==
    action[OwnersCopy(a)].status # "none" =>
        /\ action[OwnersCopy(a)].conv = "owner"
        /\ action[OwnersCopy(a)].key = action[a].key
        /\ action[a].status \in Yes

\* Who presses a button was shown the card of an action of theirs.
Pressed(i) ==
    inbox[i].what \in {"press", "unpress"} =>
        /\ inbox[i].id \in ActionIds /\ action[inbox[i].id].status # "none"
        /\ action[inbox[i].id].conv = inbox[i].from

Known ==
    /\ \A a \in Updates : Proposed(a) /\ Copied(a)
    /\ \A s \in Updates : session[s].status # "none" => s <= offset
    /\ \A i \in 1..Len(inbox) : Pressed(i)
    /\ \A a \in shown.cards : action[a].status # "none"

\* Somebody said yes to it who may.
Approved(a) ==
    /\ action[a].status \in Yes
    /\ session[action[a].key].mode = "owner_approval" \/ inbox[action[a].key].from = "client"
          => action[a].conv = "owner"

\* What a step of the handler of update u relies on.
Sound(t, u) ==
    /\ t.do = "propose" => /\ t.id = u /\ Asks(u) /\ t.key \in 1..u
                           /\ inbox[t.key].from = inbox[u].from
    /\ t.do \in {"collect", "complete_draft"} => t.key \in 1..u
    /\ t.do \in {"drop", "finish", "await_owner", "subscribe"} => t.key \in Updates
    /\ t.do = "show" => t.id \in ActionIds
    /\ t.do \in {"consume", "cancel"} => t.id \in ActionIds /\ (t.id \in Updates => t.id < u)
    /\ t.do = "execute" => /\ t.id \in ActionIds /\ action[t.id].status # "none"
                           /\ action[t.id].conv = inbox[u].from
    /\ t.do \in {"create", "ready"} => /\ t.id \in ActionIds /\ Approved(t.id)
                                      /\ t.key = action[t.id].key
    /\ t.do = "complete" => t.id \in ActionIds /\ action[t.id].status \in Yes
    /\ t.do = "hand_over" => t.id \in Updates /\ action[t.id].status \in Yes

\* What the steps before it see to.
Ordered(l, i) ==
    /\ l[i].do = "execute" => \/ action[l[i].id].status \in Yes
                              \/ l[1].do = "consume" /\ l[1].id = l[i].id
    /\ l[i].do = "hand_over" => i = 1 /\ action[OwnersCopy(l[i].id)].status = "none"
    /\ l[i].do = "show" =>
          \/ action[l[i].id].status # "none"
          \/ i > 1 /\ l[i - 1].do = "propose" /\ l[i - 1].id = l[i].id
          \/ l[1].do = "hand_over" /\ OwnersCopy(l[1].id) = l[i].id

Closed(l) == Len(l) > 0 /\ l[Len(l)].do = "advance" /\ (Len(l) > 1 => l[Len(l) - 1].do = "mark")

Working(u, l) ==
    /\ u = offset /\ u \in 1..Len(inbox) /\ Closed(l)
    /\ \A i \in 1..Len(l) : Sound(l[i], u) /\ Ordered(l, i)
AtWork   == \A h \in Handlers : Busy(h) => Working(hand[h].update, hand[h].todo)
OneAtWork == \A g, h \in Handlers : Busy(g) /\ Busy(h) => g = h

IInv == Typed /\ Known /\ AtWork /\ OneAtWork /\ TaskIsApproved

-----------------------------------------------------------------------------
(* Lists of steps *)

LEMMA Listed ==
    ASSUME NEW T, NEW f \in Seq(T), NEW l \in Seq(T), Len(l) >= 1
    PROVE  /\ f \o Tail(l) \in Seq(T)
           /\ Len(f \o Tail(l)) = Len(f) + Len(l) - 1
           /\ \A i \in 1..Len(f) : (f \o Tail(l))[i] = f[i]
           /\ \A i \in 1..(Len(f) + Len(l) - 1) : i > Len(f) => (f \o Tail(l))[i] = l[i - Len(f) + 1]
  OBVIOUS
LEMMA Joined ==
    ASSUME NEW T, NEW f \in Seq(T), NEW g \in Seq(T)
    PROVE  /\ f \o g \in Seq(T) /\ Len(f \o g) = Len(f) + Len(g)
           /\ \A i \in 1..Len(f) : (f \o g)[i] = f[i]
           /\ \A i \in 1..(Len(f) + Len(g)) : i > Len(f) => (f \o g)[i] = g[i - Len(f)]
  OBVIOUS

-----------------------------------------------------------------------------
(* What no step takes back *)

Decided == {"completed", "cancelled"}

\* Updates stay, an action keeps its person, a yes stays a yes to the same request, and
\* the risk of a request whose time is over is not judged again.
Steady ==
    /\ Len(inbox) <= Len(inbox') /\ \A i \in 1..Len(inbox) : inbox'[i] = inbox[i]
    /\ \A a \in ActionIds : action[a].status # "none" =>
          /\ action'[a].conv = action[a].conv
          /\ action'[a].status # "none"
          /\ action[a].status \in Yes => action'[a].status \in Yes /\ action'[a].key = action[a].key
          /\ action[a].status \in Decided => action'[a].status = action[a].status
    /\ \A k \in Updates : k < offset => session'[k].mode = session[k].mode

\* An action is one of an update or the owner's copy of one.
LEMMA Numbers ==
    ASSUME ActionConstants
    PROVE  /\ \A a \in Updates : a \in ActionIds /\ OwnersCopy(a) \in ActionIds /\ OwnersCopy(a) \notin Updates
           /\ \A a \in ActionIds : a \notin Updates => \E b \in Updates : a = OwnersCopy(b)
           /\ \A a, b \in Updates : OwnersCopy(a) = OwnersCopy(b) => a = b
<1>1. MaxUpdates \in Nat
  BY DEF ActionConstants
<1>2. ASSUME NEW a \in ActionIds, a \notin Updates PROVE \E b \in Updates : a = OwnersCopy(b)
  <2>1. a - MaxUpdates \in Updates /\ a = MaxUpdates + (a - MaxUpdates)
    BY <1>1, <1>2 DEF ActionIds, Updates
  <2> QED BY <2>1 DEF OwnersCopy
<1>3. \A a \in Updates : a \in ActionIds /\ OwnersCopy(a) \in ActionIds /\ OwnersCopy(a) \notin Updates
  BY <1>1 DEF ActionIds, Updates, OwnersCopy
<1>4. \A a, b \in Updates : OwnersCopy(a) = OwnersCopy(b) => a = b
  BY <1>1 DEF Updates, OwnersCopy
<1> QED BY <1>2, <1>3, <1>4

\* What an action is about was said before, and what was confirmed before this update.
LEMMA Keys ==
    ASSUME ActionConstants, Typed, Known, NEW a \in ActionIds, action[a].status # "none"
    PROVE  /\ action[a].key \in Updates /\ action[a].key <= Len(inbox) /\ action[a].key <= offset
           /\ action[a].status \in Yes => action[a].key < offset
<1>1. MaxUpdates \in Nat /\ Len(inbox) \in Nat /\ Len(inbox) <= MaxUpdates /\ offset \in Nat
  BY DEF ActionConstants, Typed
<1>2. ASSUME NEW b \in Updates, action[b].status # "none"
      PROVE  /\ action[b].key \in Updates /\ action[b].key <= Len(inbox) /\ action[b].key <= offset
             /\ action[b].status \in Yes => action[b].key < offset
  <2>1. Proposed(b)
    BY DEF Known
  <2> QED BY <1>1, <1>2, <2>1 DEF Proposed, Updates, Yes
<1>3. CASE a \in Updates
  BY <1>2, <1>3
<1>4. CASE a \notin Updates
  <2>1. PICK b \in Updates : a = OwnersCopy(b)
    BY <1>4, Numbers
  <2>2. action[a].key = action[b].key /\ action[b].status \in Yes
    BY <2>1 DEF Known, Copied
  <2>3. action[b].status # "none"
    BY <2>2 DEF Yes
  <2> QED BY <1>2, <2>2, <2>3
<1> QED BY <1>3, <1>4

LEMMA StaysApproved ==
    ASSUME ActionConstants, Typed, Known, Steady, NEW a \in ActionIds, Approved(a)
    PROVE  Approved(a)' /\ action'[a].key = action[a].key
<1>1. action[a].status # "none" /\ action[a].status \in Yes
  BY DEF Approved, Yes
<1>2. /\ action'[a].conv = action[a].conv /\ action'[a].key = action[a].key
      /\ action'[a].status \in Yes
  BY <1>1 DEF Steady
<1>3. action[a].key \in Updates /\ action[a].key <= Len(inbox) /\ action[a].key < offset
  BY <1>1, Keys
<1>4. session'[action[a].key].mode = session[action[a].key].mode
  BY <1>3 DEF Steady
<1>5. action[a].key \in 1..Len(inbox)
  BY <1>3 DEF Updates, Typed, ActionConstants
<1>6. inbox'[action[a].key] = inbox[action[a].key]
  BY <1>5 DEF Steady
<1> QED BY <1>2, <1>4, <1>6 DEF Approved

LEMMA StaysSound ==
    ASSUME ActionConstants, Typed, Known, Steady, NEW u \in 1..Len(inbox), NEW t \in StepOf, Sound(t, u)
    PROVE  Sound(t, u)'
<1>0. inbox'[u] = inbox[u] /\ Len(inbox) \in Nat
  BY DEF Steady, Typed
<1>1. t.do = "propose" =>
        t.id = u /\ Asks(u)' /\ t.key \in 1..u /\ inbox'[t.key].from = inbox'[u].from
  <2> SUFFICES ASSUME t.do = "propose"
               PROVE  t.id = u /\ Asks(u)' /\ t.key \in 1..u /\ inbox'[t.key].from = inbox'[u].from
    OBVIOUS
  <2>1. t.id = u /\ Asks(u) /\ t.key \in 1..u /\ inbox[t.key].from = inbox[u].from
    BY DEF Sound
  <2>2. t.key \in 1..Len(inbox)
    BY <2>1, <1>0
  <2>3. inbox'[t.key] = inbox[t.key]
    BY <2>2 DEF Steady
  <2> QED BY <1>0, <2>1, <2>3 DEF Asks
<1>2. t.do \in {"create", "ready"} =>
        t.id \in ActionIds /\ Approved(t.id)' /\ t.key = action'[t.id].key
  BY StaysApproved DEF Sound
<1>3. t.do = "execute" =>
        t.id \in ActionIds /\ action'[t.id].status # "none" /\ action'[t.id].conv = inbox'[u].from
  BY <1>0 DEF Sound, Steady
<1>4. t.do = "complete" => t.id \in ActionIds /\ action'[t.id].status \in Yes
  BY DEF Sound, Steady, Yes
<1>5. t.do = "hand_over" => t.id \in Updates /\ action'[t.id].status \in Yes
  BY Numbers DEF Sound, Steady, Yes
<1> QED BY <1>1, <1>2, <1>3, <1>4, <1>5 DEF Sound

\* The tasks there are stay approved; a new one is.
LEMMA TasksStay ==
    ASSUME ActionConstants, Typed, Known, Steady, TaskIsApproved,
           \A k \in Updates : task'[k] # "none" /\ task[k] = "none" =>
              \E a \in ActionIds : action[a].key = k /\ Approved(a)
    PROVE  TaskIsApproved'
<1> SUFFICES ASSUME NEW k \in Updates, task'[k] # "none"
             PROVE  \E a \in ActionIds :
                      /\ action'[a].key = k /\ action'[a].status \in {"executing", "completed"}
                      /\ session'[k].mode = "owner_approval" \/ inbox'[k].from = "client"
                            => action'[a].conv = "owner"
  BY DEF TaskIsApproved
<1>1. PICK a \in ActionIds : action[a].key = k /\ Approved(a)
  BY DEF TaskIsApproved, Approved, Yes
<1>2. Approved(a)' /\ action'[a].key = k
  BY <1>1, StaysApproved
<1> QED BY <1>2 DEF Approved, Yes

-----------------------------------------------------------------------------
(* Lists of steps stay good *)

LEMMA Closes ==
    ASSUME NEW l \in Seq(StepOf), Closed(l)
    PROVE  /\ Len(l) \in Nat /\ Len(l) >= 1 /\ Head(l) = l[1]
           /\ l[1].do # "advance" => Len(l) >= 2
           /\ l[1].do \notin {"mark", "advance"} => Len(l) >= 3
  BY DEF Closed

LEMMA PopWorks ==
    ASSUME ActionConstants, Typed, Known, Steady, offset' = offset,
           NEW u, NEW l \in Seq(StepOf), Working(u, l), l[1].do # "advance",
           l[1].do = "consume" => action'[l[1].id].status \in Yes,
           l[1].do = "propose" => action'[l[1].id].status # "none",
           l[1].do = "hand_over" => action'[OwnersCopy(l[1].id)].status # "none"
    PROVE  <<>> \o Tail(l) \in Seq(StepOf) /\ Working(u, <<>> \o Tail(l))'
<1> DEFINE n == Len(l)
           m == <<>> \o Tail(l)
<1>1. n \in Nat /\ n >= 2 /\ l[n].do = "advance" /\ (n > 2 => l[n - 1].do = "mark")
  BY Closes DEF Working, Closed
<1>2. m \in Seq(StepOf) /\ Len(m) = n - 1 /\ \A i \in 1..(n - 1) : m[i] = l[i + 1]
  BY <1>1
<1> HIDE DEF m, n
<1>3. Closed(m)
  BY <1>1, <1>2 DEF Closed
<1>4. u = offset' /\ u \in 1..Len(inbox) /\ u \in 1..Len(inbox')
  BY DEF Working, Steady, Typed
<1>5. ASSUME NEW i \in 1..Len(m) PROVE Sound(m[i], u)' /\ Ordered(m, i)'
  <2> DEFINE t == m[i]
  <2>1. i \in 1..(n - 1) /\ i + 1 \in 1..n /\ t = l[i + 1] /\ n = Len(l)
    BY <1>1, <1>2 DEF n
  <2>2. t \in StepOf /\ Sound(t, u) /\ Ordered(l, i + 1)
    BY <2>1 DEF Working
  <2>3. Sound(t, u)'
    BY <1>4, <2>2, StaysSound
  <2>4. t.do = "execute" => action'[t.id].status \in Yes
    <3> SUFFICES ASSUME t.do = "execute" PROVE action'[t.id].status \in Yes
      OBVIOUS
    <3>1. t.id \in ActionIds /\ action[t.id].status # "none"
      BY <2>2 DEF Sound
    <3>2. action[t.id].status \in Yes \/ (l[1].do = "consume" /\ l[1].id = t.id)
      BY <2>1, <2>2 DEF Ordered
    <3> QED BY <3>1, <3>2 DEF Steady
  <2>5. t.do # "hand_over"
    BY <2>1, <2>2 DEF Ordered
  <2>6. t.do = "show" => \/ action'[t.id].status # "none"
                         \/ i > 1 /\ m[i - 1].do = "propose" /\ m[i - 1].id = t.id
    <3> SUFFICES ASSUME t.do = "show"
                 PROVE  \/ action'[t.id].status # "none"
                        \/ i > 1 /\ m[i - 1].do = "propose" /\ m[i - 1].id = t.id
      OBVIOUS
    <3>1. t.id \in ActionIds
      BY <2>2 DEF Sound
    <3>2. \/ action[t.id].status # "none"
          \/ l[i].do = "propose" /\ l[i].id = t.id
          \/ l[1].do = "hand_over" /\ OwnersCopy(l[1].id) = t.id
      BY <2>1, <2>2 DEF Ordered
    <3>3. CASE action[t.id].status # "none"
      BY <3>1, <3>3 DEF Steady
    <3>4. CASE l[i].do = "propose" /\ l[i].id = t.id
      <4>1. CASE i = 1
        BY <3>4, <4>1
      <4>2. CASE i # 1
        <5>1. i - 1 \in 1..(n - 1) /\ (i - 1) + 1 = i
          BY <1>1, <2>1, <4>2
        <5>2. m[i - 1] = l[i]
          BY <1>2, <5>1
        <5> QED BY <3>4, <4>2, <5>2, <2>1
      <4> QED BY <4>1, <4>2
    <3>5. CASE l[1].do = "hand_over" /\ OwnersCopy(l[1].id) = t.id
      BY <3>5
    <3> QED BY <3>2, <3>3, <3>4, <3>5
  <2>7. Ordered(m, i)'
    BY <2>4, <2>5, <2>6 DEF Ordered
  <2> QED BY <2>3, <2>7
<1>6. Working(u, m)'
  BY <1>3, <1>4, <1>5 DEF Working, Closed
<1> QED BY <1>2, <1>6 DEF m

\* A list of steps that can be put before those that are left.
Good(f, u) == f \in Seq(StepOf) /\ \A i \in 1..Len(f) : Sound(f[i], u) /\ Ordered(f, i)

LEMMA ExtendWorks ==
    ASSUME NEW u, NEW l \in Seq(StepOf), Working(u, l), l[1].do \in {"handle", "execute"},
           NEW f, Good(f, u)
    PROVE  f \o Tail(l) \in Seq(StepOf) /\ Working(u, f \o Tail(l))
<1> DEFINE n == Len(l)
           k == Len(f)
           m == f \o Tail(l)
<1>1. /\ n \in Nat /\ n >= 3 /\ l[n].do = "advance" /\ l[n - 1].do = "mark"
      /\ k \in Nat /\ f \in Seq(StepOf)
  BY Closes DEF Working, Closed, Good
<1>2. /\ m \in Seq(StepOf) /\ Len(m) = k + n - 1
      /\ \A i \in 1..k : m[i] = f[i]
      /\ \A i \in 1..(k + n - 1) : i > k => m[i] = l[i - k + 1]
  BY <1>1, Listed
<1>3. \A i \in 1..n : Sound(l[i], u) /\ Ordered(l, i)
  BY DEF Working
<1>4. \A i \in 1..k : Sound(f[i], u) /\ Ordered(f, i)
  BY DEF Good
<1> HIDE DEF m, n, k
<1>5. Closed(m)
  <2>1. k + n - 1 \in 1..(k + n - 1) /\ k + n - 2 \in 1..(k + n - 1)
    BY <1>1
  <2>2. m[k + n - 1] = l[n] /\ m[k + n - 2] = l[n - 1]
    BY <1>1, <1>2, <2>1
  <2> QED BY <1>1, <1>2, <2>2 DEF Closed
<1>6. ASSUME NEW i \in 1..Len(m) PROVE Sound(m[i], u) /\ Ordered(m, i)
  <2>1. i \in 1..(k + n - 1) /\ i \in Nat
    BY <1>1, <1>2
  <2>2. CASE i <= k
    <3>0. i \in 1..k /\ 1 \in 1..k /\ (i > 1 => i - 1 \in 1..k)
      BY <1>1, <2>1, <2>2
    <3>1. i \in 1..k /\ m[i] = f[i] /\ m[1] = f[1] /\ (i > 1 => m[i - 1] = f[i - 1])
      BY <1>2, <3>0
    <3>2. Sound(f[i], u) /\ Ordered(f, i)
      BY <1>4, <3>1
    <3> QED BY <3>1, <3>2 DEF Ordered
  <2>3. CASE i > k
    <3> DEFINE j == i - k + 1
    <3>1. j \in 2..n /\ m[i] = l[j] /\ (j > 2 => m[i - 1] = l[j - 1])
      BY <1>1, <1>2, <2>1, <2>3
    <3> HIDE DEF j
    <3>2. Sound(l[j], u) /\ Ordered(l, j)
      BY <1>1, <1>3, <3>1
    <3>3. j > 1 /\ j # 1 /\ (j = 2 => l[j - 1] = l[1]) /\ (j > 2 => i > 1)
      BY <1>1, <3>1, <2>3 DEF j
    <3>4. Ordered(m, i)
      <4>1. m[i].do = "execute" => action[m[i].id].status \in Yes
        BY <3>1, <3>2 DEF Ordered
      <4>2. m[i].do # "hand_over"
        BY <3>1, <3>2, <3>3 DEF Ordered
      <4>3. m[i].do = "show" => \/ action[m[i].id].status # "none"
                                \/ i > 1 /\ m[i - 1].do = "propose" /\ m[i - 1].id = m[i].id
        BY <3>1, <3>2, <3>3 DEF Ordered
      <4> QED BY <4>1, <4>2, <4>3 DEF Ordered
    <3> QED BY <3>1, <3>2, <3>4
  <2> QED BY <2>1, <2>2, <2>3, <1>1
<1>7. Working(u, m)
  BY <1>5, <1>6 DEF Working
<1> QED BY <1>2, <1>7 DEF m

\* What is left when an action turns out to be taken.
LEMMA ClosingWorks ==
    ASSUME ActionConstants, NEW u, NEW l \in Seq(StepOf), Working(u, l), l[1].do \notin {"mark", "advance"}
    PROVE  /\ Tell \o SubSeq(l, Len(l) - 1, Len(l)) \in Seq(StepOf)
           /\ Working(u, Tell \o SubSeq(l, Len(l) - 1, Len(l)))
<1> DEFINE n == Len(l)
           c == SubSeq(l, n - 1, n)
           m == Tell \o c
<1>1. n \in Nat /\ n >= 3 /\ l[n].do = "advance" /\ l[n - 1].do = "mark"
  BY Closes DEF Working, Closed
<1>2. c \in Seq(StepOf) /\ Len(c) = 2 /\ c[1] = l[n - 1] /\ c[2] = l[n]
  BY <1>1
<1>3. /\ Tell \in Seq(StepOf) /\ Len(Tell) = 1 /\ Tell[1].do = "tell"
  BY DEF Tell, Steps, Step, StepOf, Doings, ActionConstants
<1> HIDE DEF c
<1>4. /\ m \in Seq(StepOf) /\ Len(m) = 3
      /\ m[1].do = "tell" /\ m[2].do = "mark" /\ m[3].do = "advance"
  <2>1. /\ m \in Seq(StepOf) /\ Len(m) = 1 + 2
        /\ \A i \in 1..1 : m[i] = Tell[i]
        /\ \A i \in 1..(1 + 2) : i > 1 => m[i] = c[i - 1]
    <3>1. Tell \in Seq(StepOf) /\ c \in Seq(StepOf)
      BY <1>2, <1>3
    <3>2. /\ m \in Seq(StepOf) /\ Len(m) = Len(Tell) + Len(c)
          /\ \A i \in 1..Len(Tell) : m[i] = Tell[i]
          /\ \A i \in 1..(Len(Tell) + Len(c)) : i > Len(Tell) => m[i] = c[i - Len(Tell)]
      BY <3>1, Joined
    <3> HIDE DEF m
    <3> QED BY <3>2, <1>2, <1>3
  <2> HIDE DEF m
  <2>2. m[1] = Tell[1] /\ m[2] = c[1] /\ m[3] = c[2]
    BY <2>1
  <2> QED BY <1>1, <1>2, <1>3, <2>1, <2>2
<1> HIDE DEF m
<1>5. Closed(m)
  BY <1>4 DEF Closed
<1>6. \A i \in 1..Len(m) : m[i].do \in {"tell", "mark", "advance"}
  BY <1>4
<1>7. \A i \in 1..Len(m) : Sound(m[i], u) /\ Ordered(m, i)
  BY <1>6 DEF Sound, Ordered
<1>8. Working(u, m)
  BY <1>5, <1>7 DEF Working
<1> QED BY <1>4, <1>8 DEF m, c

-----------------------------------------------------------------------------
(* Handlers stay good *)

HandTyped == hand \in [Handlers -> [update : Nat, todo : Seq(StepOf)]]
HandsGood == HandTyped /\ AtWork /\ OneAtWork
Data == <<inbox, offset, session, action>>

LEMMA StaysWorking ==
    ASSUME UNCHANGED Data, NEW u, NEW l, Working(u, l)
    PROVE  Working(u, l)'
  BY DEF Data, Working, Sound, Ordered, Approved, Asks, Closed

\* The one handler that is at work goes on with what is good, or rests.
LEMMA OneMoves ==
    ASSUME OneAtWork, NEW h \in Handlers, Busy(h), NEW u, NEW l,
           HandTyped', hand'[h].update = u, hand'[h].todo = l, u # 0 => Working(u, l)',
           \A g \in Handlers \ {h} : hand'[g] = hand[g]
    PROVE  HandsGood'
<1>1. \A g \in Handlers \ {h} : ~Busy(g)'
  BY DEF OneAtWork, Busy
<1>2. OneAtWork'
  BY <1>1 DEF OneAtWork
<1>3. ASSUME NEW g \in Handlers, Busy(g)' PROVE Working(hand[g].update, hand[g].todo)'
  <2>1. g = h /\ u # 0
    BY <1>1, <1>3 DEF Busy
  <2> QED BY <2>1
<1> QED BY <1>2, <1>3 DEF HandsGood, AtWork

LEMMA Goes ==
    ASSUME Typed, NEW h \in Handlers, NEW f, Then(h, f), f \o Tail(hand[h].todo) \in Seq(StepOf)
    PROVE  /\ HandTyped'
           /\ hand'[h].update = hand[h].update /\ hand'[h].todo = f \o Tail(hand[h].todo)
           /\ \A g \in Handlers \ {h} : hand'[g] = hand[g]
<1> DEFINE l == f \o Tail(hand[h].todo)
<1>0. hand' = [hand EXCEPT ![h].todo = l]
  BY DEF Then
<1> HIDE DEF l
<1>1. hand \in [Handlers -> [update : Nat, todo : Seq(StepOf)]]
  BY DEF Typed
<1>2. hand[h] \in [update : Nat, todo : Seq(StepOf)] /\ l \in Seq(StepOf)
  BY <1>1 DEF l
<1>3. hand'[h] = [hand[h] EXCEPT !.todo = l] /\ \A g \in Handlers \ {h} : hand'[g] = hand[g]
  BY <1>0, <1>1
<1>4. hand'[h] \in [update : Nat, todo : Seq(StepOf)] /\ hand'[h].update = hand[h].update /\ hand'[h].todo = l
  BY <1>2, <1>3
<1>5. hand' = [g \in Handlers |-> hand'[g]]
  BY <1>0, <1>1
<1>6. HandTyped'
  BY <1>1, <1>3, <1>4, <1>5 DEF HandTyped
<1> QED BY <1>3, <1>4, <1>6 DEF l

\* What a busy handler is at.
LEMMA BusyAt ==
    ASSUME ActionConstants, IInv, NEW h \in Handlers, Busy(h)
    PROVE  /\ hand[h].todo \in Seq(StepOf) /\ Working(hand[h].update, hand[h].todo)
           /\ Now(h) = hand[h].todo[1] /\ Now(h) \in StepOf /\ Sound(Now(h), hand[h].update)
           /\ Ordered(hand[h].todo, 1)
           /\ hand[h].update = offset /\ hand[h].update \in 1..Len(inbox)
           /\ hand[h].update \in Updates
<1> DEFINE l == hand[h].todo
           u == hand[h].update
<1>1. l \in Seq(StepOf) /\ Working(u, l)
  BY DEF IInv, Typed, AtWork
<1>2. Len(l) \in Nat /\ Len(l) >= 1 /\ Now(h) = l[1]
  BY <1>1, Closes DEF Working, Now
<1>3. 1 \in 1..Len(l)
  BY <1>2
<1>4. l[1] \in StepOf /\ Sound(l[1], u) /\ Ordered(l, 1) /\ u = offset /\ u \in 1..Len(inbox)
  BY <1>1, <1>3 DEF Working
<1>5. u \in Updates
  BY <1>4 DEF IInv, Typed, Updates, ActionConstants
<1> QED BY <1>1, <1>2, <1>4, <1>5

LEMMA PopStep ==
    ASSUME ActionConstants, IInv, NEW h \in Handlers, Busy(h), Pop(h),
           Steady, offset' = offset, Now(h).do # "advance",
           Now(h).do = "consume" => action'[Now(h).id].status \in Yes,
           Now(h).do = "propose" => action'[Now(h).id].status # "none",
           Now(h).do = "hand_over" => action'[OwnersCopy(Now(h).id)].status # "none"
    PROVE  HandsGood'
<1>1. PICK u, l : u = hand[h].update /\ l = hand[h].todo
  OBVIOUS
<1>2. l \in Seq(StepOf) /\ Working(u, l) /\ Now(h) = l[1]
  BY <1>1, BusyAt
<1>3. <<>> \o Tail(l) \in Seq(StepOf) /\ Working(u, <<>> \o Tail(l))'
  BY <1>2, PopWorks DEF IInv
<1>4. /\ HandTyped' /\ hand'[h].update = u /\ hand'[h].todo = <<>> \o Tail(l)
      /\ \A g \in Handlers \ {h} : hand'[g] = hand[g]
  BY <1>1, <1>3, Goes DEF IInv, Pop
<1>5. PICK m : m = <<>> \o Tail(l)
  OBVIOUS
<1> QED BY <1>3, <1>4, <1>5, OneMoves DEF IInv

LEMMA PlanStep ==
    ASSUME ActionConstants, IInv, NEW h \in Handlers, At(h, "handle") \/ At(h, "execute"),
           NEW f, Good(f, hand[h].update), Then(h, f), UNCHANGED Data
    PROVE  HandsGood'
<1>1. PICK u, l : u = hand[h].update /\ l = hand[h].todo
  OBVIOUS
<1>2. l \in Seq(StepOf) /\ Working(u, l) /\ Now(h) = l[1] /\ Busy(h)
  BY <1>1, BusyAt DEF At
<1>3. f \o Tail(l) \in Seq(StepOf) /\ Working(u, f \o Tail(l))
  BY <1>1, <1>2, ExtendWorks DEF At
<1>4. PICK m : m = f \o Tail(l)
  OBVIOUS
<1>5. Working(u, m)'
  BY <1>3, <1>4, StaysWorking
<1>6. /\ HandTyped' /\ hand'[h].update = u /\ hand'[h].todo = m
      /\ \A g \in Handlers \ {h} : hand'[g] = hand[g]
  BY <1>1, <1>3, <1>4, Goes DEF IInv
<1> QED BY <1>2, <1>5, <1>6, OneMoves DEF IInv

\* A handler that is done, or failed.
LEMMA RestStep ==
    ASSUME IInv, NEW h \in Handlers, Busy(h), hand' = [hand EXCEPT ![h] = Idle]
    PROVE  HandsGood'
<1>1. hand \in [Handlers -> [update : Nat, todo : Seq(StepOf)]]
  BY DEF IInv, Typed
<1>2. Idle \in [update : Nat, todo : Seq(StepOf)] /\ Idle.update = 0
  BY DEF Idle
<1>3. HandTyped' /\ hand'[h] = Idle /\ \A g \in Handlers \ {h} : hand'[g] = hand[g]
  BY <1>1, <1>2 DEF HandTyped
<1>4. hand'[h].update = 0 /\ hand'[h].todo = <<>>
  BY <1>3 DEF Idle
<1>5. \A g \in Handlers : ~Busy(g)'
  BY <1>3, <1>4 DEF Busy, IInv, OneAtWork
<1> QED BY <1>3, <1>5 DEF HandsGood, AtWork, OneAtWork

-----------------------------------------------------------------------------
(* Plans are good *)

\* A step that relies on no step before it.
Firm(t, u) ==
    /\ Sound(t, u) /\ t.do # "hand_over"
    /\ t.do = "execute" => action[t.id].status \in Yes
    /\ t.do = "show" => action[t.id].status # "none"
FirmList(f, u) == f \in Seq(StepOf) /\ \A i \in 1..Len(f) : Firm(f[i], u)

LEMMA FirmIsGood ==
    ASSUME NEW u, NEW f, FirmList(f, u) PROVE Good(f, u)
  BY DEF FirmList, Firm, Good, Ordered

LEMMA FirmOne ==
    ASSUME NEW u, NEW t \in StepOf, Firm(t, u) PROVE FirmList(<<t>>, u)
  BY DEF FirmList

LEMMA FirmJoined ==
    ASSUME NEW u, NEW f, NEW g, FirmList(f, u), FirmList(g, u) PROVE FirmList(f \o g, u)
<1> DEFINE m == f \o g
<1>1. f \in Seq(StepOf) /\ g \in Seq(StepOf) /\ Len(f) \in Nat /\ Len(g) \in Nat
  BY DEF FirmList
<1>2. /\ m \in Seq(StepOf) /\ Len(m) = Len(f) + Len(g)
      /\ \A i \in 1..Len(f) : m[i] = f[i]
      /\ \A i \in 1..(Len(f) + Len(g)) : i > Len(f) => m[i] = g[i - Len(f)]
  BY <1>1, Joined
<1> HIDE DEF m
<1>3. ASSUME NEW i \in 1..Len(m) PROVE Firm(m[i], u)
  <2>1. CASE i <= Len(f)
    <3>1. i \in 1..Len(f) /\ m[i] = f[i]
      BY <1>1, <1>2, <2>1
    <3> QED BY <3>1 DEF FirmList
  <2>2. CASE i > Len(f)
    <3>1. i - Len(f) \in 1..Len(g) /\ m[i] = g[i - Len(f)]
      BY <1>1, <1>2, <2>2
    <3> QED BY <3>1 DEF FirmList
  <2> QED BY <2>1, <2>2, <1>1, <1>2
<1> QED BY <1>2, <1>3 DEF FirmList, m

LEMMA GoodJoined ==
    ASSUME NEW u, NEW f, NEW g, Good(f, u), FirmList(g, u) PROVE Good(f \o g, u)
<1> DEFINE m == f \o g
<1>1. f \in Seq(StepOf) /\ g \in Seq(StepOf) /\ Len(f) \in Nat /\ Len(g) \in Nat
  BY DEF FirmList, Good
<1>2. /\ m \in Seq(StepOf) /\ Len(m) = Len(f) + Len(g)
      /\ \A i \in 1..Len(f) : m[i] = f[i]
      /\ \A i \in 1..(Len(f) + Len(g)) : i > Len(f) => m[i] = g[i - Len(f)]
  BY <1>1, Joined
<1> HIDE DEF m
<1>3. ASSUME NEW i \in 1..Len(m) PROVE Sound(m[i], u) /\ Ordered(m, i)
  <2>1. CASE i <= Len(f)
    <3>0. i \in 1..Len(f) /\ 1 \in 1..Len(f) /\ (i > 1 => i - 1 \in 1..Len(f))
      BY <1>1, <1>2, <2>1
    <3>1. m[i] = f[i] /\ m[1] = f[1] /\ (i > 1 => m[i - 1] = f[i - 1])
      BY <3>0, <1>2
    <3>2. Sound(f[i], u) /\ Ordered(f, i)
      BY <3>0 DEF Good
    <3> QED BY <3>1, <3>2 DEF Ordered
  <2>2. CASE i > Len(f)
    <3>1. i - Len(f) \in 1..Len(g) /\ m[i] = g[i - Len(f)]
      BY <1>1, <1>2, <2>2
    <3>2. Firm(m[i], u)
      BY <3>1 DEF FirmList
    <3> QED BY <3>2 DEF Firm, Ordered
  <2> QED BY <2>1, <2>2, <1>1, <1>2
<1> QED BY <1>2, <1>3 DEF Good, m

LEMMA ThreeOf ==
    ASSUME NEW T, NEW x \in T, NEW g \in Seq(T), Len(g) = 2
    PROVE  LET l == <<x>> \o g
           IN  l \in Seq(T) /\ Len(l) = 3 /\ l[1] = x /\ l[2] = g[1] /\ l[3] = g[2]
<1> DEFINE f == <<x>>
           l == f \o g
<1>1. f \in Seq(T) /\ Len(f) = 1 /\ f[1] = x
  OBVIOUS
<1> HIDE DEF f
<1>2. /\ l \in Seq(T) /\ Len(l) = Len(f) + Len(g)
      /\ \A i \in 1..Len(f) : l[i] = f[i]
      /\ \A i \in 1..(Len(f) + Len(g)) : i > Len(f) => l[i] = g[i - Len(f)]
  BY <1>1, Joined
<1> HIDE DEF l
<1>3. l[1] = x /\ l[2] = g[1] /\ l[3] = g[2] /\ Len(l) = 3
  BY <1>1, <1>2
<1> QED BY <1>2, <1>3 DEF l, f

LEMMA StepTyped ==
    ASSUME ActionConstants, NEW do \in Doings, NEW a \in ActionIds \cup {0}, NEW k \in Updates \cup {0}
    PROVE  Step(do, a, k) \in StepOf
  BY DEF Step, StepOf, ActionIds, Updates, ActionConstants

LEMMA TellFirm ==
    ASSUME ActionConstants, NEW u PROVE FirmList(Tell, u) /\ FirmList(<<>>, u)
<1>1. Step("tell", 0, 0) \in StepOf
  BY StepTyped DEF Doings
<1>2. Firm(Step("tell", 0, 0), u)
  BY DEF Firm, Sound, Step
<1>3. FirmList(<<>>, u)
  BY DEF FirmList
<1> QED BY <1>1, <1>2, <1>3, FirmOne DEF Tell, Steps

LEMMA ShowFirm ==
    ASSUME ActionConstants, NEW u, NEW a \in ActionIds, action[a].status # "none"
    PROVE  FirmList(Show(a), u)
<1>1. Step("show", a, 0) \in StepOf
  BY StepTyped DEF Doings
<1>2. Firm(Step("show", a, 0), u)
  BY DEF Firm, Sound, Step
<1> QED BY <1>1, <1>2, FirmOne DEF Show

\* A request is proposed, and its card shown.
LEMMA ProposeGood ==
    ASSUME ActionConstants, NEW u \in Updates, Asks(u), NEW s \in 1..u, inbox[s].from = inbox[u].from
    PROVE  /\ Good(Propose(u, s), u)
           /\ Good(<<Step("complete_draft", 0, s)>> \o Propose(u, s), u)
<1> DEFINE d == Step("complete_draft", 0, s)
           p == Step("propose", u, s)
           c == Step("show", u, 0)
           two == <<p>> \o <<c>>
           three == <<d>> \o two
<1>0. u \in ActionIds /\ s \in Updates /\ s \in 1..u
  BY Numbers DEF Updates, ActionConstants
<1>1. d \in StepOf /\ p \in StepOf /\ c \in StepOf
  BY <1>0, StepTyped DEF Doings
<1>2. Sound(d, u) /\ Sound(p, u) /\ Sound(c, u)
  BY <1>0 DEF Sound, Step
<1>3. d.do = "complete_draft" /\ p.do = "propose" /\ c.do = "show" /\ p.id = u /\ c.id = u
  BY DEF Step
<1> HIDE DEF d, p, c
<1>4. two \in Seq(StepOf) /\ Len(two) = 2 /\ two[1] = p /\ two[2] = c
  BY <1>1
<1>5. three \in Seq(StepOf) /\ Len(three) = 3 /\ three[1] = d /\ three[2] = two[1] /\ three[3] = two[2]
  BY <1>1, <1>4, ThreeOf
<1> HIDE DEF two, three
<1>6. \A i \in 1..2 : Sound(two[i], u) /\ Ordered(two, i)
  <2>1. Ordered(two, 1) /\ Ordered(two, 2)
    BY <1>3, <1>4 DEF Ordered
  <2> QED BY <2>1, <1>2, <1>4
<1>7. \A i \in 1..3 : Sound(three[i], u) /\ Ordered(three, i)
  <2>1. Ordered(three, 1) /\ Ordered(three, 2) /\ Ordered(three, 3)
    BY <1>3, <1>4, <1>5 DEF Ordered
  <2> QED BY <2>1, <1>2, <1>4, <1>5
<1>8. Good(two, u) /\ Good(three, u)
  BY <1>4, <1>5, <1>6, <1>7 DEF Good
<1> QED BY <1>8 DEF two, three, Propose, Show, d, p, c

\* An action is confirmed, then carried out, by one in whose hands it is.
LEMMA ConfirmGood ==
    ASSUME ActionConstants, Typed, Known, NEW u \in Updates, u = offset, ~Asks(u),
           NEW a \in ActionIds, action[a].status \in Open, action[a].conv = inbox[u].from
    PROVE  Good(Confirming(a), u) /\ Good(PressingYes(a), u)
<1> DEFINE c == Step("consume", a, 0)
           t == Step("tell", 0, 0)
           e == Step("execute", a, 0)
           two == <<c, e>>
           three == <<c>> \o Tell \o <<e>>
<1>1. c \in StepOf /\ t \in StepOf /\ e \in StepOf
  BY StepTyped DEF Doings
<1>2. action[a].status # "none"
  BY DEF Open
<1>3. a \in Updates => a < u
  <2> SUFFICES ASSUME a \in Updates PROVE a < u
    OBVIOUS
  <2>1. a <= offset /\ Asks(a)
    BY <1>2 DEF Known, Proposed
  <2> QED BY <2>1 DEF Updates, ActionConstants
<1>4. Sound(c, u) /\ Sound(t, u) /\ Sound(e, u)
  BY <1>2, <1>3 DEF Sound, Step
<1>5. /\ c.do = "consume" /\ t.do = "tell" /\ e.do = "execute" /\ c.id = a /\ e.id = a
      /\ Tell = <<t>>
  BY DEF Step, Tell, Steps
<1> HIDE DEF c, t, e
<1>6. two \in Seq(StepOf) /\ Len(two) = 2 /\ two[1] = c /\ two[2] = e
  BY <1>1
<1>7. three \in Seq(StepOf) /\ Len(three) = 3 /\ three[1] = c /\ three[2] = t /\ three[3] = e
  <2> DEFINE g == <<c>> \o <<t>>
  <2>1. g \in Seq(StepOf) /\ Len(g) = 2 /\ g[1] = c /\ g[2] = t
    BY <1>1
  <2> DEFINE k == <<e>>
  <2>2. k \in Seq(StepOf) /\ Len(k) = 1 /\ k[1] = e
    BY <1>1
  <2> HIDE DEF g, k
  <2> DEFINE l == g \o k
  <2>3. /\ l \in Seq(StepOf) /\ Len(l) = Len(g) + Len(k)
        /\ \A i \in 1..Len(g) : l[i] = g[i]
        /\ \A i \in 1..(Len(g) + Len(k)) : i > Len(g) => l[i] = k[i - Len(g)]
    BY <2>1, <2>2, Joined
  <2> HIDE DEF l
  <2>4. l[1] = c /\ l[2] = t /\ l[3] = e /\ Len(l) = 3
    BY <2>1, <2>2, <2>3
  <2> QED BY <2>3, <2>4, <1>5 DEF l, g, k
<1> HIDE DEF two, three
<1>8. \A i \in 1..2 : Sound(two[i], u) /\ Ordered(two, i)
  <2>1. Ordered(two, 1) /\ Ordered(two, 2)
    BY <1>5, <1>6 DEF Ordered
  <2> QED BY <2>1, <1>4, <1>6
<1>9. \A i \in 1..3 : Sound(three[i], u) /\ Ordered(three, i)
  <2>1. Ordered(three, 1) /\ Ordered(three, 2) /\ Ordered(three, 3)
    BY <1>5, <1>7 DEF Ordered
  <2> QED BY <2>1, <1>4, <1>7
<1>10. Good(two, u) /\ Good(three, u)
  BY <1>6, <1>7, <1>8, <1>9 DEF Good
<1>11. CASE action[a].status = "pending"
  BY <1>10, <1>11 DEF two, three, c, e, Confirming, PressingYes
<1>12. CASE action[a].status = "executing"
  <2>1. Firm(e, u)
    BY <1>4, <1>5, <1>12 DEF Firm, Yes
  <2>2. FirmList(<<e>>, u) /\ FirmList(Tell, u)
    BY <2>1, <1>1, FirmOne, TellFirm
  <2>3. Good(<<e>>, u) /\ Good(Tell \o <<e>>, u)
    BY <2>2, FirmJoined, FirmIsGood
  <2> QED BY <2>3, <1>12 DEF e, Confirming, PressingYes
<1> QED BY <1>11, <1>12 DEF Open

LEMMA CancelGood ==
    ASSUME ActionConstants, Typed, Known, NEW u \in Updates, u = offset, ~Asks(u),
           NEW a \in ActionIds, action[a].status = "pending"
    PROVE  Good(Cancelling(a), u)
<1> DEFINE c == Step("cancel", a, 0)
           d == Step("drop", 0, action[a].key)
<1>1. action[a].key \in Updates
  BY Keys
<1>2. a \in Updates => a < u
  <2> SUFFICES ASSUME a \in Updates PROVE a < u
    OBVIOUS
  <2>1. a <= offset /\ Asks(a)
    BY DEF Known, Proposed
  <2> QED BY <2>1 DEF Updates, ActionConstants
<1>3. c \in StepOf /\ d \in StepOf
  BY <1>1, StepTyped DEF Doings
<1>4. Firm(c, u) /\ Firm(d, u)
  BY <1>1, <1>2 DEF Firm, Sound, Step
<1>5. FirmList(<<c, d>>, u)
  <2> HIDE DEF c, d
  <2> QED BY <1>3, <1>4 DEF FirmList
<1> QED BY <1>5, TellFirm, FirmJoined, FirmIsGood DEF Cancelling

LEMMA LatestActionIs ==
    ASSUME Typed, NEW c, NEW statuses, LatestAction(c, statuses) # 0
    PROVE  LET a == LatestAction(c, statuses)
           IN  a \in ActionIds /\ action[a].conv = c /\ action[a].status \in statuses
<1>1. latest.actions \in Seq(ActionIds)
  BY DEF Typed
<1>2. LatestAction(c, statuses) \in {a \in ActionIds : action[a].conv = c /\ action[a].status \in statuses}
  BY <1>1, LatestIsOne DEF LatestAction
<1> QED BY <1>2

LEMMA CollectingIs ==
    ASSUME ActionConstants, Typed, Known, NEW c, Collecting(c) # 0
    PROVE  /\ Collecting(c) \in Updates /\ Collecting(c) \in 1..Len(inbox)
           /\ Collecting(c) <= offset /\ inbox[Collecting(c)].from = c
<1> DEFINE S == {u \in DOMAIN inbox : inbox[u].from = c}
           s == LatestOf(latest.drafts, S)
<1>1. s # 0 /\ session[s].status = "collecting" /\ Collecting(c) = s
  BY DEF Collecting
<1>2. s \in S
  BY <1>1, LatestIsOne DEF Typed
<1> HIDE DEF s
<1>3. s \in 1..Len(inbox) /\ inbox[s].from = c /\ s \in Updates
  BY <1>2 DEF Typed, Updates, ActionConstants
<1>4. s <= offset
  BY <1>1, <1>3 DEF Known
<1> QED BY <1>1, <1>3, <1>4

\* What an update calls for.
LEMMA PlanGood ==
    ASSUME ActionConstants, Typed, Known, NEW u \in Updates, u = offset, u \in 1..Len(inbox)
    PROVE  Good(Plan(inbox[u].from, u, inbox[u]), u)
<1> DEFINE c == inbox[u].from
           said == inbox[u]
           s == Collecting(c)
<1>0. Good(Tell, u) /\ Good(<<>>, u) /\ u \in 1..u
  BY TellFirm, FirmIsGood DEF Updates, ActionConstants
<1>1. inbox[u] \in Content
  BY DEF Typed
<1>2. CASE said.what = "ask"
  <2>1. Asks(u)
    BY <1>2 DEF Asks
  <2>2. Good(Propose(u, u), u)
    BY <1>0, <2>1, ProposeGood
  <2>3. action[u].status = "pending" => Good(Show(u), u)
    BY Numbers, ShowFirm, FirmIsGood
  <2>4. Good(Asking(u), u)
    BY <1>0, <2>2, <2>3 DEF Asking
  <2> QED BY <2>4, <1>2 DEF Plan
<1>3. CASE said.what = "yes"
  <2> DEFINE a == LatestAction(c, Open)
  <2>1. ~Asks(u)
    BY <1>3 DEF Asks
  <2>2. a # 0 => a \in ActionIds /\ action[a].conv = c /\ action[a].status \in Open
    BY LatestActionIs
  <2>3. a # 0 => Good(Confirming(a), u)
    BY <2>1, <2>2, ConfirmGood
  <2>4. Good(Approving(c), u)
    BY <2>3, <1>0 DEF Approving
  <2> QED BY <2>4, <1>3 DEF Plan
<1>4. CASE said.what = "no"
  <2> DEFINE a == LatestAction(c, {"pending"})
  <2>1. ~Asks(u)
    BY <1>4 DEF Asks
  <2>2. a # 0 => a \in ActionIds /\ action[a].status = "pending"
    BY LatestActionIs
  <2>3. a # 0 => Good(Cancelling(a), u)
    BY <2>1, <2>2, CancelGood
  <2>4. s # 0 => Good(<<Step("drop", 0, s)>> \o Tell, u)
    <3> SUFFICES ASSUME s # 0 PROVE Good(<<Step("drop", 0, s)>> \o Tell, u)
      OBVIOUS
    <3>1. s \in Updates
      BY CollectingIs
    <3>2. Step("drop", 0, s) \in StepOf /\ Firm(Step("drop", 0, s), u)
      BY <3>1, StepTyped DEF Doings, Firm, Sound, Step
    <3> QED BY <3>2, FirmOne, TellFirm, FirmJoined, FirmIsGood
  <2>5. Good(Rejecting(c), u)
    BY <2>3, <2>4, <1>0 DEF Rejecting
  <2> QED BY <2>5, <1>4 DEF Plan
<1>5. CASE said.what \in {"press", "unpress"}
  <2> DEFINE a == said.id
  <2>1. ~Asks(u)
    BY <1>5 DEF Asks
  <2>2. a \in ActionIds /\ action[a].status # "none" /\ action[a].conv = c
    BY <1>5 DEF Known, Pressed
  <2>3. Good(PressingYes(a), u)
    <3>1. CASE action[a].status \in Open
      BY <2>1, <2>2, <3>1, ConfirmGood
    <3>2. CASE action[a].status \notin Open
      BY <3>2, <1>0 DEF PressingYes, Open
    <3> QED BY <3>1, <3>2
  <2>4. Good(PressingNo(a), u)
    BY <2>1, <2>2, CancelGood, <1>0 DEF PressingNo
  <2>5. CASE said.what = "press"
    BY <2>3, <2>5 DEF Plan
  <2>6. CASE said.what = "unpress"
    BY <2>4, <2>6 DEF Plan
  <2> QED BY <2>5, <2>6, <1>5
<1>6. CASE said.what \in {"easy", "risky", "vague"}
  <2>1. Asks(u)
    BY <1>6 DEF Asks
  <2>2. \A k \in 1..u : Good(<<Step("collect", 0, k)>> \o Tell, u)
    <3> SUFFICES ASSUME NEW k \in 1..u PROVE Good(<<Step("collect", 0, k)>> \o Tell, u)
      OBVIOUS
    <3>1. k \in Updates
      BY DEF Updates, ActionConstants
    <3>2. Step("collect", 0, k) \in StepOf /\ Firm(Step("collect", 0, k), u)
      BY <3>1, StepTyped DEF Doings, Firm, Sound, Step
    <3> QED BY <3>2, FirmOne, TellFirm, FirmJoined, FirmIsGood
  <2>3. CASE s # 0
    <3>1. s \in 1..u /\ inbox[s].from = c
      BY <2>3, CollectingIs DEF Typed
    <3>2. Good(Clarifying(u, s, said.what), u)
      BY <3>1, <2>1, <2>2, ProposeGood DEF Clarifying
    <3> QED BY <3>2, <2>3, <1>6 DEF Plan
  <2>4. CASE s = 0
    <3>1. Good(Drafting(c, u, said.what), u)
      BY <1>0, <2>1, <2>2, ProposeGood DEF Drafting
    <3> QED BY <3>1, <2>4, <1>6 DEF Plan
  <2> QED BY <2>3, <2>4
<1> QED BY <1>1, <1>2, <1>3, <1>4, <1>5, <1>6 DEF Content

\* The task of an action that was confirmed, when it is for its person to confirm.
LEMMA CreatingGood ==
    ASSUME ActionConstants, Typed, Known, NEW u \in Updates, NEW a \in ActionIds,
           action[a].status \in Yes, ~NeedsOwner(a, action[a].conv)
    PROVE  Good(Creating(a), u)
<1> DEFINE k == action[a].key
           x1 == Step("create", a, k)
           x2 == Step("ready", a, k)
           x3 == Step("finish", 0, k)
           x4 == Step("complete", a, 0)
           x5 == Step("subscribe", a, k)
<1>1. k \in Updates /\ action[a].status # "none"
  BY Keys DEF Yes
<1>2. inbox[k].from = "client" => action[a].conv = "owner"
  <2> SUFFICES ASSUME inbox[k].from = "client" PROVE action[a].conv = "owner"
    OBVIOUS
  <2>1. CASE a \in Updates
    BY <1>1, <2>1 DEF Known, Proposed
  <2>2. CASE a \notin Updates
    <3>1. PICK b \in Updates : a = OwnersCopy(b)
      BY <2>2, Numbers
    <3> QED BY <3>1, <1>1 DEF Known, Copied
  <2> QED BY <2>1, <2>2
<1>3. Approved(a)
  BY <1>2 DEF Approved, NeedsOwner
<1>4. x1 \in StepOf /\ x2 \in StepOf /\ x3 \in StepOf /\ x4 \in StepOf /\ x5 \in StepOf
  BY <1>1, StepTyped DEF Doings
<1>5. Firm(x1, u) /\ Firm(x2, u) /\ Firm(x3, u) /\ Firm(x4, u) /\ Firm(x5, u)
  BY <1>1, <1>3 DEF Firm, Sound, Step
<1>6. FirmList(<<x1, x2, x3, x4, x5>>, u)
  <2> HIDE DEF x1, x2, x3, x4, x5
  <2> DEFINE l == <<x1, x2, x3, x4, x5>>
  <2>1. l \in Seq(StepOf) /\ Len(l) = 5
    BY <1>4
  <2>2. \A i \in 1..5 : Firm(l[i], u)
    BY <1>5
  <2> HIDE DEF l
  <2>3. FirmList(l, u)
    BY <2>1, <2>2 DEF FirmList
  <2> QED BY <2>3 DEF l
<1> QED BY <1>6, TellFirm, FirmJoined, FirmIsGood DEF Creating

\* Otherwise it goes to the owner.
LEMMA RoutingGood ==
    ASSUME ActionConstants, Typed, Known, NEW u \in Updates, NEW a \in Updates, action[a].status \in Yes
    PROVE  Good(Routing(a), u)
<1> DEFINE k == action[a].key
           b == OwnersCopy(a)
           x1 == Step("hand_over", a, 0)
           x2 == Step("await_owner", 0, k)
           x3 == Step("complete", a, 0)
           x4 == Step("show", b, 0)
<1>0. a \in ActionIds /\ b \in ActionIds
  BY Numbers
<1>1. k \in Updates
  BY <1>0, Keys DEF Yes
<1>2. x1 \in StepOf /\ x2 \in StepOf /\ x3 \in StepOf /\ x4 \in StepOf
  BY <1>0, <1>1, StepTyped DEF Doings
<1>3. Sound(x1, u) /\ Sound(x2, u) /\ Firm(x3, u) /\ Sound(x3, u) /\ Sound(x4, u)
  BY <1>0, <1>1 DEF Firm, Sound, Step
<1>4. FirmList(<<x3>> \o Tell, u)
  BY <1>2, <1>3, FirmOne, TellFirm, FirmJoined
<1>5. CASE action[b].status = "none"
  <2> DEFINE f == <<x1, x2, x3>>
             g == <<x4>>
             l == f \o g
  <2>1. f \in Seq(StepOf) /\ Len(f) = 3 /\ f[1] = x1 /\ f[2] = x2 /\ f[3] = x3
    <3> HIDE DEF x1, x2, x3
    <3> QED BY <1>2
  <2>2. g \in Seq(StepOf) /\ Len(g) = 1 /\ g[1] = x4
    <3> HIDE DEF x4
    <3> QED BY <1>2
  <2>3. x1.do = "hand_over" /\ x1.id = a /\ x2.do = "await_owner" /\ x3.do = "complete" /\ x4.do = "show" /\ x4.id = b
    BY DEF Step
  <2> HIDE DEF f, g, x1, x2, x3, x4
  <2>4. /\ l \in Seq(StepOf) /\ Len(l) = Len(f) + Len(g)
        /\ \A i \in 1..Len(f) : l[i] = f[i]
        /\ \A i \in 1..(Len(f) + Len(g)) : i > Len(f) => l[i] = g[i - Len(f)]
    BY <2>1, <2>2, Joined
  <2> HIDE DEF l
  <2>5. Len(l) = 4 /\ l[1] = x1 /\ l[2] = x2 /\ l[3] = x3 /\ l[4] = x4
    BY <2>1, <2>2, <2>4
  <2>6. Ordered(l, 1) /\ Ordered(l, 2) /\ Ordered(l, 3) /\ Ordered(l, 4)
    BY <1>5, <2>3, <2>5 DEF Ordered
  <2>7. \A i \in 1..4 : Sound(l[i], u) /\ Ordered(l, i)
    BY <1>3, <2>5, <2>6
  <2>8. Good(l, u)
    BY <2>4, <2>5, <2>7 DEF Good
  <2>9. Good(l \o Tell, u)
    BY <2>8, TellFirm, GoodJoined
  <2> QED BY <2>9, <1>5 DEF Routing, Show, l, f, g, x1, x2, x3, x4
<1>6. CASE action[b].status # "none"
  <2>1. FirmList(IF action[b].status = "pending" THEN Show(b) ELSE <<>>, u)
    BY <1>0, <1>6, ShowFirm, TellFirm
  <2> DEFINE first == IF action[b].status = "pending" THEN Show(b) ELSE <<>>
  <2>2. FirmList(first \o <<x3>>, u)
    BY <2>1, <1>2, <1>3, FirmOne, FirmJoined
  <2>3. Good((first \o <<x3>>) \o Tell, u)
    BY <2>2, TellFirm, FirmJoined, FirmIsGood
  <2> QED BY <2>3, <1>6 DEF Routing
<1> QED BY <1>5, <1>6

-----------------------------------------------------------------------------
(* Every step keeps the invariant *)

LEMMA UnchangedSteady ==
    ASSUME Typed, UNCHANGED Data PROVE Steady
  BY DEF Typed, Data, Steady

\* A step that leaves updates, drafts and actions alone.
LEMMA QuietStep ==
    ASSUME ActionConstants, IInv, UNCHANGED <<Data, latest>>, HandsGood',
           task' \in [Updates -> {"none", "new", "ready"}],
           shown' \in [cards : SUBSET ActionIds, subscribed : SUBSET Updates],
           \A a \in shown'.cards : action[a].status # "none",
           \A k \in Updates : task'[k] # "none" /\ task[k] = "none" =>
              \E a \in ActionIds : action[a].key = k /\ Approved(a)
    PROVE  IInv' /\ Steady
<1>1. Steady /\ UNCHANGED Data
  BY UnchangedSteady DEF IInv, Data
<1>2. Typed'
  BY DEF IInv, Typed, HandsGood, HandTyped, Data
<1>3. Known'
  BY DEF IInv, Known, Proposed, Copied, Pressed, Asks, Yes, Data
<1>4. TaskIsApproved'
  BY <1>1, TasksStay DEF IInv
<1> QED BY <1>1, <1>2, <1>3, <1>4 DEF IInv, HandsGood

LEMMA QuietAll ==
    ASSUME ActionConstants, IInv, UNCHANGED <<Data, latest, task, shown>>, HandsGood'
    PROVE  IInv' /\ Steady
  BY QuietStep DEF IInv, Typed, Known

LEMMA ReceiveStep ==
    ASSUME ActionConstants, Polling, IInv, NEW h \in Handlers, Receive(h), UNCHANGED avars
    PROVE  IInv' /\ Steady
<1>1. PICK u \in 1..Len(inbox) :
        /\ Due(u)
        /\ hand' = [hand EXCEPT ![h] =
              [update |-> u,
               todo |-> IF u \in processed THEN Steps("advance")
                        ELSE Steps("handle") \o Steps("mark") \o Steps("advance")]]
  BY DEF Receive
<1>2. u = offset /\ \A g \in Handlers : ~Busy(g)
  BY <1>1 DEF Due
<1> DEFINE x == Step("handle", 0, 0)
           y == Step("mark", 0, 0)
           z == Step("advance", 0, 0)
           l == IF u \in processed THEN <<z>> ELSE <<x>> \o <<y>> \o <<z>>
<1>3. x \in StepOf /\ y \in StepOf /\ z \in StepOf
  BY StepTyped DEF Doings
<1>4. Firm(x, u) /\ Firm(y, u) /\ Firm(z, u)
  BY DEF Firm, Sound, Step
<1>5. FirmList(<<z>>, u) /\ FirmList(<<x>> \o <<y>> \o <<z>>, u)
  BY <1>3, <1>4, FirmOne, FirmJoined
<1>6. Good(l, u)
  BY <1>5, FirmIsGood
<1>7. Closed(l)
  <2>1. y.do = "mark" /\ z.do = "advance"
    BY DEF Step
  <2> HIDE DEF x, y, z
  <2>2. Closed(<<z>>)
    BY <2>1 DEF Closed
  <2>3. Closed(<<x>> \o <<y>> \o <<z>>)
    <3> DEFINE g == <<x>> \o <<y>>
               k == <<z>>
               m == g \o k
    <3>1. g \in Seq(StepOf) /\ Len(g) = 2 /\ g[1] = x /\ g[2] = y
      BY <1>3
    <3>2. k \in Seq(StepOf) /\ Len(k) = 1 /\ k[1] = z
      BY <1>3
    <3> HIDE DEF g, k
    <3>3. /\ m \in Seq(StepOf) /\ Len(m) = Len(g) + Len(k)
          /\ \A i \in 1..Len(g) : m[i] = g[i]
          /\ \A i \in 1..(Len(g) + Len(k)) : i > Len(g) => m[i] = k[i - Len(g)]
      BY <3>1, <3>2, Joined
    <3> HIDE DEF m
    <3>4. m[2] = y /\ m[3] = z /\ Len(m) = 3
      BY <3>1, <3>2, <3>3
    <3>5. Closed(m)
      BY <2>1, <3>4 DEF Closed
    <3> QED BY <3>5 DEF m, g, k
  <2> QED BY <2>2, <2>3
<1>8. hand' = [hand EXCEPT ![h] = [update |-> u, todo |-> l]]
  BY <1>1 DEF Steps
<1>9. UNCHANGED <<Data, latest, task, shown>>
  BY DEF Receive, Data, avars
<1> HIDE DEF l
<1>10. l \in Seq(StepOf) /\ Working(u, l)
  BY <1>2, <1>6, <1>7 DEF Good, Working
<1>11. PICK v, m : v = u /\ m = l
  OBVIOUS
<1>12. Working(v, m)'
  BY <1>9, <1>10, <1>11, StaysWorking
<1>13. hand \in [Handlers -> [update : Nat, todo : Seq(StepOf)]] /\ u \in Nat
  BY DEF IInv, Typed
<1>14. /\ HandTyped' /\ hand'[h].update = v /\ hand'[h].todo = m
       /\ \A g \in Handlers \ {h} : hand'[g] = hand[g]
  BY <1>8, <1>10, <1>11, <1>13 DEF HandTyped
<1>15. \A g \in Handlers \ {h} : ~Busy(g)'
  BY <1>2, <1>14 DEF Busy
<1>16. AtWork' /\ OneAtWork'
  BY <1>12, <1>14, <1>15 DEF AtWork, OneAtWork
<1> QED BY <1>9, <1>14, <1>16, QuietAll DEF HandsGood

LEMMA MarkStep ==
    ASSUME ActionConstants, IInv, NEW h \in Handlers, Mark(h), UNCHANGED avars
    PROVE  IInv' /\ Steady
<1>1. UNCHANGED <<Data, latest, task, shown>> /\ offset' = offset
  BY DEF Mark, Data, avars
<1>2. Steady
  BY <1>1, UnchangedSteady DEF IInv
<1>3. HandsGood'
  BY <1>1, <1>2, PopStep DEF Mark, At
<1> QED BY <1>1, <1>3, QuietAll

LEMMA HandleStep ==
    ASSUME ActionConstants, IInv, NEW h \in Handlers, Handle(h)
    PROVE  IInv' /\ Steady
<1>1. UNCHANGED <<Data, latest, task, shown>> /\ At(h, "handle") /\ Busy(h)
  BY DEF Handle, Data, avars, At
<1> DEFINE u == hand[h].update
<1>2. u \in Updates /\ u = offset /\ u \in 1..Len(inbox)
  BY <1>1, BusyAt
<1>3. Good(Plan(inbox[u].from, u, inbox[u]), u)
  BY <1>2, PlanGood DEF IInv
<1>4. Then(h, Plan(inbox[u].from, u, inbox[u]))
  BY DEF Handle, Speaker, Said
<1>5. HandsGood'
  BY <1>1, <1>3, <1>4, PlanStep
<1> QED BY <1>1, <1>5, QuietAll

LEMMA ExecuteStep ==
    ASSUME ActionConstants, IInv, NEW h \in Handlers, Execute(h)
    PROVE  IInv' /\ Steady
<1> DEFINE a == Now(h).id
           u == hand[h].update
           f == IF NeedsOwner(a, Speaker(h)) THEN Routing(a) ELSE Creating(a)
<1>1. UNCHANGED <<Data, latest, task, shown>> /\ At(h, "execute") /\ Busy(h) /\ Then(h, f)
  BY DEF Execute, Same, Data, avars, At
<1>2. /\ Now(h) = hand[h].todo[1] /\ Sound(Now(h), u) /\ Ordered(hand[h].todo, 1)
      /\ u \in Updates /\ Now(h).do = "execute"
  BY <1>1, BusyAt DEF At
<1>3. a \in ActionIds /\ action[a].conv = Speaker(h) /\ action[a].status \in Yes
  BY <1>2 DEF Sound, Ordered, Speaker
<1>4. Good(f, u)
  <2>1. CASE NeedsOwner(a, Speaker(h))
    <3>1. action[a].conv # "owner"
      BY <1>3, <2>1 DEF NeedsOwner
    <3>2. a \in Updates
      <4>1. \A b \in Updates : a = OwnersCopy(b) => action[a].status = "none" \/ action[a].conv = "owner"
        BY DEF IInv, Known, Copied
      <4> QED BY <3>1, <1>3, <4>1, Numbers DEF Yes
    <3> QED BY <2>1, <1>2, <1>3, <3>2, RoutingGood DEF IInv
  <2>2. CASE ~NeedsOwner(a, Speaker(h))
    BY <2>2, <1>2, <1>3, CreatingGood DEF IInv
  <2> QED BY <2>1, <2>2
<1>5. HandsGood'
  BY <1>1, <1>4, PlanStep
<1> QED BY <1>1, <1>5, QuietAll

LEMMA InformStep ==
    ASSUME ActionConstants, IInv, NEW h \in Handlers, Inform(h)
    PROVE  IInv' /\ Steady
<1> DEFINE t == Now(h)
<1>1. /\ UNCHANGED <<Data, latest, task>> /\ offset' = offset /\ Pop(h) /\ Busy(h)
      /\ t.do \in {"tell", "show", "subscribe"}
  BY DEF Inform, Same, Data, At
<1>2. t = hand[h].todo[1] /\ Sound(t, hand[h].update) /\ Ordered(hand[h].todo, 1)
  BY <1>1, BusyAt
<1>3. Steady
  BY <1>1, UnchangedSteady DEF IInv
<1>4. HandsGood'
  BY <1>1, <1>3, PopStep
<1>5. shown \in [cards : SUBSET ActionIds, subscribed : SUBSET Updates]
  BY DEF IInv, Typed
<1>6. /\ shown' \in [cards : SUBSET ActionIds, subscribed : SUBSET Updates]
      /\ \A a \in shown'.cards : action[a].status # "none"
  <2>0. \A a \in shown.cards : action[a].status # "none"
    BY DEF IInv, Known
  <2>1. CASE shown' = shown
    BY <1>5, <2>0, <2>1
  <2>2. CASE At(h, "show") /\ shown' = [shown EXCEPT !.cards = @ \cup {t.id}]
    <3>1. t.id \in ActionIds /\ action[t.id].status # "none"
      BY <1>2, <2>2 DEF Sound, Ordered, At
    <3> HIDE DEF t
    <3> QED BY <1>5, <2>0, <2>2, <3>1
  <2>3. CASE At(h, "subscribe") /\ shown' = [shown EXCEPT !.subscribed = @ \cup {t.key}]
    <3>1. t.key \in Updates
      BY <1>2, <2>3 DEF Sound, At
    <3> HIDE DEF t
    <3> QED BY <1>5, <2>0, <2>3, <3>1
  <2> QED BY <2>1, <2>2, <2>3 DEF Inform
<1>7. task' \in [Updates -> {"none", "new", "ready"}] /\ task' = task
  BY <1>1 DEF IInv, Typed
<1> QED BY <1>1, <1>4, <1>6, <1>7, QuietStep

LEMMA CreateStep ==
    ASSUME ActionConstants, IInv, NEW h \in Handlers, CreateTask(h)
    PROVE  IInv' /\ Steady
<1> DEFINE t == Now(h)
<1>1. /\ UNCHANGED <<Data, latest, shown>> /\ offset' = offset /\ Pop(h) /\ Busy(h)
      /\ t.do \in {"create", "ready"}
      /\ task' = [task EXCEPT ![t.key] = IF At(h, "create") THEN (IF @ = "none" THEN "new" ELSE @) ELSE "ready"]
  BY DEF CreateTask, Same, Data, At
<1>2. Sound(t, hand[h].update)
  BY <1>1, BusyAt
<1>3. t.id \in ActionIds /\ Approved(t.id) /\ action[t.id].key = t.key
  BY <1>1, <1>2 DEF Sound
<1>4. t.key \in Updates
  BY <1>3, Keys DEF Approved, Yes, IInv
<1>5. Steady
  BY <1>1, UnchangedSteady DEF IInv
<1>6. HandsGood'
  BY <1>1, <1>5, PopStep
<1>7. task \in [Updates -> {"none", "new", "ready"}]
  BY DEF IInv, Typed
<1>8. /\ task' \in [Updates -> {"none", "new", "ready"}]
      /\ \A k \in Updates : k # t.key => task'[k] = task[k]
  <2> HIDE DEF t
  <2> QED BY <1>1, <1>4, <1>7
<1>9. \A k \in Updates : task'[k] # "none" /\ task[k] = "none" =>
              \E a \in ActionIds : action[a].key = k /\ Approved(a)
  BY <1>3, <1>8
<1>10. /\ shown' \in [cards : SUBSET ActionIds, subscribed : SUBSET Updates]
       /\ \A a \in shown'.cards : action[a].status # "none"
  BY <1>1 DEF IInv, Typed, Known
<1> QED BY <1>1, <1>6, <1>8, <1>9, <1>10, QuietStep

LEMMA FailStep ==
    ASSUME ActionConstants, IInv, NEW h \in Handlers, FailToSend(h)
    PROVE  IInv' /\ Steady
<1>1. UNCHANGED <<Data, latest, task, shown>> /\ Busy(h) /\ hand' = [hand EXCEPT ![h] = Idle]
  BY DEF FailToSend, Fail, Data, avars, At
<1> QED BY <1>1, RestStep, QuietAll

LEMMA CrashStep ==
    ASSUME ActionConstants, IInv, Crash, UNCHANGED avars
    PROVE  IInv' /\ Steady
<1>1. UNCHANGED <<Data, latest, task, shown>> /\ hand' = [h \in Handlers |-> Idle]
  BY DEF Crash, Data, avars
<1>2. Idle \in [update : Nat, todo : Seq(StepOf)] /\ Idle.update = 0
  BY DEF Idle
<1>3. HandsGood'
  BY <1>1, <1>2 DEF HandsGood, HandTyped, AtWork, OneAtWork, Busy
<1> QED BY <1>1, <1>3, QuietAll

LEMMA AdvanceStep ==
    ASSUME ActionConstants, IInv, NEW h \in Handlers, Advance(h), UNCHANGED avars
    PROVE  IInv' /\ Steady
<1>1. /\ UNCHANGED <<inbox, session, action, latest, task, shown>> /\ Busy(h)
      /\ hand' = [hand EXCEPT ![h] = Idle]
      /\ offset' = IF offset > hand[h].update THEN offset ELSE hand[h].update + 1
  BY DEF Advance, avars, At
<1>2. hand[h].update = offset /\ offset \in Nat
  BY <1>1, BusyAt DEF IInv, Typed
<1>3. offset' = offset + 1
  BY <1>1, <1>2
<1>4. HandsGood'
  BY <1>1, RestStep
<1>5. Typed'
  BY <1>1, <1>2, <1>3, <1>4 DEF IInv, Typed, HandsGood, HandTyped
<1>6. \A a \in Updates : Proposed(a)' /\ Copied(a)'
  <2> SUFFICES ASSUME NEW a \in Updates PROVE Proposed(a)' /\ Copied(a)'
    OBVIOUS
  <2>1. Proposed(a) /\ Copied(a) /\ a \in Nat
    BY DEF IInv, Known, Updates, ActionConstants
  <2> QED BY <1>1, <1>2, <1>3, <2>1 DEF Proposed, Copied, Asks, Yes
<1>7. \A s \in Updates : session'[s].status # "none" => s <= offset'
  <2> SUFFICES ASSUME NEW s \in Updates, session[s].status # "none" PROVE s <= offset + 1
    BY <1>1, <1>3
  <2>1. s <= offset /\ s \in Nat
    BY DEF IInv, Known, Updates, ActionConstants
  <2> QED BY <2>1, <1>2
<1>8. Known'
  BY <1>1, <1>6, <1>7 DEF IInv, Known, Pressed
<1>9. Steady
  BY <1>1 DEF Steady, IInv, Typed
<1>10. TaskIsApproved'
  BY <1>1, <1>9, TasksStay DEF IInv
<1> QED BY <1>4, <1>5, <1>8, <1>9, <1>10 DEF IInv, HandsGood

\* People say something.
LEMMA SayStep ==
    ASSUME ActionConstants, IInv, SaySomething
    PROVE  IInv' /\ Steady
<1>1. UNCHANGED <<offset, hand, session, action, latest, task, shown>> /\ Len(inbox) < MaxUpdates
  BY DEF SaySomething, Arrive, avars
<1>2. PICK new \in Content :
        /\ inbox' = Append(inbox, new)
        /\ new.what \in {"press", "unpress"} =>
              /\ new.id \in ActionIds /\ action[new.id].status # "none"
              /\ action[new.id].conv = new.from
  <2>1. PICK s \in Says :
         IF s[2] \in {"press", "unpress"}
         THEN \E a \in shown.cards : /\ action[a].conv = s[1]
                                     /\ Arrive([from |-> s[1], what |-> s[2], id |-> a])
         ELSE Arrive([from |-> s[1], what |-> s[2], id |-> 0])
    BY DEF SaySomething
  <2>2. /\ s[1] \in {"user", "owner", "client"}
        /\ s[2] \in {"easy", "risky", "vague", "ask", "yes", "no", "press", "unpress"}
    BY <2>1 DEF ActionConstants
  <2>3. CASE s[2] \in {"press", "unpress"}
    <3>1. PICK a \in shown.cards : /\ action[a].conv = s[1]
                                   /\ Arrive([from |-> s[1], what |-> s[2], id |-> a])
      BY <2>1, <2>3
    <3>2. a \in ActionIds /\ action[a].status # "none" /\ a \in 0..(2 * MaxUpdates)
      BY <3>1 DEF IInv, Typed, Known, ActionIds, ActionConstants
    <3>3. [from |-> s[1], what |-> s[2], id |-> a] \in Content
      BY <2>2, <3>2 DEF Content
    <3> QED BY <3>1, <3>2, <3>3 DEF Arrive
  <2>4. CASE s[2] \notin {"press", "unpress"}
    <3>1. [from |-> s[1], what |-> s[2], id |-> 0] \in Content
      BY <2>2 DEF Content, ActionConstants
    <3> QED BY <2>1, <2>4, <3>1 DEF Arrive
  <2> QED BY <2>3, <2>4
<1>3. /\ inbox \in Seq(Content) /\ inbox' \in Seq(Content) /\ Len(inbox) \in Nat
      /\ Len(inbox') = Len(inbox) + 1 /\ inbox'[Len(inbox')] = new
      /\ \A i \in 1..Len(inbox) : inbox'[i] = inbox[i]
  BY <1>2 DEF IInv, Typed
<1>4. Len(inbox') <= MaxUpdates
  BY <1>1, <1>3 DEF ActionConstants
<1>5. Typed'
  BY <1>1, <1>3, <1>4 DEF IInv, Typed
<1>6. Steady
  BY <1>1, <1>3 DEF Steady
<1>7. \A a \in Updates : Proposed(a)' /\ Copied(a)'
  <2> SUFFICES ASSUME NEW a \in Updates PROVE Proposed(a)' /\ Copied(a)'
    OBVIOUS
  <2>1. Proposed(a) /\ Copied(a)
    BY DEF IInv, Known
  <2>2. Copied(a)'
    BY <1>1, <2>1 DEF Copied
  <2>3. Proposed(a)'
    <3> SUFFICES ASSUME action[a].status # "none" PROVE Proposed(a)'
      BY <1>1 DEF Proposed
    <3> DEFINE k == action[a].key
    <3>1. a \in 1..Len(inbox) /\ k \in 1..Len(inbox)
      BY <2>1, <1>3 DEF Proposed, Updates, ActionConstants
    <3>2. inbox'[a] = inbox[a] /\ inbox'[k] = inbox[k] /\ a <= Len(inbox')
      BY <1>3, <3>1
    <3> QED BY <1>1, <2>1, <3>2 DEF Proposed, Asks
  <2> QED BY <2>2, <2>3
<1>8. \A i \in 1..Len(inbox') : Pressed(i)'
  <2> SUFFICES ASSUME NEW i \in 1..Len(inbox') PROVE Pressed(i)'
    OBVIOUS
  <2>1. CASE i \in 1..Len(inbox)
    BY <2>1, <1>1, <1>3 DEF IInv, Known, Pressed
  <2>2. CASE i = Len(inbox')
    BY <2>2, <1>1, <1>2, <1>3 DEF Pressed
  <2> QED BY <2>1, <2>2, <1>3
<1>9. Known'
  BY <1>1, <1>7, <1>8 DEF IInv, Known
<1>10. ASSUME NEW h \in Handlers, Busy(h) PROVE Working(hand[h].update, hand[h].todo)'
  <2>1. PICK u, l : u = hand[h].update /\ l = hand[h].todo
    OBVIOUS
  <2>2. Working(u, l) /\ l \in Seq(StepOf)
    BY <1>10, <2>1, BusyAt
  <2>3. u = offset /\ u \in 1..Len(inbox) /\ Closed(l)
    BY <2>2 DEF Working
  <2>4. \A i \in 1..Len(l) : Sound(l[i], u)' /\ Ordered(l, i)'
    <3> SUFFICES ASSUME NEW i \in 1..Len(l) PROVE Sound(l[i], u)' /\ Ordered(l, i)'
      OBVIOUS
    <3>1. PICK t : t = l[i]
      OBVIOUS
    <3>2. t \in StepOf /\ Sound(t, u) /\ Ordered(l, i)
      BY <2>2, <3>1 DEF Working
    <3>3. Sound(t, u)'
      BY <3>2, <2>3, <1>6, StaysSound DEF IInv
    <3>4. Ordered(l, i)'
      BY <3>2, <1>1 DEF Ordered
    <3> QED BY <3>1, <3>3, <3>4
  <2>5. Working(u, l)'
    BY <1>1, <1>3, <2>3, <2>4 DEF Working, Closed
  <2> QED BY <1>1, <2>1, <2>5
<1>11. AtWork' /\ OneAtWork'
  BY <1>1, <1>10 DEF AtWork, OneAtWork, Busy, IInv
<1>12. TaskIsApproved'
  BY <1>1, <1>6, TasksStay DEF IInv
<1> QED BY <1>5, <1>6, <1>9, <1>11, <1>12 DEF IInv

\* A step that changes drafts only.
LEMMA DraftStep ==
    ASSUME ActionConstants, IInv, UNCHANGED <<inbox, offset, action, task, shown>>, HandsGood',
           NEW s \in Updates, s <= offset, session' \in [Updates -> Session],
           \A k \in Updates : k # s => session'[k] = session[k],
           latest' \in [drafts : Seq(Updates), actions : Seq(ActionIds)], Steady
    PROVE  IInv'
<1>1. Typed'
  BY DEF IInv, Typed, HandsGood, HandTyped
<1>2. \A a \in Updates : Proposed(a)' /\ Copied(a)'
  BY DEF IInv, Known, Proposed, Copied, Asks, Yes
<1>3. \A k \in Updates : session'[k].status # "none" => k <= offset'
  BY DEF IInv, Known
<1>4. Known'
  BY <1>2, <1>3 DEF IInv, Known, Pressed
<1>5. TaskIsApproved'
  BY TasksStay DEF IInv
<1> QED BY <1>1, <1>4, <1>5 DEF IInv, HandsGood

LEMMA WriteStep ==
    ASSUME ActionConstants, IInv, NEW h \in Handlers, Write(h)
    PROVE  IInv' /\ Steady
<1> DEFINE s == Now(h).key
           u == hand[h].update
           new == [status |-> IF At(h, "collect") THEN "collecting" ELSE "awaiting_user_confirmation",
                   mode   |-> IF s # u THEN session[s].mode
                              ELSE IF Said(h).what = "risky" THEN "owner_approval" ELSE "auto_ready"]
<1>1. /\ UNCHANGED <<inbox, offset, action, task, shown>> /\ Pop(h) /\ Busy(h)
      /\ Now(h).do \in {"collect", "complete_draft"}
      /\ session' = [session EXCEPT ![s] = new]
      /\ latest' = [latest EXCEPT !.drafts = Touch(@, s)]
  BY DEF Write, Same, At
<1>2. Sound(Now(h), u) /\ u = offset /\ u \in Updates
  BY <1>1, BusyAt
<1>3. s \in 1..u /\ s \in Updates /\ s <= offset
  BY <1>1, <1>2 DEF Sound, Updates, ActionConstants
<1>4. session \in [Updates -> Session] /\ latest \in [drafts : Seq(Updates), actions : Seq(ActionIds)]
  BY DEF IInv, Typed
<1>5. new \in Session /\ (s # u => new.mode = session[s].mode)
  <2>1. session[s] \in Session
    BY <1>3, <1>4
  <2>2. session[s].mode \in {"auto_ready", "owner_approval"}
    BY <2>1 DEF Session
  <2> QED BY <2>2 DEF Session, ActiveDraft
<1> HIDE DEF new, s, u
<1>6. /\ session' \in [Updates -> Session] /\ session'[s] = new
      /\ \A k \in Updates : k # s => session'[k] = session[k]
  BY <1>1, <1>3, <1>4, <1>5
<1>7. latest' \in [drafts : Seq(Updates), actions : Seq(ActionIds)]
  <2>1. Touch(latest.drafts, s) \in Seq(Updates)
    BY <1>3, <1>4, OrderTyped
  <2> QED BY <1>1, <1>4, <2>1
<1>8. \A k \in Updates : k < offset => session'[k].mode = session[k].mode
  BY <1>2, <1>5, <1>6 DEF Updates, ActionConstants
<1>9. Steady
  BY <1>1, <1>8 DEF Steady, IInv, Typed
<1>10. HandsGood'
  BY <1>1, <1>9, PopStep
<1> QED BY <1>1, <1>3, <1>6, <1>7, <1>9, <1>10, DraftStep

LEMMA SettleStep ==
    ASSUME ActionConstants, IInv, NEW h \in Handlers, Settle(h)
    PROVE  IInv' /\ Steady
<1> DEFINE s == Now(h).key
           status == CASE At(h, "drop")   -> "cancelled"
                       [] At(h, "finish") -> "completed"
                       [] OTHER           -> "awaiting_owner_approval"
<1>1. /\ UNCHANGED <<inbox, offset, action, task, shown>> /\ Pop(h) /\ Busy(h)
      /\ Now(h).do \in {"drop", "finish", "await_owner"}
      /\ IF session[s].status = "none" THEN UNCHANGED <<session, latest>> ELSE SetSession(s, status)
  BY DEF Settle, Same, At
<1>2. Sound(Now(h), hand[h].update)
  BY <1>1, BusyAt
<1>3. s \in Updates
  BY <1>1, <1>2 DEF Sound
<1>4. status \in {"cancelled", "completed", "awaiting_owner_approval"}
  OBVIOUS
<1> HIDE DEF status, s
<1>5. CASE session[s].status = "none"
  <2>1. UNCHANGED <<Data, latest, task, shown>> /\ offset' = offset
    BY <1>1, <1>5 DEF Data
  <2>2. Steady
    BY <2>1, UnchangedSteady DEF IInv
  <2>3. HandsGood'
    BY <1>1, <2>1, <2>2, PopStep
  <2> QED BY <2>1, <2>3, QuietAll
<1>6. CASE session[s].status # "none"
  <2>1. /\ session' = [session EXCEPT ![s].status = status]
        /\ latest' = [latest EXCEPT !.drafts = IF status \in ActiveDraft THEN Touch(@, s) ELSE Forget(@, s)]
    BY <1>1, <1>6 DEF SetSession
  <2>2. session \in [Updates -> Session] /\ latest \in [drafts : Seq(Updates), actions : Seq(ActionIds)]
    BY DEF IInv, Typed
  <2>3. session[s] \in Session /\ [session[s] EXCEPT !.status = status] \in Session
    BY <1>3, <1>4, <2>2 DEF Session, ActiveDraft
  <2>4. /\ session' \in [Updates -> Session] /\ session'[s].mode = session[s].mode
        /\ \A k \in Updates : k # s => session'[k] = session[k]
    BY <1>3, <2>1, <2>2, <2>3 DEF Session
  <2>5. latest' \in [drafts : Seq(Updates), actions : Seq(ActionIds)]
    <3>1. Touch(latest.drafts, s) \in Seq(Updates) /\ Forget(latest.drafts, s) \in Seq(Updates)
      BY <1>3, <2>2, OrderTyped
    <3> QED BY <2>1, <2>2, <3>1
  <2>6. s <= offset
    BY <1>3, <1>6 DEF IInv, Known
  <2>7. Steady
    BY <1>1, <2>4 DEF Steady, IInv, Typed
  <2>8. HandsGood'
    BY <1>1, <2>7, PopStep
  <2> QED BY <1>1, <1>3, <2>4, <2>5, <2>6, <2>7, <2>8, DraftStep
<1> QED BY <1>5, <1>6

\* A step that changes one action.
LEMMA ActionStep ==
    ASSUME ActionConstants, IInv, UNCHANGED <<inbox, offset, session, task, shown>>, HandsGood',
           action' \in [ActionIds -> Action],
           latest' \in [drafts : Seq(Updates), actions : Seq(ActionIds)], Steady,
           \A a \in Updates : Proposed(a)' /\ Copied(a)'
    PROVE  IInv'
<1>1. Typed'
  BY DEF IInv, Typed, HandsGood, HandTyped
<1>2. \A i \in 1..Len(inbox') : Pressed(i)'
  BY DEF IInv, Known, Pressed, Steady
<1>3. \A a \in shown'.cards : action'[a].status # "none"
  BY DEF IInv, Known, Typed, Steady
<1>4. Known'
  BY <1>2, <1>3 DEF IInv, Known
<1>5. TaskIsApproved'
  BY TasksStay DEF IInv
<1> QED BY <1>1, <1>4, <1>5 DEF IInv, HandsGood

LEMMA ProposeStep ==
    ASSUME ActionConstants, IInv, NEW h \in Handlers, ProposeAction(h)
    PROVE  IInv' /\ Steady
<1> DEFINE t == Now(h)
           u == hand[h].update
           a == IF At(h, "propose") THEN t.id ELSE OwnersCopy(t.id)
           k == IF At(h, "propose") THEN t.key ELSE action[t.id].key
           new == [status |-> "pending",
                   conv |-> IF At(h, "hand_over") \/ Speaker(h) = "client" THEN "owner" ELSE Speaker(h),
                   key |-> k]
<1>1. /\ UNCHANGED <<inbox, offset, session, task, shown>> /\ offset' = offset /\ Pop(h) /\ Busy(h)
      /\ action' = [action EXCEPT ![a] = new] /\ latest' = [latest EXCEPT !.actions = Touch(@, a)]
  BY DEF ProposeAction, Same, At
<1>2. /\ t = hand[h].todo[1] /\ Sound(t, u) /\ Ordered(hand[h].todo, 1)
      /\ u = offset /\ u \in 1..Len(inbox) /\ u \in Updates
  BY <1>1, BusyAt
<1>3. action \in [ActionIds -> Action] /\ latest \in [drafts : Seq(Updates), actions : Seq(ActionIds)]
  BY DEF IInv, Typed
<1>4. inbox[u].from \in {"user", "owner", "client"} /\ Speaker(h) = inbox[u].from
  <2>1. inbox \in Seq(Content)
    BY DEF IInv, Typed
  <2>2. inbox[u] \in Content
    BY <1>2, <2>1
  <2> QED BY <2>2 DEF Content, Speaker
<1>5. MaxUpdates \in Nat
  BY DEF ActionConstants
<1>6. ASSUME a \in ActionIds, new \in Action,
             action[a].status \notin Yes \cup Decided,
             action[a].status # "none" => new.conv = action[a].conv,
             \A b \in Updates : Proposed(b)' /\ Copied(b)',
             t.do # "hand_over" => t.id = a,
             t.do = "hand_over" => OwnersCopy(t.id) = a,
             t.do \in {"propose", "hand_over"}
      PROVE  IInv' /\ Steady
  <2> HIDE DEF a, new, t
  <2>1. /\ action' \in [ActionIds -> Action] /\ action'[a] = new
        /\ \A b \in ActionIds : b # a => action'[b] = action[b]
    BY <1>1, <1>3, <1>6
  <2>2. latest' \in [drafts : Seq(Updates), actions : Seq(ActionIds)]
    <3>1. Touch(latest.actions, a) \in Seq(ActionIds)
      BY <1>3, <1>6, OrderTyped
    <3> QED BY <1>1, <1>3, <3>1
  <2>3. new.status = "pending"
    BY DEF new
  <2>4. Steady
    BY <1>1, <1>6, <2>1, <2>3 DEF Steady, IInv, Typed
  <2>5. HandsGood'
    BY <1>1, <1>6, <2>1, <2>3, <2>4, PopStep DEF t
  <2> QED BY <1>1, <1>6, <2>1, <2>2, <2>4, <2>5, ActionStep
<1>7. CASE At(h, "propose")
  <2>1. /\ a = u /\ k = t.key /\ Asks(u) /\ k \in 1..u /\ inbox[k].from = inbox[u].from
        /\ t.do = "propose" /\ t.id = u
    BY <1>2, <1>7 DEF Sound, At
  <2>2. a \in ActionIds /\ k \in Updates /\ a \in Updates
    BY <1>2, <2>1, <1>5, Numbers DEF Updates
  <2>3. new.conv = IF inbox[u].from = "user" THEN "user" ELSE "owner"
    BY <1>4, <1>7 DEF At
  <2>4. new \in Action /\ new.status = "pending" /\ new.key = k
    <3>1. k \in 0..MaxUpdates /\ new.conv \in {"user", "owner"}
      BY <2>2, <2>3, <1>5 DEF Updates
    <3> QED BY <3>1 DEF Action, Open
  <2>5. Proposed(u)
    BY <1>2 DEF IInv, Known
  <2>6. action[a].status \notin Yes \cup Decided
    <3>1. ~(u < offset) /\ action[u].status \in {"none", "pending"} \cup Yes \cup Decided
      BY <1>2, <1>5, <1>3, <2>1, <2>2 DEF Updates, Action, Open, Yes, Decided
    <3> QED BY <2>1, <2>5, <3>1 DEF Proposed, Yes, Decided
  <2>7. action[a].status # "none" => new.conv = action[a].conv
    BY <2>1, <2>3, <2>5 DEF Proposed
  <2> HIDE DEF new, k, a, t
  <2>8. ASSUME NEW b \in Updates PROVE Proposed(b)' /\ Copied(b)'
    <3>1. Proposed(b) /\ Copied(b) /\ b \in ActionIds /\ OwnersCopy(b) \in ActionIds /\ OwnersCopy(b) # a
      BY <2>2, Numbers DEF IInv, Known
    <3>2. action'[OwnersCopy(b)] = action[OwnersCopy(b)] /\ (b # a => action'[b] = action[b])
      BY <1>1, <1>3, <3>1
    <3>3. action'[a] = new
      BY <1>1, <1>3, <2>2
    <3>4. Proposed(b)'
      <4>1. CASE b = a
        <5>1. a <= offset /\ a <= Len(inbox) /\ k \in 1..a /\ Asks(a)
          BY <1>2, <1>5, <2>1 DEF Updates
        <5> QED BY <4>1, <5>1, <1>1, <2>1, <2>3, <2>4, <3>3 DEF Proposed, Asks
      <4>2. CASE b # a
        BY <4>2, <1>1, <3>1, <3>2 DEF Proposed, Asks
      <4> QED BY <4>1, <4>2
    <3>5. Copied(b)'
      <4>1. CASE b = a
        BY <4>1, <2>6, <3>1, <3>2 DEF Copied
      <4>2. CASE b # a
        BY <4>2, <3>1, <3>2 DEF Copied
      <4> QED BY <4>1, <4>2
    <3> QED BY <3>4, <3>5
  <2> QED BY <1>6, <2>1, <2>2, <2>4, <2>6, <2>7, <2>8
<1>8. CASE At(h, "hand_over")
  <2>1. /\ t.do = "hand_over" /\ t.id \in Updates /\ action[t.id].status \in Yes
        /\ action[OwnersCopy(t.id)].status = "none" /\ a = OwnersCopy(t.id) /\ k = action[t.id].key
    BY <1>2, <1>8 DEF Sound, Ordered, At
  <2>2. a \in ActionIds /\ a \notin Updates /\ t.id \in ActionIds
    BY <2>1, Numbers
  <2>3. k \in Updates
    BY <2>1, <2>2, Keys DEF IInv, Yes
  <2>4. new \in Action /\ new.conv = "owner" /\ new.key = k /\ new.status = "pending"
    BY <1>5, <1>8, <2>3 DEF Action, Open, Updates
  <2>5. action[a].status \notin Yes \cup Decided /\ action[a].status = "none"
    BY <2>1 DEF Yes, Decided
  <2> HIDE DEF new, k, a, t
  <2>6. ASSUME NEW b \in Updates PROVE Proposed(b)' /\ Copied(b)'
    <3>1. Proposed(b) /\ Copied(b) /\ b \in ActionIds /\ OwnersCopy(b) \in ActionIds /\ b # a
      BY <2>2, Numbers DEF IInv, Known
    <3>2. action'[b] = action[b] /\ (OwnersCopy(b) # a => action'[OwnersCopy(b)] = action[OwnersCopy(b)])
      BY <1>1, <1>3, <3>1
    <3>3. action'[a] = new
      BY <1>1, <1>3, <2>2
    <3>4. Proposed(b)'
      BY <1>1, <3>1, <3>2 DEF Proposed, Asks
    <3>5. Copied(b)'
      <4>1. CASE OwnersCopy(b) = a
        <5>1. b = t.id
          BY <4>1, <2>1, Numbers
        <5> QED BY <4>1, <5>1, <2>1, <2>4, <3>2, <3>3 DEF Copied
      <4>2. CASE OwnersCopy(b) # a
        BY <4>2, <3>1, <3>2 DEF Copied
      <4> QED BY <4>1, <4>2
    <3> QED BY <3>4, <3>5
  <2> QED BY <1>6, <2>1, <2>2, <2>4, <2>5, <2>6
<1> QED BY <1>7, <1>8 DEF ProposeAction

\* An action whose status becomes a later one.
LEMMA StatusStep ==
    ASSUME ActionConstants, IInv, NEW h \in Handlers, Busy(h), Pop(h),
           NEW a \in ActionIds, Now(h).id = a, Now(h).do \in {"consume", "cancel", "complete"},
           NEW status \in {"executing", "completed", "cancelled"}, SetAction(a, status),
           UNCHANGED <<inbox, offset, session, task, shown>>,
           \/ action[a].status = "pending" /\ (a \in Updates => a < offset)
           \/ action[a].status \in Yes /\ status = "completed",
           Now(h).do = "consume" => status = "executing"
    PROVE  IInv' /\ Steady
<1>1. /\ action' = [action EXCEPT ![a].status = status]
      /\ latest' = [latest EXCEPT !.actions = IF status \in Open THEN Touch(@, a) ELSE Forget(@, a)]
  BY DEF SetAction
<1>2. action \in [ActionIds -> Action] /\ latest \in [drafts : Seq(Updates), actions : Seq(ActionIds)]
  BY DEF IInv, Typed
<1>3. [action[a] EXCEPT !.status = status] \in Action /\ action[a] \in Action
  BY <1>2 DEF Action, Open
<1>4. /\ action' \in [ActionIds -> Action] /\ action'[a] = [action[a] EXCEPT !.status = status]
      /\ \A b \in ActionIds : b # a => action'[b] = action[b]
  BY <1>1, <1>2, <1>3
<1>5. action'[a].status = status /\ action'[a].conv = action[a].conv /\ action'[a].key = action[a].key
  BY <1>3, <1>4 DEF Action
<1>6. latest' \in [drafts : Seq(Updates), actions : Seq(ActionIds)]
  <2>1. Touch(latest.actions, a) \in Seq(ActionIds) /\ Forget(latest.actions, a) \in Seq(ActionIds)
    BY <1>2, OrderTyped
  <2> QED BY <1>1, <1>2, <2>1
<1>7. Steady
  <2>1. ASSUME NEW b \in ActionIds, action[b].status # "none"
        PROVE  /\ action'[b].conv = action[b].conv
               /\ action'[b].status # "none"
               /\ action[b].status \in Yes => action'[b].status \in Yes /\ action'[b].key = action[b].key
               /\ action[b].status \in Decided => action'[b].status = action[b].status
    BY <2>1, <1>4, <1>5 DEF Yes, Decided
  <2> QED BY <2>1 DEF Steady, IInv, Typed
<1>8. HandsGood'
  BY <1>5, <1>7, PopStep DEF Yes
<1>9. ASSUME NEW b \in Updates PROVE Proposed(b)' /\ Copied(b)'
  <2>1. /\ Proposed(b) /\ Copied(b) /\ b \in ActionIds /\ OwnersCopy(b) \in ActionIds
        /\ OwnersCopy(b) # b
    BY Numbers DEF IInv, Known
  <2>2. Proposed(b)'
    <3>1. CASE b = a
      <4>1. action[b].status # "none" /\ b < offset
        BY <3>1, <2>1 DEF Proposed, Yes
      <4> QED BY <3>1, <4>1, <1>5, <2>1 DEF Proposed, Asks
    <3>2. CASE b # a
      BY <3>2, <1>4, <2>1 DEF Proposed, Asks
    <3> QED BY <3>1, <3>2
  <2>3. Copied(b)'
    <3>1. CASE OwnersCopy(b) = a
      <4>1. action[OwnersCopy(b)].status # "none" /\ action'[b] = action[b]
        BY <3>1, <1>4, <2>1 DEF Yes
      <4> QED BY <3>1, <4>1, <1>5, <2>1 DEF Copied
    <3>2. CASE b = a
      <4>1. action'[OwnersCopy(b)] = action[OwnersCopy(b)]
        BY <3>2, <1>4, <2>1
      <4>2. action[b].status = "pending" => action[OwnersCopy(b)].status = "none"
        BY <2>1 DEF Copied, Yes
      <4> QED BY <3>2, <4>1, <4>2, <1>5, <2>1 DEF Copied, Yes
    <3>3. CASE b # a /\ OwnersCopy(b) # a
      BY <3>3, <1>4, <2>1 DEF Copied
    <3> QED BY <3>1, <3>2, <3>3
  <2> QED BY <2>2, <2>3
<1> QED BY <1>4, <1>6, <1>7, <1>8, <1>9, ActionStep

LEMMA ConsumeStep ==
    ASSUME ActionConstants, IInv, NEW h \in Handlers, Consume(h)
    PROVE  IInv' /\ Steady
<1> DEFINE a == Now(h).id
           u == hand[h].update
           l == hand[h].todo
<1>1. UNCHANGED <<inbox, offset, session, task, shown>> /\ Busy(h) /\ Now(h).do \in {"consume", "cancel"}
  BY DEF Consume, Same, At
<1>2. /\ Sound(Now(h), u) /\ u = offset /\ l \in Seq(StepOf) /\ Working(u, l) /\ Now(h) = l[1]
  BY <1>1, BusyAt
<1>3. a \in ActionIds /\ (a \in Updates => a < offset)
  BY <1>1, <1>2 DEF Sound
<1>4. CASE action[a].status = "pending"
  <2> DEFINE status == IF At(h, "consume") THEN "executing" ELSE "cancelled"
  <2>1. SetAction(a, status) /\ Pop(h)
    BY <1>4 DEF Consume
  <2>2. status \in {"executing", "completed", "cancelled"} /\ (Now(h).do = "consume" => status = "executing")
    BY <1>1 DEF At
  <2> HIDE DEF status
  <2> QED BY <1>1, <1>3, <1>4, <2>1, <2>2, StatusStep
<1>5. CASE action[a].status # "pending"
  <2> DEFINE m == Tell \o SubSeq(l, Len(l) - 1, Len(l))
  <2>1. UNCHANGED <<Data, latest, task, shown>> /\ hand' = [hand EXCEPT ![h].todo = m]
    BY <1>1, <1>5 DEF Consume, Closing, Data
  <2>2. m \in Seq(StepOf) /\ Working(u, m)
    BY <1>1, <1>2, ClosingWorks
  <2> HIDE DEF m
  <2>3. PICK v, n : v = u /\ n = m
    OBVIOUS
  <2>4. Working(v, n)'
    BY <2>1, <2>2, <2>3, StaysWorking
  <2>5. hand \in [Handlers -> [update : Nat, todo : Seq(StepOf)]]
    BY DEF IInv, Typed
  <2>6. hand[h] \in [update : Nat, todo : Seq(StepOf)]
    BY <2>5
  <2>7. /\ hand'[h] = [hand[h] EXCEPT !.todo = m] /\ \A g \in Handlers \ {h} : hand'[g] = hand[g]
        /\ hand' = [g \in Handlers |-> hand'[g]]
    BY <2>1, <2>5
  <2>8. /\ hand'[h] \in [update : Nat, todo : Seq(StepOf)] /\ hand'[h].update = v /\ hand'[h].todo = n
    BY <2>2, <2>3, <2>6, <2>7
  <2>9. HandTyped'
    BY <2>5, <2>7, <2>8 DEF HandTyped
  <2>10. HandsGood'
    BY <1>1, <2>4, <2>7, <2>8, <2>9, OneMoves DEF IInv
  <2> QED BY <2>1, <2>10, QuietAll
<1> QED BY <1>4, <1>5

LEMMA CompleteStep ==
    ASSUME ActionConstants, IInv, NEW h \in Handlers, Complete(h)
    PROVE  IInv' /\ Steady
<1>1. /\ UNCHANGED <<inbox, offset, session, task, shown>> /\ Busy(h) /\ Pop(h)
      /\ Now(h).do = "complete" /\ SetAction(Now(h).id, "completed")
  BY DEF Complete, Same, At
<1>2. Now(h).id \in ActionIds /\ action[Now(h).id].status \in Yes
  BY <1>1, BusyAt DEF Sound
<1> QED BY <1>1, <1>2, StatusStep

-----------------------------------------------------------------------------
(* Theorems *)

LEMMA InitInv ==
    ASSUME ActionConstants, Init PROVE IInv
<1>1. Typed
  <2>1. session \in [Updates -> Session]
    BY DEF Init, Session
  <2>2. action \in [ActionIds -> Action]
    <3>1. [status |-> "none", conv |-> "user", key |-> 0] \in Action
      BY DEF Action, ActionConstants
    <3> QED BY <3>1 DEF Init
  <2>3. hand \in [Handlers -> [update : Nat, todo : Seq(StepOf)]]
    BY DEF Init, UpdatesInit, Idle
  <2>4. inbox \in Seq(Content) /\ Len(inbox) <= MaxUpdates /\ offset \in Nat \ {0}
    BY DEF Init, UpdatesInit, ActionConstants
  <2> QED BY <2>1, <2>2, <2>3, <2>4 DEF Init, Typed
<1>2. Known
  BY Numbers DEF Init, Known, Proposed, Copied, Pressed
<1>3. AtWork /\ OneAtWork
  BY DEF Init, UpdatesInit, AtWork, OneAtWork, Busy, Idle
<1>4. TaskIsApproved
  BY DEF Init, TaskIsApproved
<1> QED BY <1>1, <1>2, <1>3, <1>4 DEF IInv

LEMMA NextInv ==
    ASSUME ActionConstants, Polling, IInv, [Next]_vars PROVE IInv' /\ Steady
<1>1. CASE UNCHANGED vars
  <2>1. UNCHANGED <<Data, latest, task, shown, hand>>
    BY <1>1 DEF vars, avars, uvars, Data
  <2>2. HandsGood'
    BY <2>1, StaysWorking DEF IInv, HandsGood, HandTyped, Typed, AtWork, OneAtWork, Busy
  <2> QED BY <2>1, <2>2, QuietAll
<1>2. CASE SaySomething
  BY <1>2, SayStep
<1>3. CASE Crash /\ UNCHANGED avars
  BY <1>3, CrashStep
<1>4. ASSUME NEW h \in Handlers, Work(h) \/ FailToSend(h) PROVE IInv' /\ Steady
  <2>1. CASE Receive(h) /\ UNCHANGED avars
    BY <2>1, ReceiveStep
  <2>2. CASE Mark(h) /\ UNCHANGED avars
    BY <2>2, MarkStep
  <2>3. CASE Advance(h) /\ UNCHANGED avars
    BY <2>3, AdvanceStep
  <2>4. CASE Handle(h)
    BY <2>4, HandleStep
  <2>5. CASE Write(h)
    BY <2>5, WriteStep
  <2>6. CASE Settle(h)
    BY <2>6, SettleStep
  <2>7. CASE ProposeAction(h)
    BY <2>7, ProposeStep
  <2>8. CASE Consume(h)
    BY <2>8, ConsumeStep
  <2>9. CASE Execute(h)
    BY <2>9, ExecuteStep
  <2>10. CASE CreateTask(h)
    BY <2>10, CreateStep
  <2>11. CASE Complete(h)
    BY <2>11, CompleteStep
  <2>12. CASE Inform(h)
    BY <2>12, InformStep
  <2>13. CASE FailToSend(h)
    BY <2>13, FailStep
  <2> QED BY <1>4, <2>1, <2>2, <2>3, <2>4, <2>5, <2>6, <2>7, <2>8, <2>9, <2>10, <2>11, <2>12, <2>13
          DEF Work, Frame
<1> QED BY <1>1, <1>2, <1>3, <1>4 DEF Next

\* What the steps of a handler rely on holds when they are taken, whatever people do and
\* whatever fails or dies (handleUpdate, completeConfirmedAction, completeCreateTaskAction).
THEOREM ActionInvariant ==
    ASSUME ActionConstants, Polling
    PROVE  Spec => []IInv
<1>1. Init => IInv
  BY InitInv
<1>2. IInv /\ [Next]_vars => IInv'
  BY NextInv
<1> QED BY <1>1, <1>2, PTL DEF Spec

\* No task of the assistant exists without a yes of somebody who may say it: the owner,
\* for what is risky or came from an outsider (completeCreateTaskAction).
THEOREM ApprovedTasks ==
    ASSUME ActionConstants, Polling
    PROVE  Spec => []TaskIsApproved
<1>1. IInv => TaskIsApproved
  BY DEF IInv
<1> QED BY <1>1, ActionInvariant, PTL

\* What was completed or cancelled is not reopened, the owner's decisions among it, though an
\* update is handled again (handleBusinessCreateTaskDraftForOwnerApproval,
\* routeCreateTaskActionToOwnerApproval).
THEOREM DecisionsHold ==
    ASSUME ActionConstants, Polling
    PROVE  Spec => DecidedStays
<1>1. IInv /\ [Next]_vars => KeepsDecided
  <2> SUFFICES ASSUME IInv, [Next]_vars PROVE KeepsDecided
    OBVIOUS
  <2>1. Steady
    BY NextInv
  <2> QED BY <2>1 DEF Steady, KeepsDecided, Decided
<1> QED BY <1>1, ActionInvariant, PTL DEF Spec, DecidedStays
=============================================================================
