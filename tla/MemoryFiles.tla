----------------------------- MODULE MemoryFiles -----------------------------
(***************************************************************************)
(* The memory of one repository (src/domain/memoryStore.ts), which workers *)
(* of several processes keep in files of one directory: a failure is       *)
(* appended to failures.jsonl, and a prompt is given what the files hold   *)
(* (src/domain/promptContext.ts).  Every call first makes the files that   *)
(* are missing, each by a look, a temporary file and a rename.             *)
(*                                                                         *)
(* A file is a sequence of lines: of entries, "default" and "saved" for    *)
(* the knowledge, "torn" for one cut off in the middle, and "bad" for one  *)
(* that does not validate.  What entries say, the choice of those that go  *)
(* into a prompt and its layout are left out.                              *)
(*                                                                         *)
(* A definition whose name has a suffix after an underscore is a seeded    *)
(* fault of the definition below it; no specification uses it.             *)
(***************************************************************************)
EXTENDS Naturals, Sequences, FiniteSets, Functions, TLC

CONSTANTS
    Stores,     \* instances of FileMemoryStore, each in a process of its own
    Strict,     \* MEMORY_STRICT
    MaxCalls,   \* bound: calls in all
    Curated,    \* files people change: at most one in a behaviour
    MaxFaults   \* bound: crashes and failed writes

VARIABLES
    content,    \* of each file
    disabled,   \* stores that gave the repository up
    call,       \* what each store is doing
    recorded,   \* entries whose append returned
    risked,     \* entries appended while somebody was about to make the file
    edited,     \* files people changed
    calls, faults

vars == <<content, disabled, call, recorded, risked, edited, calls, faults>>

Files  == <<"metadata", "knowledge", "rules", "failures", "learning">>
Absent == <<"absent">>
Fallback == <<"fallback">>
Default(f) == IF f \in {"failures", "learning"} THEN <<>> ELSE <<"default">>

\* What a call does after it has made the files: a prompt reads three.
Loads == <<"knowledge", "rules", "failures">>
Idle  == [op |-> "idle", at |-> "idle", file |-> 0, load |-> 0, entry |-> "", got |-> <<>>, blamed |-> {}]

\* parseJson, parseJsonl and the validators.
Valid(f) == content[f] # Absent /\ \A i \in DOMAIN content[f] : content[f][i] \notin {"torn", "bad"}

\* validateRepositoryAt, which `npm run memory:validate` calls for every repository:
\* a file that is missing is no issue.
Issues == {f \in Range(Files) : content[f] # Absent /\ ~Valid(f)}

Making(s) == Files[call[s].file]
Unused == <<content, disabled, recorded, risked, edited, calls, faults>>
Go(s, at) == call' = [call EXCEPT ![s].at = at]
End(s)    == call' = [call EXCEPT ![s] = Idle]

-----------------------------------------------------------------------------
(* Calls *)

Began(s, op) == call' = [call EXCEPT ![s] =
    [Idle EXCEPT !.op = op, !.at = "look", !.file = 1, !.load = 1,
                 !.entry = IF op = "append" THEN ToString(calls + 1) ELSE ""]]

\* appendFailure and saveKnowledge do nothing where the repository is
\* disabled.  (saveKnowledge has no caller in the program.)
Write(s, op) ==
    /\ call[s].op = "idle" /\ calls < MaxCalls
    /\ calls' = calls + 1
    /\ IF s \in disabled THEN UNCHANGED call ELSE Began(s, op)
    /\ UNCHANGED <<content, disabled, recorded, risked, edited, faults>>

\* buildPromptContextBundle: three loads, one after the other.
Build(s) ==
    /\ call[s].op = "idle" /\ calls < MaxCalls
    /\ calls' = calls + 1
    /\ IF s \in disabled THEN UNCHANGED call ELSE Began(s, "bundle")
    /\ UNCHANGED <<content, disabled, recorded, risked, edited, faults>>

\* ensureRepository and writeIfMissing: fileExists, and then atomicWriteFile.
Missing(f) == content[f] = Absent
NextFile(s) ==
    IF call[s].file < Len(Files) THEN [call[s] EXCEPT !.file = @ + 1, !.at = "look"]
    ELSE [call[s] EXCEPT !.at = "use"]
Look(s) ==
    /\ call[s].at = "look"
    /\ IF Missing(Making(s)) THEN Go(s, "write") ELSE call' = [call EXCEPT ![s] = NextFile(s)]
    /\ UNCHANGED Unused

\* atomicWriteFile: the temporary file, and the rename.
Begin_InPlace(f) == content' = [content EXCEPT ![f] = <<"torn">>]
Begin(f) == UNCHANGED content
WriteTemp(s) ==
    /\ call[s].at \in {"write", "save"}
    /\ Begin(IF call[s].at = "save" THEN "knowledge" ELSE Making(s))
    /\ Go(s, IF call[s].at = "save" THEN "rename_save" ELSE "rename")
    /\ UNCHANGED <<disabled, recorded, risked, edited, calls, faults>>
Rename(s) ==
    /\ call[s].at = "rename"
    /\ content' = [content EXCEPT ![Making(s)] = Default(Making(s))]
    /\ call' = [call EXCEPT ![s] = NextFile(s)]
    /\ UNCHANGED <<disabled, recorded, risked, edited, calls, faults>>

\* saveKnowledge
Save(s) ==
    /\ call[s].at = "use" /\ call[s].op = "save"
    /\ Go(s, "save")
    /\ UNCHANGED Unused
Saved(s) ==
    /\ call[s].at = "rename_save"
    /\ content' = [content EXCEPT !["knowledge"] = <<"saved">>]
    /\ End(s)
    /\ UNCHANGED <<disabled, recorded, risked, edited, calls, faults>>

\* appendFailure: one append of one line.  Behind a line that was cut off the
\* entry is part of that line.
AboutToMake(f) == \E s \in Stores : call[s].at \in {"write", "rename"} /\ Making(s) = f
Appended(lines, entry) ==
    LET old == IF lines = Absent THEN <<>> ELSE lines IN
    IF old # <<>> /\ old[Len(old)] = "torn" THEN [old EXCEPT ![Len(old)] = "bad"] ELSE Append(old, entry)
AppendFailure(s) ==
    /\ call[s].at = "use" /\ call[s].op = "append"
    /\ content' = [content EXCEPT !["failures"] = Appended(@, call[s].entry)]
    /\ recorded' = recorded \cup {call[s].entry}
    /\ risked' = IF AboutToMake("failures") THEN risked \cup {call[s].entry} ELSE risked
    /\ End(s)
    /\ UNCHANGED <<disabled, edited, calls, faults>>

\* loadKnowledge, loadPromptRules, loadFailures: a file that does not validate
\* is refused (handleInvalidMemory), and then no more is read.
Disabled(s) == disabled' = disabled \cup {s}
Refused(s) ==
    IF Strict THEN End(s) /\ UNCHANGED disabled
    ELSE /\ Disabled(s)
         /\ call' = [call EXCEPT ![s].at = "built", ![s].blamed = Issues,
                               ![s].got = [l \in 1..Len(Loads) |-> IF l < call[s].load THEN call[s].got[l] ELSE Fallback]]
Load(s) ==
    /\ call[s].at = "use" /\ call[s].op = "bundle"
    /\ LET f == Loads[call[s].load] IN
       IF ~Valid(f) THEN Refused(s)
       ELSE /\ call' = [call EXCEPT ![s].got = Append(@, content[f]), ![s].load = @ + 1, ![s].file = 1,
                                    ![s].at = IF call[s].load = Len(Loads) THEN "built" ELSE "look"]
            /\ UNCHANGED disabled
    /\ UNCHANGED <<content, recorded, risked, edited, calls, faults>>
Used(s) == call[s].at = "built" /\ End(s) /\ UNCHANGED Unused

-----------------------------------------------------------------------------
(* Faults and people *)

\* A write that fails ends the call.
Fail(s) ==
    /\ faults < MaxFaults /\ faults' = faults + 1
    /\ call[s].at \in {"write", "save"} \/ (call[s].at = "use" /\ call[s].op = "append")
    /\ End(s)
    /\ UNCHANGED <<content, disabled, recorded, risked, edited, calls>>

\* The process dies, in the middle of an append perhaps.  Temporary files stay.
Crash(s) ==
    /\ faults < MaxFaults /\ faults' = faults + 1
    /\ disabled' = disabled \ {s}
    /\ \/ UNCHANGED content
       \/ /\ call[s].at = "use" /\ call[s].op = "append"
          /\ content' = [content EXCEPT !["failures"] = Appended(@, "torn")]
    /\ End(s)
    /\ UNCHANGED <<recorded, risked, edited, calls>>

\* Curation: a file is changed, badly or well, or removed.
Edit(f) ==
    /\ edited \subseteq {f}
    /\ edited' = edited \cup {f}
    /\ \E new \in {<<"bad">>, Absent, Default(f)} : new # content[f] /\ content' = [content EXCEPT ![f] = new]
    /\ UNCHANGED <<disabled, call, recorded, risked, calls, faults>>

Init ==
    /\ content = [f \in Range(Files) |-> Absent] /\ disabled = {} /\ call = [s \in Stores |-> Idle]
    /\ recorded = {} /\ risked = {} /\ edited = {} /\ calls = 0 /\ faults = 0

Next ==
    \/ \E s \in Stores :
         \/ Write(s, "append") \/ Write(s, "save") \/ Build(s)
         \/ Look(s) \/ WriteTemp(s) \/ Rename(s) \/ Save(s) \/ Saved(s) \/ AppendFailure(s) \/ Load(s) \/ Used(s)
         \/ Fail(s) \/ Crash(s)
    \/ \E f \in Curated : Edit(f)

Spec == Init /\ [][Next]_vars

-----------------------------------------------------------------------------
(* Properties *)

\* The state is of the right shape.
TypeOK ==
    /\ DOMAIN content = Range(Files) /\ disabled \subseteq Stores /\ edited \subseteq Range(Files)
    /\ risked \subseteq recorded /\ recorded \subseteq {ToString(n) : n \in 1..MaxCalls}
    /\ \A s \in Stores : DOMAIN call[s] = DOMAIN Idle

\* A failure that was recorded is a line of the file, unless people changed the
\* file, a crash cut off the line before it, or it was recorded while another
\* store was about to make the file.
NothingIsLost ==
    \A e \in recorded \ risked :
        \/ \E i \in DOMAIN content["failures"] : content["failures"][i] = e
        \/ "failures" \in edited
        \/ ~Valid("failures")

\* Only people and a crash in an append leave a file that does not validate:
\* what is renamed into place is whole.
FilesAreWhole ==
    \A f \in Range(Files) \ edited : content[f] # Absent => Valid(f) \/ (f = "failures" /\ faults > 0)

\* A prompt is built on what the files held, each whole, or on nothing, and then
\* the store has given the repository up, over a file that the validation
\* reports or people took away; where memory is strict, on nothing less than all.
BundleIsHonest ==
    \A s \in Stores : call[s].at = "built" =>
        /\ Len(call[s].got) = Len(Loads)
        /\ \A l \in DOMAIN call[s].got :
             LET lines == call[s].got[l]
             IN \/ lines = Fallback /\ s \in disabled /\ ~Strict /\ (call[s].blamed # {} \/ edited # {})
                \/ \A i \in DOMAIN lines : lines[i] \notin {"torn", "bad", "absent", "fallback"}

\* What the files of the memory owe those who write and read them.
MemoryIsKept == NothingIsLost /\ FilesAreWhole /\ BundleIsHonest

=============================================================================
