----------------------------- MODULE CodexRunner -----------------------------
(***************************************************************************)
(* One run of the Codex CLI (src/integrations/codex/runner.ts and          *)
(* src/utils/shell.ts): a child process whose output arrives in pieces of  *)
(* any length, a timeout that terminates it and, five seconds later, kills *)
(* it, and what is left when the promise settles.                          *)
(*                                                                         *)
(* Output is a sequence of symbols: a line of the child is two of them and *)
(* "nl".  The child may keep its pipes open after its end (a process it    *)
(* started holds them), and it may ignore being terminated.  The bytes of  *)
(* a symbol, logging and the texts of errors are left out, and so is what  *)
(* is written to the child, whose failure nobody listens for.              *)
(*                                                                         *)
(* A definition whose name has a suffix after an underscore is a seeded    *)
(* fault of the definition below it; no specification uses it.             *)
(***************************************************************************)
EXTENDS Naturals, Sequences, FiniteSets, FiniteSetsExt, SequencesExt

CONSTANTS
    Output,      \* symbols the child writes if it is let
    Configured,  \* argument lists an operator may have configured
    Overrides,   \* whether callers ask for a sandbox: a set of BOOLEAN
    Observers    \* what observers do: "listen", "throw"

VARIABLES
    phase,     \* "make", "spoiled", "spawn", "run", "returned", "failed"
    temp,      \* the temporary directory exists
    beat,      \* the interval that reports progress runs
    args,      \* arguments the child was started with
    asked,     \* the configured ones, and whether a sandbox was asked for
    child,     \* "none", "alive", "ended"
    held,      \* somebody keeps the pipes of the child open
    written,   \* symbols the child has written,
    taken,     \* and those that arrived
    rest,      \* stdoutRemainder
    lines,     \* lines handled
    errors,    \* errors of the stream
    timer, kill,  \* "off", "set", "fired"
    observer,
    message,   \* last message the child wrote to its file
    result     \* what the caller was given

vars == <<phase, temp, beat, args, asked, child, held, written, taken, rest, lines, errors, timer,
          kill, observer, message, result>>

Messages == {"", "text", "question", "question and text"}
NoResult == [code |-> 0, timedOut |-> FALSE, threads |-> 0, calls |-> 0, clarified |-> FALSE]

-----------------------------------------------------------------------------
(* Arguments *)

\* withoutSandboxArgs.  "sandbox" and "config" take the argument after them,
\* "flag" sets the sandbox alone, "override" is a value that sets it.
Without_Value(given) ==
    LET From[i \in 1..Len(given) + 2] ==
          IF i > Len(given) THEN <<>>
          ELSE IF given[i] \in {"sandbox", "flag"} THEN From[i + 1]
          ELSE IF given[i] = "config" /\ i < Len(given)
               THEN (IF given[i + 1] = "override" THEN <<>> ELSE SubSeq(given, i, i + 1)) \o From[i + 2]
          ELSE <<given[i]>> \o From[i + 1]
    IN From[1]
Without(given) ==
    LET From[i \in 1..Len(given) + 2] ==
          IF i > Len(given) THEN <<>>
          ELSE IF given[i] = "sandbox" THEN From[i + 2]
          ELSE IF given[i] = "flag" THEN From[i + 1]
          ELSE IF given[i] = "config" /\ i < Len(given)
               THEN (IF given[i + 1] = "override" THEN <<>> ELSE SubSeq(given, i, i + 1)) \o From[i + 2]
          ELSE <<given[i]>> \o From[i + 1]
    IN From[1]

\* buildBaseArgs: the configured sandbox comes first, what the caller asks for last.
BaseArgs(given, override) ==
    LET all == <<"sandbox", "value">> \o given
    IN IF override THEN Without(all) \o <<"sandbox", "value">> ELSE all

\* What the child makes of its arguments: where an option begins, and which
\* of them set the sandbox.
Options(given) ==
    LET From[i \in 1..Len(given) + 2] ==
          IF i > Len(given) THEN {}
          ELSE {i} \cup From[IF given[i] \in {"sandbox", "config"} THEN i + 2 ELSE i + 1]
    IN From[1]
SandboxOptions(given) ==
    {i \in Options(given) : \/ given[i] \in {"sandbox", "flag"}
                            \/ given[i] = "config" /\ i < Len(given) /\ given[i + 1] = "override"}

-----------------------------------------------------------------------------
(* The stream *)

\* consumeChunkLines: whole lines of what was left and what came, and what is
\* left now.  Empty lines are dropped.
Ends(s) == {i \in DOMAIN s : s[i] = "nl"}
Lines(s) ==
    LET ends == SetToSortSeq(Ends(s), <)
        Start(k) == IF k = 1 THEN 1 ELSE ends[k - 1] + 1
    IN SelectSeq([k \in DOMAIN ends |-> SubSeq(s, Start(k), ends[k] - 1)], LAMBDA l : l # <<>>)
Rest_Dropped(s) == <<>>
Rest(s) == SubSeq(s, Max({0} \cup Ends(s)) + 1, Len(s))

Event(line) ==
    IF line = <<"th", "read">> THEN "thread"
    ELSE IF line = <<"to", "ol">> THEN "call"
    ELSE IF line = <<"er", "ror">> THEN "error"
    ELSE "garbage"
Count(seen, event) == Cardinality({i \in DOMAIN seen : Event(seen[i]) = event})

\* progressEventFromCodexEvent: what an observer is told of.
Told(event) == event \in {"call", "error"}

\* processStdoutLine: a line that is no event is an error, and so is one that
\* reports it.  emitObserverEvent swallows what the observer throws.
IsError_Thrown(event) == event \in {"garbage", "error"} \/ (Told(event) /\ observer = "throw")
IsError(event) == event \in {"garbage", "error"}
Handle(new) ==
    /\ lines' = lines \o new
    /\ errors' = errors + Cardinality({i \in DOMAIN new : IsError(Event(new[i]))})

-----------------------------------------------------------------------------
(* The run *)

\* The directory is made before the schema is written, and both before the
\* try: if writing fails, the directory stays.
Make ==
    /\ phase = "make"
    /\ temp' = TRUE
    /\ \/ phase' = "spawn" /\ beat' = TRUE
       \/ phase' = "spoiled" /\ UNCHANGED beat
    /\ UNCHANGED <<args, asked, child, held, written, taken, rest, lines, errors, timer, kill,
                   observer, message, result>>

\* finally
TidyUp_OnSuccess(end) ==
    /\ phase' = end
    /\ IF end = "returned" THEN beat' = FALSE /\ temp' = FALSE ELSE UNCHANGED <<beat, temp>>
TidyUp(end) == phase' = end /\ beat' = FALSE /\ temp' = FALSE

\* runProcess: the child starts and is sent the prompt, or cannot be started.
Start ==
    /\ phase = "spawn"
    /\ args' = BaseArgs(asked.given, asked.override)
    /\ \/ phase' = "run" /\ child' = "alive" /\ timer' = "set" /\ UNCHANGED <<temp, beat>>
       \/ TidyUp("failed") /\ UNCHANGED <<child, timer>>
    /\ UNCHANGED <<asked, held, written, taken, rest, lines, errors, kill, observer, message, result>>

\* The child writes, or its last message, or ends.
ChildWrites ==
    /\ child = "alive" /\ written < Len(Output)
    /\ written' = written + 1
    /\ UNCHANGED <<phase, temp, beat, args, asked, child, held, taken, rest, lines, errors, timer,
                   kill, observer, message, result>>
ChildSays ==
    /\ child = "alive" /\ message = ""
    /\ \E m \in Messages \ {""} : message' = m
    /\ UNCHANGED <<phase, temp, beat, args, asked, child, held, written, taken, rest, lines, errors,
                   timer, kill, observer, result>>
Ended == child' = "ended" /\ held' \in BOOLEAN
ChildEnds ==
    /\ child = "alive"
    /\ Ended
    /\ UNCHANGED <<phase, temp, beat, args, asked, written, taken, rest, lines, errors, timer, kill,
                   observer, message, result>>
LetGo ==
    /\ held /\ held' = FALSE
    /\ UNCHANGED <<phase, temp, beat, args, asked, child, written, taken, rest, lines, errors, timer,
                   kill, observer, message, result>>

\* on("data")
Data ==
    /\ phase = "run"
    /\ \E n \in taken + 1 .. written :
         LET s == rest \o SubSeq(Output, taken + 1, n) IN
         taken' = n /\ rest' = Rest(s) /\ Handle(Lines(s))
    /\ UNCHANGED <<phase, temp, beat, args, asked, child, held, written, timer, kill, observer, message,
                   result>>

\* The timers: SIGTERM, which a child may ignore, and then SIGKILL.
Timeout ==
    /\ timer = "set"
    /\ timer' = "fired" /\ kill' = "set"
    /\ \/ UNCHANGED <<child, held>>
       \/ child = "alive" /\ Ended
    /\ UNCHANGED <<phase, temp, beat, args, asked, written, taken, rest, lines, errors, observer,
                   message, result>>
ForceKill ==
    /\ kill = "set"
    /\ kill' = "fired"
    /\ IF child = "alive" THEN Ended ELSE UNCHANGED <<child, held>>
    /\ UNCHANGED <<phase, temp, beat, args, asked, written, taken, rest, lines, errors, timer, observer,
                   message, result>>

\* on("close"): the child has ended and its pipes are read to the end.  Then
\* flushRemainders and the rest of run.
ClearTimers_FirstOnly == timer' = (IF timer = "set" THEN "off" ELSE timer) /\ UNCHANGED kill
ClearTimers ==
    /\ timer' = IF timer = "set" THEN "off" ELSE timer
    /\ kill' = IF kill = "set" THEN "off" ELSE kill
Flushed == IF rest = <<>> THEN <<>> ELSE <<rest>>
Clarified(text) == text = "question"      \* extractClarification: one line, no more
ExitCode(code) == IF timer = "fired" THEN 124 ELSE code
Close ==
    /\ phase = "run" /\ child = "ended" /\ ~held /\ taken = written
    /\ ClearTimers
    /\ Handle(Flushed)
    /\ rest' = <<>>
    /\ \E code \in {0, 1} :
         result' = [code |-> ExitCode(code), timedOut |-> timer = "fired",
                    threads |-> Count(lines', "thread"), calls |-> Count(lines', "call"),
                    clarified |-> Clarified(message)]
    /\ TidyUp("returned")
    /\ UNCHANGED <<args, asked, child, held, written, taken, observer, message>>

Init ==
    /\ phase = "make" /\ temp = FALSE /\ beat = FALSE /\ args = <<>>
    /\ asked \in [given : Configured, override : Overrides]
    /\ child = "none" /\ held = FALSE /\ written = 0 /\ taken = 0 /\ rest = <<>> /\ lines = <<>>
    /\ errors = 0 /\ timer = "off" /\ kill = "off" /\ observer \in Observers /\ message = ""
    /\ result = NoResult

Next == Make \/ Start \/ ChildWrites \/ ChildSays \/ ChildEnds \/ LetGo \/ Data \/ Timeout \/ ForceKill \/ Close

Spec == Init /\ [][Next]_vars

-----------------------------------------------------------------------------
(* Properties *)

\* The state is of the right shape.
TypeOK ==
    /\ phase \in {"make", "spoiled", "spawn", "run", "returned", "failed"}
    /\ {temp, beat, held} \subseteq BOOLEAN
    /\ child \in {"none", "alive", "ended"} /\ {timer, kill} \subseteq {"off", "set", "fired"}
    /\ 0 <= taken /\ taken <= written /\ written <= Len(Output) /\ errors \in Nat
    /\ observer \in Observers /\ message \in Messages /\ DOMAIN result = DOMAIN NoResult

\* The lines handled are those the child wrote, whole and in order, however
\* the pipe cut them, and at the return none is missing.
LinesAreWhole ==
    /\ phase = "run" => lines = Lines(SubSeq(Output, 1, taken))
    /\ phase = "returned" => LET all == SubSeq(Output, 1, written)
                             IN lines = Lines(all) \o (IF Rest(all) = <<>> THEN <<>> ELSE <<Rest(all)>>)

\* The errors of a run are the child's: an observer that throws adds none.
ErrorsAreTheChilds == errors = Count(lines, "garbage") + Count(lines, "error")

\* When the promise has settled, no timer and no interval is left and the
\* directory is gone.  (Where the schema could not be written, it stays.)
NothingIsLeft ==
    phase \in {"returned", "failed"} =>
        ~beat /\ ~temp /\ timer # "set" /\ kill # "set"

\* A run that was terminated for its length is reported so, whatever code the
\* child ended with, and only then.
TimeoutIsReported ==
    phase = "returned" => (result.timedOut <=> timer = "fired") /\ (result.timedOut <=> result.code = 124)

\* A caller who asks for a sandbox gets it, set once and last, and keeps every
\* other option.
OneSandbox ==
    child # "none" /\ asked.override =>
        /\ SandboxOptions(args) = {Len(args) - 1}
        /\ Cardinality(Options(args)) =
             1 + Cardinality(Options(asked.given) \ SandboxOptions(asked.given))

\* What a run of Codex owes its caller.
RunIsClean == LinesAreWhole /\ ErrorsAreTheChilds /\ NothingIsLeft /\ TimeoutIsReported /\ OneSandbox

=============================================================================
