-------------------------------- MODULE UtMain --------------------------------
(***************************************************************************)
(* Test selection in tf_unittest_runner.py: main's three modes             *)
(* (--list_tests, --run_test, --run_tests_from_file), the expansion of a   *)
(* pattern into test ids by get_test_list (regex_walk, then list_tests),   *)
(* the removal of the lines of the TFPYTEST_SKIPLIST file                  *)
(* (skip_tests_from_list), and the list finally handed to run_test, whose  *)
(* loop is the module UtRunner.                                            *)
(*                                                                         *)
(* A pattern and a test id are names.  What the string matching decides   *)
(* is given by constants: the module files whose name fnmatch accepts for *)
(* the part of the pattern before its first '.', whether the pattern      *)
(* holds a '*', and the ids that contain its part before the first '*'.   *)
(***************************************************************************)
EXTENDS Integers, Sequences, SequencesExt

CONSTANTS
    Modules,     \* test module files found under --tensorflow_path
    Ids,         \* test ids, "module.Class.method"
    ModOf,       \* ModOf[t]: the module defining test t
    Copies,      \* Copies[m]: number of directories os.walk finds m.py in
    Broken,      \* modules whose __import__ raises
    Patterns,    \* pattern strings a user can give (an exact id is one)
    FileMatch,   \* FileMatch[p]: modules whose file fnmatch accepts for p
    Wild,        \* patterns containing a '*'
    Sub,         \* Sub[p]: ids containing p's part before its first '*'
    SkipLines,   \* possible lines of the skip file: ids or patterns
    Modes,       \* the command-line modes considered
    MaxLines     \* bound on the lines of the --run_tests_from_file file

ASSUME MainAssumption ==
    /\ ModOf \in [Ids -> Modules]
    /\ Copies \in [Modules -> Nat \ {0}]
    /\ Broken \subseteq Modules
    /\ FileMatch \in [Patterns -> SUBSET Modules]
    /\ Wild \subseteq Patterns
    /\ Sub \in [Patterns -> SUBSET Ids]
    /\ Modes \subseteq {"list", "run", "file"}
    /\ MaxLines \in Nat

TestsOf(m) == {t \in Ids : ModOf[t] = m}

\* regex_walk: every os.walk hit of a module file whose name matches,
\* once per directory it is found in.
RegexWalk(p) ==
    FlattenSeq([i \in 1..Cardinality(FileMatch[p]) |->
        LET m == SetToSeq(FileMatch[p])[i]
        IN  [k \in 1..Copies[m] |-> m]])

\* Mutation: list_tests without its elif branch for wildcard patterns.
MatchExactOnly(p, t) == t = p

\* list_tests: the id equals the pattern, or the pattern holds a '*' and the
\* id contains the part before it.
Match(p, t) == t = p \/ (p \in Wild /\ t \in Sub[p])

\* Mutation: a pattern matching nothing appended to listtests, not to
\* invalidtests.
ListTestsInvalidSlip(ml, p) ==
    LET alltests == FlattenSeq([i \in 1..Len(ml) |-> SetToSeq(TestsOf(ml[i]))])
        listtests == SelectSeq(alltests, LAMBDA t : Match(p, t))
    IN  [tests   |-> IF listtests = <<>> THEN <<p>> ELSE listtests,
         invalid |-> <<>>]

ListTests(ml, p) ==
    LET alltests == FlattenSeq([i \in 1..Len(ml) |-> SetToSeq(TestsOf(ml[i]))])
        listtests == SelectSeq(alltests, LAMBDA t : Match(p, t))
    IN  [tests   |-> listtests,
         invalid |-> IF listtests = <<>> THEN <<p>> ELSE <<>>]

\* regex_walk finds no module file: it calls sys.exit(1), and SystemExit
\* passes get_test_list's 'except Exception', so the runner exits.
NoModule(p) == RegexWalk(p) = <<>>

\* get_test_list once a module file matched: an import error in list_tests
\* is caught and yields two empty lists.
GetTestList(p) ==
    LET ml == RegexWalk(p)
    IN  IF \E i \in 1..Len(ml) : ml[i] \in Broken
          THEN [tests |-> <<>>, invalid |-> <<>>]
          ELSE ListTests(ml, p)

\* read_tests_from_file then list(dict.fromkeys(...)): first occurrences.
FromKeys(s) ==
    FoldLeft(LAMBDA acc, x : IF x \in ToSet(acc) THEN acc ELSE Append(acc, x),
             <<>>, s)

\* skip_tests_from_list: for every line of the skip file that is in the
\* list, list.remove(line), which drops its first occurrence.
SkipTests(l, skip) ==
    FoldLeft(LAMBDA acc, line : IF line \in ToSet(acc)
                                   THEN RemoveFirst(acc, line) ELSE acc,
             l, skip)

VARIABLES
    mode,      \* which of main's branches runs
    arg,       \* the pattern given to --list_tests or --run_test
    lines,     \* the lines of the --run_tests_from_file file
    skip,      \* the lines of the TFPYTEST_SKIPLIST file (<<>> if unset)
    phase,     \* "start" | "loop" | "listed" | "run" | "exit"
    pats,      \* list_of_tests in from-file mode
    fpos,      \* index of the pattern the from-file loop is at
    to_run,    \* the list printed, or handed to run_test
    invalid    \* invalid_list

vars == <<mode, arg, lines, skip, phase, pats, fpos, to_run, invalid>>

Phases == {"start", "loop", "listed", "run", "exit"}
-----------------------------------------------------------------------------
Init ==
    /\ mode \in Modes
    /\ arg \in Patterns
    /\ lines \in IF mode = "file" THEN SeqOf(Patterns, MaxLines) ELSE {<<>>}
    /\ skip \in SeqOf(SkipLines, 2)
    /\ phase = "start"
    /\ pats = <<>>
    /\ fpos = 1
    /\ to_run = <<>>
    /\ invalid = <<>>

\* --list_tests: expand, drop the skipped ids, print.
ListMode ==
    /\ mode = "list"
    /\ phase = "start"
    /\ ~NoModule(arg)
    /\ phase' = "listed"
    /\ to_run' = SkipTests(GetTestList(arg).tests, skip)
    /\ UNCHANGED <<mode, arg, lines, skip, pats, fpos, invalid>>

\* --run_test: expand, report the invalid pattern, drop the skipped ids,
\* then call run_test.
RunMode ==
    /\ mode = "run"
    /\ phase = "start"
    /\ ~NoModule(arg)
    /\ phase' = "run"
    /\ to_run' = SkipTests(GetTestList(arg).tests, skip)
    /\ invalid' = GetTestList(arg).invalid
    /\ UNCHANGED <<mode, arg, lines, skip, pats, fpos>>

\* --run_tests_from_file: read the patterns, drop repeated ones, then drop
\* those equal to a line of the skip file.
FileStart ==
    /\ mode = "file"
    /\ phase = "start"
    /\ phase' = "loop"
    /\ pats' = SkipTests(FromKeys(lines), skip)
    /\ UNCHANGED <<mode, arg, lines, skip, fpos, to_run, invalid>>

\* The inner loop: append each name not yet in all_test_list.
AppendUnseen(all, l) ==
    FoldLeft(LAMBDA acc, x : IF x \in ToSet(acc) THEN acc ELSE Append(acc, x),
             all, l)

\* One pattern of the file: expand it, report it if invalid, and append its
\* ids, made unique by list(set(...)), that are not listed yet.
FileStep ==
    /\ phase = "loop"
    /\ fpos <= Len(pats)
    /\ ~NoModule(pats[fpos])
    /\ LET r == GetTestList(pats[fpos])
       IN  /\ invalid' = invalid \o r.invalid
           /\ to_run' = AppendUnseen(to_run, SetToSeq(ToSet(r.tests)))
    /\ fpos' = fpos + 1
    /\ UNCHANGED <<mode, arg, lines, skip, phase, pats>>

\* sys.exit(1) in regex_walk, for the --list_tests or --run_test pattern or
\* for the current line of the file.
WalkExit ==
    /\ \/ phase = "start" /\ mode \in {"list", "run"} /\ NoModule(arg)
       \/ phase = "loop" /\ fpos <= Len(pats) /\ NoModule(pats[fpos])
    /\ phase' = "exit"
    /\ UNCHANGED <<mode, arg, lines, skip, pats, fpos, to_run, invalid>>

\* The loop is over: run_test(all_test_list, ...).
FileDone ==
    /\ phase = "loop"
    /\ fpos > Len(pats)
    /\ phase' = "run"
    /\ UNCHANGED <<mode, arg, lines, skip, pats, fpos, to_run, invalid>>

Next == ListMode \/ RunMode \/ FileStart \/ FileStep \/ WalkExit \/ FileDone

\* main is sequential and ends in "listed", "run" (handing over to the
\* loop of UtRunner) or "exit".
Spec == Init /\ [][Next]_vars
-----------------------------------------------------------------------------
TypeOK ==
    /\ mode \in Modes
    /\ arg \in Patterns
    /\ lines \in Seq(Patterns)
    /\ skip \in Seq(SkipLines)
    /\ phase \in Phases
    /\ pats \in Seq(Patterns)
    /\ fpos \in 1..Len(pats) + 1
    /\ to_run \in Seq(Ids)
    /\ invalid \in Seq(Patterns)

\* The patterns main was given, and whether a skip line names p.
Given == IF mode = "file" THEN ToSet(lines) ELSE {arg}

SkipSet == ToSet(skip)

\* The ids a pattern denotes, by the runner's documented formats: the id
\* itself, or with a '*' every id containing the text before it.
Selects(p, t) == IF p \in Wild THEN t \in Sub[p] ELSE t = p

\* The ids of p the runner can load: its module files exist and import.
Loadable(p) ==
    /\ FileMatch[p] # {}
    /\ FileMatch[p] \cap Broken = {}

(***************************************************************************)
(* RunsAllSelected: every id that a given pattern denotes in a loadable   *)
(* module, and that no line of the skip file names (nor, from a file, the *)
(* pattern itself), reaches run_test: neither the matching of list_tests  *)
(* nor the de-duplication and skipping of main loses a test.              *)
(***************************************************************************)
RunsAllSelected ==
    phase = "run" =>
        \A p \in Given \ SkipSet :
            Loadable(p) =>
                \A t \in Ids : (ModOf[t] \in FileMatch[p] /\ Selects(p, t)
                                   /\ t \notin SkipSet)
                                 => t \in ToSet(to_run)

(***************************************************************************)
(* SkippedNeverRun: no test id that a line of the TFPYTEST_SKIPLIST file  *)
(* names is handed to run_test.                                           *)
(***************************************************************************)
SkippedNeverRun ==
    phase = "run" => ToSet(to_run) \cap SkipSet = {}

(***************************************************************************)
(* PatternAccounted: every pattern main is given either is reported       *)
(* INVALID, or names a test that runs or that the skip file removed: no   *)
(* pattern silently selects nothing while the run reports success.        *)
(***************************************************************************)
PatternAccounted ==
    phase = "run" =>
        \A p \in Given :
            \/ p \in SkipSet
            \/ p \in ToSet(invalid)
            \/ \E t \in Ids : Selects(p, t) /\ t \in ToSet(to_run) \cup SkipSet
====
