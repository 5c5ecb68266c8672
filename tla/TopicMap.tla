------------------------------ MODULE TopicMap ------------------------------
(***************************************************************************)
(* The map from aggregate classes to Kafka topics is a generated file.     *)
(* The script derives it from the folders; the pre-commit hook runs the    *)
(* script on the working tree; a pull request is checked with --check.     *)
(*                                                                         *)
(* A tree is the set of its declarations <<class, module>>; a file is the  *)
(* sequence of its lines.  Classes are numbers in the order of their       *)
(* names.  One developer works on one branch after another; other          *)
(* branches reach main through OthersMerge, in whatever state they are:    *)
(* the check runs on pull requests only, and nothing checks main itself.   *)
(***************************************************************************)
EXTENDS Integers, SequencesExt, FiniteSetsExt

CONSTANTS Class,       \* names of exported *Aggregate classes, as their ranks
          Module,      \* folders under src/contexts
          Declaration  \* bound: the declarations <<class, module>> that anybody makes

ASSUME TopicMapAssumption ==
    /\ Class \subseteq Nat /\ IsFiniteSet(Class) /\ IsFiniteSet(Module)
    /\ Declaration \subseteq Class \X Module

VARIABLES
    branch,  \* the branch: [tree, file]
    base,    \* main as it was when the branch was started
    main,    \* the main branch
    pr       \* the pull request: "stale" has passed its check, but with an older main

vars == <<branch, base, main, pr>>

-----------------------------------------------------------------------------
(* The script.                                                             *)

\* The files of a tree, in any order that readdir may return.
CollectAggregateFiles(tree) == SetToSeqs(tree)

\* The script ends with an exception: no file has an empty line.
Error == << <<>> >>

\* Mutant: the class goes to the module that is scanned last.
RegisterAggregateFileLastWins(byClassName, d) ==
    Append(SelectSeq(byClassName, LAMBDA e : e[1] # d[1]), d)

\* One declaration: a class of another module is an error, and setting a key again
\* leaves it where it is.
RegisterAggregateFile(byClassName, d) ==
    IF byClassName = Error THEN byClassName
    ELSE IF \E e \in ToSet(byClassName) : e[1] = d[1] /\ e[2] # d[2] THEN Error
    ELSE IF d \in ToSet(byClassName) THEN byClassName
    ELSE Append(byClassName, d)

\* The Map after the last file.
ByClassName(scan) ==
    LET byClassName[n \in 0..Len(scan)] ==
          IF n = 0 THEN <<>> ELSE RegisterAggregateFile(byClassName[n - 1], scan[n])
    IN  byClassName[Len(scan)]

\* The entries of a Map, sorted by class name: as many as the i-th are not after it.
SortedByName(entries) ==
    [i \in 1..Len(entries) |->
       CHOOSE d \in ToSet(entries) : Cardinality({e \in ToSet(entries) : e[1] =< d[1]}) = i]

\* Mutant: the order of the scan is the order of the lines.
CollectMappingsUnsorted(scan) == ByClassName(scan)

CollectMappings(scan) ==
    IF ByClassName(scan) = Error THEN Error ELSE SortedByName(ByClassName(scan))

\* Mutant: --check compares the number of aggregates.
CheckCounts(t, scan) == Len(CollectMappings(scan)) = Len(t.file)

\* gen:topics:check passes on t.
Check(t, scan) == CollectMappings(scan) = t.file

-----------------------------------------------------------------------------
(* Reference: no class in two modules; one line for each class, by name.   *)

Unambiguous(tree) == \A d, e \in tree : d[1] = e[1] => d = e

MapOf(tree) ==
    CHOOSE file \in [1..Cardinality(tree) -> tree] :
      \A i, j \in DOMAIN file : i < j => file[i][1] < file[j][1]

-----------------------------------------------------------------------------
(* git.                                                                    *)

\* Three-way merge of sets: what either side has added, and what neither has removed.
MergedSet(b, x, y) == ((x \cup y) \ b) \cup (b \cap x \cap y)

LineOf(file, c) == {e \in ToSet(file) : e[1] = c}

\* Both sides changed the line of a class, and not in the same way.
Conflict(b, x, y) ==
    \E c \in Class : /\ LineOf(x.file, c) # LineOf(b.file, c)
                     /\ LineOf(y.file, c) # LineOf(b.file, c)
                     /\ LineOf(x.file, c) # LineOf(y.file, c)

Merged(b, x, y) ==
    [tree |-> MergedSet(b.tree, x.tree, y.tree),
     file |-> MapOf(MergedSet(ToSet(b.file), ToSet(x.file), ToSet(y.file)))]

-----------------------------------------------------------------------------
\* The map routes every aggregate of the tree to its own module.
IsCurrent(t) == Unambiguous(t.tree) /\ t.file = MapOf(t.tree)

Empty == [tree |-> {}, file |-> <<>>]

\* The files in the tree are sorted by class and have one line for each.
SortedFile(file) ==
    /\ ToSet(file) \subseteq Declaration
    /\ \A i, j \in DOMAIN file : i < j => file[i][1] < file[j][1]

\* Type invariant.  The files that get committed are sorted, each class once.
TypeOK ==
    /\ \A t \in {branch, base, main} : t.tree \subseteq Declaration /\ SortedFile(t.file)
    /\ pr \in {"open", "passed", "stale"}

Init ==
    /\ branch = Empty /\ base = Empty /\ main = Empty
    /\ pr = "open"

\* The trees that git add can make of the branch's and the working tree: any of the
\* pending changes.
Staged(work) ==
    {tree \in SUBSET (branch.tree \cup work) : branch.tree \cap work \subseteq tree}

\* git commit, after some aggregates were created or removed: the hook generates from the
\* working tree, staged or not, and adds the file; an ambiguous class fails the hook.
Commit ==
    /\ \E work \in SUBSET Declaration :
       \E file \in {CollectMappings(scan) : scan \in CollectAggregateFiles(work)} \ {Error} :
       \E tree \in Staged(work) :
         branch' = [tree |-> tree, file |-> file]
    /\ pr' = "open"
    /\ UNCHANGED <<base, main>>

\* A commit without the hook leaves the file as it is.
CommitWithoutHook ==
    /\ \E tree \in SUBSET Declaration : branch' = [branch EXCEPT !.tree = tree]
    /\ pr' = "open"
    /\ UNCHANGED <<base, main>>

\* CI on the pull request, which checks out its merge with main.
PassCheck ==
    /\ ~Conflict(base, main, branch)
    /\ LET t == Merged(base, main, branch)
       IN  \E scan \in CollectAggregateFiles(t.tree) : Check(t, scan)
    /\ pr' = "passed"
    /\ UNCHANGED <<branch, base, main>>

\* The developer starts a branch from t.
Branch(t) == branch' = t /\ base' = t /\ pr' = "open"

\* The pull request is merged, into a main that may have moved since the check, and the
\* developer goes on from there.
Merge ==
    /\ pr \in {"passed", "stale"}
    /\ ~Conflict(base, main, branch)
    /\ main' = Merged(base, main, branch)
    /\ Branch(main')

\* Somebody else's branch is merged.  It may be out of date, or have passed its check with
\* an older main: the declarations of a class and its line in the file become anything.
\* (A merge that changes several classes is several of these steps.)
OthersMerge ==
    /\ \E c \in Class :
       \E tree \in SUBSET {d \in Declaration : d[1] = c} :
       \E line \in SUBSET {d \in Declaration : d[1] = c} :
         /\ Cardinality(line) =< 1
         /\ main' = [tree |-> {d \in main.tree : d[1] # c} \cup tree,
                     file |-> MapOf({d \in ToSet(main.file) : d[1] # c} \cup line)]
    /\ pr' = IF pr = "passed" THEN "stale" ELSE pr
    /\ UNCHANGED <<branch, base>>

\* The developer drops the branch and starts another from main as it is.
NewBranch == Branch(main) /\ UNCHANGED main

Next ==
    \/ Commit
    \/ CommitWithoutHook
    \/ PassCheck
    \/ Merge
    \/ OthersMerge
    \/ NewBranch

Spec == Init /\ [][Next]_vars

-----------------------------------------------------------------------------
\* Whatever order the files of a checkout are scanned in, collectMappings fails if and only
\* if a class is in two modules, and otherwise returns the one sorted map: what the hook
\* writes on one machine passes --check on another.
GeneratedIsTheMap ==
    \A t \in {branch, main} : \A scan \in CollectAggregateFiles(t.tree) :
      CollectMappings(scan) = IF Unambiguous(t.tree) THEN MapOf(t.tree) ELSE Error

\* A pull request that is merged leaves on main a map that routes every aggregate of main
\* to its module in two cases: when it was checked with this very main, however far out of
\* date main, the branch or its starting point are; and, when main has moved since the check,
\* if these three are current each for itself (two branches that move one class are stopped
\* by the conflict in the file).  Only a stale check of something out of date lets a wrong
\* map in.
MergesKeepTheMapCurrent ==
    [][Merge =>
         \/ IsCurrent(main')
         \/ pr = "stale" /\ \E t \in {base, main, branch} : ~IsCurrent(t)]_vars
=============================================================================
