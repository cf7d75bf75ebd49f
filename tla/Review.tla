------------------------------ MODULE Review ------------------------------
(***************************************************************************)
(* What an approver signs to trust a revision: src/runner/tree.rs unpacks  *)
(* the agent's archive and collects the execution input - every file       *)
(* Terraform will read for the project - and src/runner/review.rs renders  *)
(* its diff against the trusted tree.  The operator may recompute both     *)
(* from a checkout of their own (`diff-digest`).                           *)
(*                                                                         *)
(* A path is a sequence of names; what a file holds is a member of Data,   *)
(* of which the constants say what the parsers find in it.  SHA-256 is     *)
(* taken to have no collisions, so a digest is the thing it is taken of.   *)
(***************************************************************************)
EXTENDS Integers, FiniteSets, Sequences, SequencesExt, TLC

CONSTANTS
    Entries,        \* what an archive may hold: [kind, path, exec, data]
    Data,           \* what a file may hold
    Size,           \* data -> its length, cut into chunks of one
    Sources,        \* data -> the sources of its module blocks, as a sequence,
                    \* or Unparsable
    Unparsable, Registry,   \* no HCL, or schema, at all; a source not local
    SchemaVars,     \* data -> the variables it declares as a schema, or Unparsable
    RunnerVars,     \* the variables the runner's config supplies
    TfNames,        \* the names that end in .tf
    StateNames,     \* the names Terraform would read as state, plan or values
    BadNames,       \* names with a character no path may have
    Project, SchemaFile,    \* the project's path and its schema's, relative to it
    Baselines,      \* the trusted trees to compare with, or NoTree
    NoTree,
    Refused, Missing,       \* a failure; no file there
    MaxFiles, MaxBytes,     \* Limits
    MaxShown        \* how many files' chunks a diff shows (MAX_SHOWN_DIFF)

VARIABLES
    stage,      \* "unpack", "collect", "done" or "refused"
    count, written,   \* entries and bytes so far
    disk,       \* path -> Dir, Link or what the file holds
    modes,      \* path -> whether the archive asked for owner-execute
    seen,       \* the files the archive has named
    queue, visited,   \* the directories to collect, and those collected
    files,      \* the input: path -> [exec, data]
    baseline,   \* the trusted tree
    outcome     \* the review, once done

unpackVars == <<count, written, disk, modes, seen>>
collectVars == <<queue, visited, files>>
reviewVars == <<stage, unpackVars, collectVars, baseline, outcome>>

Dir == "dir"
Link == "link"
Git == ".git"

ASSUME ReviewAssumption == {MaxFiles, MaxBytes, MaxShown} \subseteq Nat

With(f, x, y) == [z \in DOMAIN f \cup {x} |-> IF z = x THEN y ELSE f[z]]
\* A directory's own entries, and all there is below it.
Below(D, dir) == {p \in DOMAIN D : Len(p) > Len(dir) /\ SubSeq(p, 1, Len(dir)) = dir}
Isdir(D, p) == p = <<>> \/ (p \in DOMAIN D /\ D[p] = Dir)

----------------------------------------------------------------------------
(* unpack, one entry at a time.                                            *)

\* clean_path: the normal components, or Refused.
CleanPath(raw) ==
    LET parts == SelectSeq(raw, LAMBDA n : n # ".")
    IN  IF (\E n \in ToSet(parts) : n \in BadNames \cup {"..", "/"})
           \/ (parts # <<>> /\ Head(parts) = Git)
        THEN Refused ELSE parts

\* make_dirs: D with the directory and all above it, or Refused when a file is
\* in the way.
MadeDirs(D, parts) ==
    LET all == {SubSeq(parts, 1, n) : n \in 1..Len(parts)}
    IN  IF \E p \in all \cap DOMAIN D : D[p] # Dir THEN Refused
        ELSE [p \in DOMAIN D \cup all |-> IF p \in all THEN Dir ELSE D[p]]

Stops == stage' = "refused" /\ UNCHANGED <<collectVars, baseline, outcome>>

\* Over a bound, as the entry is counted and before a chunk is written.
TooMany(n) == n > MaxFiles
TooLarge(bytes) == bytes > MaxBytes

\* run_unpack, one entry.  A refusal may leave earlier entries behind, and part
\* of this one.
Unpack(e) ==
    LET parts == CleanPath(e.path)
        parent == IF parts \in {Refused, <<>>} THEN Refused
                  ELSE MadeDirs(disk, Front(parts))
        fresh == parts \notin seen /\ parent # Refused
                 /\ parts \notin DOMAIN disk
        fits == {n \in 0..Size[e.data] : ~TooLarge(written + n)}
        kept == CHOOSE n \in fits : \A k \in fits : k <= n
    IN  /\ stage = "unpack"
        /\ count' = count + 1
        /\ \/ /\ \/ TooMany(count + 1) \/ parts = Refused
                 \/ e.kind \notin {"file", "dir"}
              /\ Stops /\ UNCHANGED <<written, disk, modes, seen>>
           \/ /\ ~TooMany(count + 1) /\ parts # Refused
              /\ \/ /\ parts = <<>> /\ e.kind \in {"file", "dir"}
                    /\ UNCHANGED <<stage, written, disk, modes, seen, collectVars,
                                   baseline, outcome>>
                 \/ /\ parts # <<>> /\ e.kind = "dir"
                    /\ LET made == MadeDirs(disk, parts)
                       IN  IF made = Refused
                           THEN Stops /\ UNCHANGED disk
                           ELSE disk' = made
                                /\ UNCHANGED <<stage, collectVars, baseline, outcome>>
                    /\ UNCHANGED <<written, modes, seen>>
                 \/ /\ parts # <<>> /\ e.kind = "file" /\ ~fresh
                    /\ Stops /\ UNCHANGED <<written, disk, modes, seen>>
                 \/ /\ parts # <<>> /\ e.kind = "file" /\ fresh
                    /\ seen' = seen \cup {parts}
                    /\ disk' = With(parent, parts, e.data)
                    /\ modes' = With(modes, parts, e.exec)
                    /\ written' = written + kept
                    /\ IF kept = Size[e.data]
                       THEN UNCHANGED <<stage, collectVars, baseline, outcome>>
                       ELSE Stops

\* The archive cannot be read on, or takes too long.
UnpackFails ==
    /\ stage = "unpack" /\ Stops /\ UNCHANGED unpackVars

\* The end of the archive: execution_input starts from the project.
Unpacked ==
    /\ stage = "unpack" /\ stage' = "collect"
    /\ queue' = <<Project>>
    /\ UNCHANGED <<unpackVars, visited, files, baseline, outcome>>

----------------------------------------------------------------------------
(* execution_input, over a checkout D whose files' modes are M.            *)

\* join_within: the directory `rel` leads to, or Refused outside the checkout.
JoinWithin(base, rel) ==
    FoldLeft(LAMBDA at, n :
                CASE at = Refused -> Refused
                  [] at # Refused /\ n = "." -> at
                  [] at # Refused /\ n = ".." -> IF at = <<>> THEN Refused ELSE Front(at)
                  [] OTHER -> Append(at, n),
             base, rel)

\* module_dirs: the directories the .tf files of `dir` refer to, in order.
TfFiles(D, dir) == {p \in Below(D, dir) : Len(p) = Len(dir) + 1 /\ Last(p) \in TfNames}
ModuleDirs(D, dir) ==
    LET of(p) == IF D[p] \in {Dir, Link} THEN Unparsable ELSE Sources[D[p]]
        bad(p) == of(p) = Unparsable \/ \E s \in ToSet(of(p)) :
                      s = Registry \/ JoinWithin(dir, s) = Refused
        refs(p) == {JoinWithin(dir, s) : s \in ToSet(of(p))}
    IN  IF ~Isdir(D, dir) \/ (\E p \in TfFiles(D, dir) : bad(p)) THEN Refused
        ELSE UNION {refs(p) : p \in TfFiles(D, dir)}

\* walk: what lies below `dir`, but for .git at the root, all of it regular
\* files with a mode and directories, none of a name Terraform would take for
\* its own.
Walked(D, M, dir) ==
    LET all == {p \in Below(D, dir) : dir # <<>> \/ Head(p) # Git}
        plain == {p \in all : D[p] # Dir}
    IN  IF (\E p \in all \ plain : Last(p) = ".terraform")
           \/ (\E p \in plain : D[p] = Link \/ Last(p) \in StateNames \/ p \notin DOMAIN M)
        THEN Refused ELSE [p \in plain |-> [exec |-> M[p], data |-> D[p]]]

\* The directories still to visit, after the last of the queue.
ExtendedBy(q, next) == IF next = {} THEN Front(q) ELSE SetToSeq(next)   \* wrong: the rest is lost
Extended(q, next) == Front(q) \o SetToSeq(next)

\* One turn of execution_input's loop, which takes the last of the queue.
Collect ==
    LET dir == Last(queue)
        next == ModuleDirs(disk, dir)
        more == IF next = Refused THEN Refused ELSE Walked(disk, modes, dir)
    IN  /\ stage = "collect" /\ queue # <<>>
        /\ \/ /\ dir \in visited
              /\ queue' = Front(queue)
              /\ UNCHANGED <<stage, visited, files>>
           \/ /\ dir \notin visited /\ more # Refused
              /\ visited' = visited \cup {dir}
              /\ queue' = Extended(queue, next)
              /\ files' = [p \in DOMAIN files \cup DOMAIN more |->
                              IF p \in DOMAIN files THEN files[p] ELSE more[p]]
              /\ UNCHANGED stage
           \/ /\ dir \notin visited /\ more = Refused
              /\ stage' = "refused" /\ UNCHANGED collectVars
        /\ UNCHANGED <<unpackVars, baseline, outcome>>

----------------------------------------------------------------------------
(* review.                                                                 *)

\* render: for each path that changed, what the diff says of it.  The lines of
\* a text, and the digests of a binary file, give the new contents to one who
\* has the old.
Of(tree, p) == IF tree # NoTree /\ p \in DOMAIN tree THEN tree[p] ELSE Missing
ChangedData(o, n) == o = Missing \/ n = Missing \/ o.data # n.data   \* wrong: modes too
Changed(o, n) == o # n
Chunk(o, n) ==
    [mode |-> CASE o = Missing -> <<"new", n.exec>>
                [] n = Missing -> <<"deleted", o.exec>>
                [] o # Missing /\ n # Missing ->
                     IF o.exec # n.exec THEN <<"old", o.exec, n.exec>> ELSE <<>>,
     body |-> CASE o = Missing -> <<n.data>>
                [] n = Missing -> <<o.data>>
                [] o # Missing /\ n # Missing ->
                     IF o.data # n.data THEN <<o.data, n.data>> ELSE <<>>]
Rendered(base, cand) ==
    LET paths == DOMAIN cand \cup (IF base = NoTree THEN {} ELSE DOMAIN base)
        changed == {p \in paths : Changed(Of(base, p), Of(cand, p))}
    IN  [p \in changed |-> Chunk(Of(base, p), Of(cand, p))]

\* schema_text: the schema's contents, or Missing.
SchemaText(tree) ==
    LET at == JoinWithin(Project, SchemaFile)
    IN  IF tree = NoTree \/ at = Refused THEN Missing
        ELSE IF at \notin DOMAIN tree THEN Missing ELSE tree[at].data

\* scan_warnings parses each .tf file of the input, of a module or not.
Scans(tree) == \A p \in DOMAIN tree : Last(p) \in TfNames => Sources[tree[p].data] # Unparsable

\* review, and review_worker's rule for a candidate that changes nothing.
ReviewOf(base, cand) ==
    LET text == SchemaText(cand)
        vars == IF text = Missing THEN Unparsable ELSE SchemaVars[text]
        diff == Rendered(base, cand)
    IN  IF vars = Unparsable \/ (base # NoTree /\ DOMAIN diff = {}) THEN Refused
        ELSE IF vars \cap RunnerVars # {} \/ ~Scans(cand) THEN Refused
        ELSE [baseline |-> base, candidate |-> cand, diff |-> diff, schema |-> text,
              filesChanged |-> Cardinality(DOMAIN diff),
              schemaChanged |-> SchemaText(base) # text,
              external |-> Cardinality(DOMAIN diff) > MaxShown]

Reviewed ==
    /\ stage = "collect" /\ queue = <<>>
    /\ outcome' = ReviewOf(baseline, files)
    /\ stage' = IF outcome' = Refused THEN "refused" ELSE "done"
    /\ UNCHANGED <<unpackVars, collectVars, baseline>>

----------------------------------------------------------------------------
(* diff-digest, over a checkout D of the operator's, with x the paths that *)
(* have the execute bit.                                                   *)

\* list_files: the regular files, but for .git at the root.
Listed(D) == {p \in DOMAIN D : D[p] \notin {Dir, Link} /\ Head(p) # Git}
ModesFromDisk(D, x) == [p \in Listed(D) |-> p \in x]

\* The directories execution_input reaches, one step further each time.
Reached(D) ==
    LET step(ds) == ds \cup UNION {ModuleDirs(D, d) : d \in
                        {e \in ds : ModuleDirs(D, e) # Refused}}
        far[n \in 0..Cardinality(DOMAIN D)] ==
            IF n = 0 THEN {Project} ELSE step(far[n - 1])
    IN  far[Cardinality(DOMAIN D)]
InputOf(D, M) ==
    LET dirs == Reached(D)
        walks == {Walked(D, M, d) : d \in dirs}
    IN  IF Refused \in walks \/ (\E d \in dirs : ModuleDirs(D, d) = Refused) THEN Refused
        ELSE LET all == UNION {DOMAIN w : w \in walks}
             IN  [p \in all |-> [exec |-> M[p], data |-> D[p]]]
DiffDigest(base, D, x) ==
    LET cand == InputOf(D, ModesFromDisk(D, x))
    IN  IF cand = Refused THEN Refused ELSE <<cand, Rendered(base, cand)>>

----------------------------------------------------------------------------
ReviewInit ==
    /\ stage = "unpack"
    /\ count = 0 /\ written = 0
    /\ disk = <<>> /\ modes = <<>> /\ seen = {}
    /\ queue = <<>> /\ visited = {} /\ files = <<>>
    /\ baseline \in Baselines
    /\ outcome = Refused

ReviewNext ==
    \/ \E e \in Entries : Unpack(e)
    \/ UnpackFails \/ Unpacked \/ Collect \/ Reviewed

ReviewSpec == ReviewInit /\ [][ReviewNext]_reviewVars
----------------------------------------------------------------------------
(* Properties.                                                             *)

\* execution_input, "every file Terraform will read for `project_path`", and
\* "the command the operator runs to reproduce the diff digest": an operator
\* with the same files, and the execute bits the archive gave them, reaches the
\* digests that are signed, whatever cycles, shared or nested modules there are,
\* and whatever a clone adds under .git and a working copy outside the project.
\* The input has each file below a directory that can be reached from the
\* project once, and is turned down only when one of them has to be.
Clones == {<<>>, (<<Git>> :> Dir) @@ (<<Git, "config">> :> CHOOSE d \in Data : TRUE),
           (<<"zz">> :> Link)}
OperatorRepeats ==
    stage = "done" =>
        \A more \in Clones :
            (Project # <<>> \/ Link \notin Range(more))
            => DiffDigest(baseline, disk @@ more, {p \in DOMAIN modes : modes[p]})
               = <<outcome.candidate, outcome.diff>>
InputIsExact == stage = "collect" /\ queue = <<>> => InputOf(disk, modes) = files
OperatorAgrees == OperatorRepeats /\ InputIsExact

\* What is shown tells what will run: no tree one file away from the candidate
\* (another mode, other contents, a file more or less) has the same diff, and a
\* candidate the review lets through differs from the baseline.
Edited(tree, p, f) ==
    IF f = Missing THEN [q \in DOMAIN tree \ {p} |-> tree[q]] ELSE With(tree, p, f)
DiffTellsAll ==
    stage = "done" =>
        /\ files # baseline
        /\ \A p \in DOMAIN files \cup {e.path : e \in Entries},
              f \in [exec : BOOLEAN, data : Data] \cup {Missing} :
              Rendered(baseline, Edited(files, p, f)) = outcome.diff
              => Edited(files, p, f) = files
============================================================================
