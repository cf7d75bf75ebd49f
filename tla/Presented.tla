----------------------------- MODULE Presented -----------------------------
(***************************************************************************)
(* What the approver is shown, from end to end: how the runner turns an    *)
(* agent's manifest and Terraform's plan, or a review of the agent's tree, *)
(* into a scope and a display (src/runner/schema.rs, plan.rs, review.rs,   *)
(* exec.rs, run.rs), what the daemon checks of the two (src/server.rs,     *)
(* check_consistency; src/scope.rs), and what Terraform applies of it.     *)
(*                                                                         *)
(* Numbers count halves, so that 3 is 1.5.  A text is a sequence of tokens *)
(* among which "\n" and " " are what they are in the code.  A digest is    *)
(* the thing it is taken of.                                               *)
(***************************************************************************)
EXTENDS Integers, FiniteSets, Sequences, SequencesExt

CONSTANTS
    Schemas,       \* shoephone-schema.toml: name -> [type, ...keys given]
    Manifests,     \* the agent's manifest: a sequence of <<name, value>>
    RunnerNames,   \* the variables the runner's config supplies
    MaxSafe,       \* 2^53 - 1, in halves
    MaxEntries,    \* MAX_MANIFEST_BYTES, in entries
    DefaultLen, DefaultItems,
    Length, Forbidden,   \* of strings: how long, and which is_forbidden
    Plans,         \* plan files: sequences of changes
    Strays,        \* those that somebody may put in the place of another
    Controls,      \* tokens no address may have; "\n" among them
    Secrets,       \* tokens that are resolved secrets
    MaxAddress,    \* MAX_ADDRESS_CHARS, in tokens
    AppliedRecords,     \* applied.json: [manifest, status], or Absent
    Reviews,       \* root's review: [scope, diff or Absent, constructs]
    Forgeries,     \* what a worker may say instead of its review
    MaxWarnings,
    Absent,        \* None
    Rejected,
    Contexts,      \* what context_digest may find: Terraform, plugins and config
    MaxChanges     \* bound: replacements of the context after it was recorded

VARIABLES
    at,            \* how far the job is
    schema, canonical,
    context,       \* the Terraform binary, plugins and config there are now
    recorded,      \* context_digest, as it was taken for this plan
    replaced,      \* history: how often it was replaced since then
    workedIn,      \* history: the contexts Terraform worked in for this plan
    jobPlan,       \* plan.tfplan, where Terraform's user can write
    copy, sha,     \* the root-only copy, and the digest taken of it
    summary, scope, display,
    root,          \* history: root's own review
    applied        \* history: the plan Terraform applied

presentedVars == <<at, schema, canonical, context, recorded, replaced, workedIn,
                   jobPlan, copy, sha, summary, scope, display, root, applied>>
contextVars == <<context, recorded, replaced>>
planVars == <<jobPlan, copy, sha, summary>>
shownVars == <<scope, display, root>>

Goes(to) == at' = to
\* cleanup: whatever stops a job takes its directory and the copy with it.
PlanStops == Goes("refused") /\ jobPlan' = Absent /\ copy' = Absent

----------------------------------------------------------------------------
(* schema.rs: the schema, and the manifest's canonical text.               *)

Numeric == {"int", "uint", "float"}
Safe(v) == v.n \in -MaxSafe..MaxSafe
Whole(v) == v.n % 2 = 0

\* normalize: equal numbers become one value.
NormalizedUnsigned(v) ==   \* wrong: an integral float stays a float
    IF v.form = "uint" /\ Safe(v) THEN [v EXCEPT !.form = "int"] ELSE v
Normalized(v) ==
    IF v.form \in {"uint", "float"}
    THEN IF Safe(v) /\ Whole(v) THEN [v EXCEPT !.form = "int"] ELSE v
    ELSE v

StringFits(kind, s) ==
    s \notin Forbidden /\ Length[s] <= kind.maxLen /\ s \in kind.admits

\* check.
Fits(kind, v) ==
    \/ kind.type = "string" /\ v.form = "string" /\ StringFits(kind, v.s)
    \/ kind.type = "bool" /\ v.form = "bool"
    \/ /\ kind.type = "number" /\ v.form \in Numeric /\ Safe(v)
       /\ kind.integer => v.form # "float"
       /\ kind.min # Absent => v.n >= kind.min.n
       /\ kind.max # Absent => v.n <= kind.max.n
    \/ /\ kind.type = "list" /\ v.form = "list" /\ Len(v.items) <= kind.maxItems
       /\ \A i \in DOMAIN v.items :
             v.items[i].form = "string" /\ StringFits(kind, v.items[i].s)

\* build_variable: the keys that go with each type, and what is built of them.
Keys(type) ==
    CASE type = "string" -> {"pattern", "choices", "maxLen"}
      [] type = "number" -> {"min", "max", "integer"}
      [] type = "bool"   -> {}
      [] type = "list"   -> {"itemPattern", "itemChoices", "maxLen", "maxItems"}
Key(raw, k, default) == IF k \in DOMAIN raw THEN raw[k] ELSE default
Constraint(raw) == DOMAIN raw \cap {"pattern", "choices", "itemPattern", "itemChoices"}
BuildKind(raw) ==
    [type |-> raw.type,
     admits |-> IF Constraint(raw) = {} THEN {}
                ELSE raw[CHOOSE k \in Constraint(raw) : TRUE],
     maxLen |-> Key(raw, "maxLen", DefaultLen),
     maxItems |-> Key(raw, "maxItems", DefaultItems),
     min |-> Key(raw, "min", Absent), max |-> Key(raw, "max", Absent),
     integer |-> Key(raw, "integer", FALSE)]
KindStands(raw, kind) ==
    /\ DOMAIN raw \ {"type", "default"} \subseteq Keys(raw.type)
    /\ raw.type \in {"string", "list"} =>
          /\ Cardinality(Constraint(raw)) = 1
          /\ DOMAIN raw \cap {"choices", "itemChoices"} # {} =>
                kind.admits # {} /\ kind.admits \cap Forbidden = {}
    /\ \A k \in {"min", "max"} \cap DOMAIN raw : Safe(raw[k])
    /\ {"min", "max"} \subseteq DOMAIN raw => raw.min.n <= raw.max.n
    /\ kind.maxItems >= 1 \/ raw.type # "list"

\* toml_default.
Default(raw) == IF "default" \in DOMAIN raw THEN Normalized(raw.default) ELSE Absent

\* parse_schema and disjoint.
ParseSchema(text) ==
    LET built == [name \in DOMAIN text |-> [kind |-> BuildKind(text[name]),
                                            default |-> Default(text[name])]]
        stands(name) == /\ KindStands(text[name], built[name].kind)
                        /\ built[name].default # Absent
                           => Fits(built[name].kind, built[name].default)
    IN  IF (\A name \in DOMAIN text : stands(name)) /\ DOMAIN text \cap RunnerNames = {}
        THEN built ELSE Rejected

\* validate: every variable of the schema, once, in the order of their names.
Given(manifest) == {manifest[i][1] : i \in DOMAIN manifest}
ValueOf(sch, manifest, name) ==
    IF name \in Given(manifest)
    THEN Normalized(manifest[CHOOSE i \in DOMAIN manifest : manifest[i][1] = name][2])
    ELSE sch[name].default
Validate(sch, manifest) ==
    LET of(name) == ValueOf(sch, manifest, name)
    IN  IF \/ Len(manifest) > MaxEntries
           \/ Cardinality(Given(manifest)) # Len(manifest)
           \/ ~(Given(manifest) \subseteq DOMAIN sch)
           \/ \E name \in DOMAIN sch :
                 of(name) = Absent \/ ~Fits(sch[name].kind, of(name))
        THEN Rejected ELSE [name \in DOMAIN sch |-> of(name)]

\* What the parsers give: a number is its form and a count of halves, even
\* when the form is an integer's.
ParsedValue(v) ==
    /\ v.form # "number"
    /\ v.form \in Numeric =>
          /\ v = [form |-> v.form, n |-> v.n] /\ v.n \in Int
          /\ v.form # "float" => Whole(v)
ASSUME InputsParsed ==
    /\ MaxSafe \in Nat /\ MaxEntries \in Nat
    /\ \A text \in Schemas :
          /\ IsFiniteSet(DOMAIN text)
          /\ \A name \in DOMAIN text :
                "default" \in DOMAIN text[name] => ParsedValue(text[name].default)
    /\ \A manifest \in Manifests : \A i \in DOMAIN manifest : ParsedValue(manifest[i][2])

\* The text is JSON again for whoever reads it: a whole number without a
\* sign comes back unsigned.
ReadBack(v) == IF v.form = "int" /\ v.n >= 0 THEN [v EXCEPT !.form = "uint"] ELSE v
AsManifest(text) == SetToSeq({<<name, ReadBack(text[name])>> : name \in DOMAIN text})

----------------------------------------------------------------------------
(* plan.rs and scope.rs: the plan as the approver reads it.                *)

Replaces == {<<"delete", "create">>, <<"create", "delete">>}
Skips == {<<"no-op">>, <<"read">>}
Single == {"create", "update", "delete"}

\* map_actions: an action, Absent for a change to skip, or Rejected.
MapActions(list) ==
    CASE list \in Replaces -> "replace"
      [] list \in Skips -> Absent
      [] Len(list) = 1 /\ list[1] \in Single -> list[1]
      [] OTHER -> Rejected

Rank == [delete |-> 0, replace |-> 1, create |-> 2, update |-> 3]
Clean(address) == address # <<>> /\ ToSet(address) \cap Controls = {}

\* address_text.
AddressText(changes) ==
    IF \E i \in DOMAIN changes : ~Clean(changes[i].address) THEN Rejected
    ELSE FlattenSeq([i \in DOMAIN changes |->
                        <<changes[i].action, " ">> \o changes[i].address \o <<"\n">>])

\* summarize; an output's address is built of its name, and is no resource
\* that could be imported or moved.
CountOf(changes, action) == Cardinality({i \in DOMAIN changes : changes[i].action = action})
CountedReplaceAsDelete(changes) ==   \* wrong: a replace is a delete and a create
    [a \in DOMAIN Rank |->
        IF a = "replace" THEN 0
        ELSE CountOf(changes, a)
             + (IF a \in {"delete", "create"} THEN CountOf(changes, "replace") ELSE 0)]
Counted(changes) == [a \in DOMAIN Rank |-> CountOf(changes, a)]
Summarize(plan) ==
    LET doing(i) == MapActions(plan[i].actions)
        listed == {i \in DOMAIN plan : doing(i) # Absent}
        order == SetToSortSeq(listed, LAMBDA i, j :
                     Rank[doing(i)] < Rank[doing(j)]
                     \/ (Rank[doing(i)] = Rank[doing(j)] /\ i < j))
        changes == [k \in DOMAIN order |-> [action |-> doing(order[k]),
                                            address |-> plan[order[k]].address]]
    IN  IF \/ \E i \in DOMAIN plan : plan[i].importing \/ plan[i].moved \/ doing(i) = Rejected
           \/ \E i \in listed : Len(plan[i].address) > MaxAddress
        THEN Rejected
        ELSE IF AddressText(changes) = Rejected THEN Rejected
        ELSE [changes |-> changes, counts |-> Counted(changes),
              destructive |-> \E k \in DOMAIN changes :
                                  changes[k].action \in {"delete", "replace"}]

\* Resolved::reveals.
Reveals(address) == ToSet(address) \cap Secrets # {}

----------------------------------------------------------------------------
(* review.rs: the warnings of a scan.                                      *)

\* Scan::block, Scan::attr and ExprScan: the construct's own warning, and what
\* its expression lets a schema variable steer.
OwnWarning ==
    [provisioner |-> "provisioner", import |-> "import", dataExternal |-> "external_data",
     dataHttp |-> "http_data", dataFile |-> "local_file_read",
     sourceFile |-> "local_file_read", fileCall |-> "local_file_read",
     nonsensitive |-> "nonsensitive", namespaced |-> "provider_function"]
Steered ==
    [count |-> "count", forEach |-> "for_each", sourceFile |-> "file_path",
     fileCall |-> "file_path", conditional |-> "condition"]
WarningKinds == Range(OwnWarning) \cup {"schema_variable_steers"}
WarningIntos == Range(Steered) \cup {"secret_selector"}
Steers(c, names) ==
    {[kind |-> "schema_variable_steers", file |-> c.file, variable |-> v, into |-> i] :
        v \in c.vars \cap names,
        i \in (IF c.what \in DOMAIN Steered THEN {Steered[c.what]} ELSE {})
              \cup (IF c.onePassword THEN {"secret_selector"} ELSE {})}
Scanned(constructs, names) ==
    {[kind |-> OwnWarning[c.what], file |-> c.file, variable |-> Absent, into |-> Absent] :
        c \in {x \in constructs : x.what \in DOMAIN OwnWarning}}
    \cup UNION {Steers(c, names) : c \in constructs}

\* What a review is: finitely many warnings, of named variables, and the text
\* of the diff or the command that makes it.  None is none of these.
ASSUME ReviewsTell ==
    /\ MaxWarnings \in Nat
    /\ Absent \notin WarningIntos
    /\ \A own \in Reviews :
          /\ IsFiniteSet(Scanned(own.constructs, own.names))
          /\ Absent \notin own.names
          /\ own.diff = Absent => own.verify # Absent

\* display_warnings: each once, cut to what the daemon takes.
DisplayUncut(warnings) ==   \* wrong: what is over is counted, and sent
    [shown |-> SetToSeq(warnings),
     omitted |-> IF Cardinality(warnings) > MaxWarnings
                 THEN Cardinality(warnings) - MaxWarnings ELSE 0]
DisplayWarnings(warnings) ==
    LET all == SetToSeq(warnings)
    IN  IF Len(all) <= MaxWarnings THEN [shown |-> all, omitted |-> 0]
        ELSE [shown |-> SubSeq(all, 1, MaxWarnings), omitted |-> Len(all) - MaxWarnings]

----------------------------------------------------------------------------
(* server.rs: what the daemon checks of a submit.                          *)

\* parse_address_text.
Lines(text) ==
    LET ends == SetToSortSeq({i \in DOMAIN text : text[i] = "\n"} \cup {Len(text) + 1}, <)
        from(k) == IF k = 1 THEN 1 ELSE ends[k - 1] + 1
    IN  SelectSeq([k \in DOMAIN ends |-> SubSeq(text, from(k), ends[k] - 1)],
                  LAMBDA line : line # <<>>)
ParsedText(text) ==
    LET lines == Lines(text)
        action(line) == line[1]
        stands(line) == Len(line) >= 2 /\ line[1] \in DOMAIN Rank /\ line[2] = " "
        changes == [k \in DOMAIN lines |->
                       [action |-> lines[k][1], address |-> SubSeq(lines[k], 3, Len(lines[k]))]]
    IN  IF \E k \in DOMAIN lines : ~stands(lines[k]) THEN Rejected
        ELSE IF AddressText(changes) = text THEN changes ELSE Rejected

\* check_warnings.
WarningsStand(w) ==
    /\ Len(w.shown) <= MaxWarnings
    /\ w.omitted > 0 => Len(w.shown) = MaxWarnings
    /\ \A i \in DOMAIN w.shown :
          LET x == w.shown[i]
              steers == x.kind = "schema_variable_steers"
          IN  /\ x.kind \in WarningKinds
              /\ steers = (x.variable # Absent /\ x.into # Absent)
              /\ ~steers => x.variable = Absent /\ x.into = Absent
              /\ x.into # Absent => x.into \in WarningIntos

\* check_consistency.
TrustConsistent(sc, dp) ==
    /\ dp.manifest = Absent /\ dp.baseline = Absent /\ dp.text = Absent
    /\ WarningsStand(dp.warnings)
    /\ IF dp.external THEN dp.diff = Absent /\ dp.verify # Absent
       ELSE dp.verify = Absent /\ dp.diff = sc.diff
ApplyConsistent(sc, dp) ==
    /\ dp.diff = Absent /\ ~dp.external /\ dp.verify = Absent
    /\ dp.warnings = [shown |-> <<>>, omitted |-> 0]
    /\ dp.manifest = sc.manifest /\ dp.baseline = sc.baseline
    /\ (sc.status = "none") = (sc.baseline = Absent)
    /\ dp.text = sc.addresses
    /\ LET changes == ParsedText(dp.text)
       IN  changes # Rejected /\ sc.counts = [a \in DOMAIN Rank |-> CountOf(changes, a)]
    /\ sc.destructive = (sc.counts["delete"] > 0 \/ sc.counts["replace"] > 0)
Consistent(sc, dp) ==
    IF sc.kind = "trust" THEN TrustConsistent(sc, dp) ELSE ApplyConsistent(sc, dp)

NoDisplay == [manifest |-> Absent, baseline |-> Absent, text |-> Absent, diff |-> Absent,
              external |-> FALSE, verify |-> Absent,
              warnings |-> [shown |-> <<>>, omitted |-> 0]]

----------------------------------------------------------------------------
(* An apply job.                                                           *)

\* plan_apply, up to Terraform: the context is taken before any of it runs.
Validated(text, manifest) ==
    /\ at = "start"
    /\ schema' = ParseSchema(text)
    /\ canonical' = IF schema' = Rejected THEN Rejected ELSE Validate(schema', manifest)
    /\ Goes(IF canonical' = Rejected THEN "refused" ELSE "init")
    /\ recorded' = IF canonical' = Rejected THEN Absent ELSE context
    /\ UNCHANGED <<context, replaced, workedIn, planVars, shownVars, applied>>

\* plan_steps: init, then plan, each of which may fail; and the status is
\* read after each, so that the job may turn out to be over.
Runs == workedIn' = workedIn \cup {context}
RunInit ==
    /\ at = "init" /\ Runs
    /\ \/ Goes("plan") /\ UNCHANGED <<jobPlan, copy>>
       \/ PlanStops
    /\ UNCHANGED <<schema, canonical, contextVars, sha, summary, shownVars, applied>>
RunPlan(plan) ==
    /\ at = "plan" /\ Runs
    /\ \/ Goes("copy") /\ jobPlan' = plan /\ UNCHANGED copy
       \/ PlanStops
    /\ UNCHANGED <<schema, canonical, contextVars, sha, summary, shownVars, applied>>

\* The bytes are read once; their digest is of what was read.
CopyPlan ==
    /\ at = "copy"
    /\ \/ /\ jobPlan # Absent /\ copy' = jobPlan /\ sha' = jobPlan
          /\ Goes("show") /\ UNCHANGED jobPlan
       \/ PlanStops /\ UNCHANGED sha
    /\ UNCHANGED <<schema, canonical, contextVars, workedIn, summary, shownVars, applied>>

\* open_verified, by what it leads to: the file Terraform is given.
Verified == IF copy # Absent /\ copy = sha THEN copy ELSE Absent

\* show, summarize, and plan_checked's look for secrets.
ShowPlan ==
    /\ at = "show"
    /\ summary' = IF Verified = Absent THEN Rejected ELSE Summarize(Verified)
    /\ LET told == summary' # Rejected /\ \A k \in DOMAIN summary'.changes :
                                            ~Reveals(summary'.changes[k].address)
       IN  \/ told /\ Goes("present") /\ UNCHANGED <<jobPlan, copy>>
           \/ ~told /\ PlanStops
    /\ Runs
    /\ UNCHANGED <<schema, canonical, contextVars, sha, shownVars, applied>>

\* plan_apply, from the summary on.
PresentApply(allowDestroy, baseline) ==
    /\ at = "present"
    /\ \/ summary.destructive /\ ~allowDestroy /\ PlanStops /\ UNCHANGED shownVars
       \/ /\ summary.destructive => allowDestroy
          /\ LET text == AddressText(summary.changes)
                 before == IF baseline = Absent THEN Absent ELSE baseline.manifest
             IN  /\ scope' = [kind |-> "apply", manifest |-> canonical, baseline |-> before,
                              status |-> IF baseline = Absent THEN "none" ELSE baseline.status,
                              plan |-> sha, destructive |-> summary.destructive,
                              counts |-> summary.counts, addresses |-> text]
                 /\ display' = [NoDisplay EXCEPT !.manifest = canonical,
                                    !.baseline = before, !.text = text]
          /\ Goes("submit") /\ UNCHANGED <<root, jobPlan, copy>>
    /\ UNCHANGED <<schema, canonical, contextVars, workedIn, sha, summary, applied>>

----------------------------------------------------------------------------
(* A trust job: the worker's review, and root's own of the same archive.   *)

\* plan_trust: every signed field must agree, and the text the worker would
\* have shown must be root's; the warnings are root's.
ShownAgrees(worker, own) ==
    \/ worker.diff # Absent /\ own.diff # Absent /\ worker.diff = own.scope.diff
    \/ worker.diff = Absent /\ own.diff = Absent /\ worker.verify = own.verify

PresentTrust(own, worker) ==
    /\ at = "start"
    /\ root' = own
    /\ IF worker.scope = own.scope /\ ShownAgrees(worker, own)
       THEN /\ scope' = [kind |-> "trust", candidate |-> worker.scope.candidate,
                          diff |-> worker.scope.diff]
            /\ display' = [NoDisplay EXCEPT
                               !.diff = worker.diff, !.external = worker.diff = Absent,
                               !.verify = IF worker.diff = Absent THEN worker.verify ELSE Absent,
                               !.warnings = DisplayWarnings(Scanned(own.constructs, own.names))]
            /\ Goes("submit")
       ELSE Goes("refused") /\ UNCHANGED <<scope, display>>
    /\ UNCHANGED <<schema, canonical, contextVars, workedIn, planVars, applied>>

----------------------------------------------------------------------------
(* Submitted, claimed, applied.                                            *)

Submitted ==
    /\ at = "submit"
    /\ Goes(IF Consistent(scope, display) THEN "accepted" ELSE "inconsistent")
    /\ UNCHANGED <<schema, canonical, contextVars, workedIn, planVars, shownVars, applied>>

\* apply_claimed: check_context, once the approval is claimed; the trust may
\* have gone, or a secret be out of reach.
Unpinned == TRUE   \* wrong: whatever is there now will do
Pinned == context = recorded
Claimed ==
    /\ at = "accepted" /\ scope.kind = "apply"
    /\ \/ Pinned /\ Goes("apply") /\ UNCHANGED <<jobPlan, copy>>
       \/ PlanStops
    /\ UNCHANGED <<schema, canonical, contextVars, workedIn, sha, summary, shownVars,
                   applied>>

\* exec::apply; it stops if the copy is another's or the journal cannot be written.
ApplyPlan ==
    /\ at = "apply"
    /\ \/ Verified # Absent /\ applied' = Verified /\ Goes("done")
          /\ copy' = Absent /\ jobPlan' = Absent
       \/ PlanStops /\ UNCHANGED applied
    /\ UNCHANGED <<schema, canonical, contextVars, workedIn, sha, summary, shownVars>>

\* What Terraform's user may do to its directory at any time, and what may
\* become of the copy on disk.
Meddle(plan) ==
    /\ at \in {"copy", "show", "present", "submit", "accepted", "apply"}
    /\ \/ jobPlan' = plan /\ UNCHANGED copy
       \/ copy # Absent /\ copy' = plan /\ UNCHANGED jobPlan
    /\ UNCHANGED <<at, schema, canonical, contextVars, workedIn, sha, summary,
                   shownVars, applied>>

\* The operator puts another Terraform, plugin or config in place, or one that
\* was there before.  (What happens before it is recorded makes another start.)
ContextChanges ==
    /\ recorded # Absent /\ replaced < MaxChanges
    /\ at \notin {"refused", "done", "inconsistent"}
    /\ context' \in Contexts \ {context} /\ replaced' = replaced + 1
    /\ UNCHANGED <<at, schema, canonical, recorded, workedIn, planVars, shownVars, applied>>

PresentedInit ==
    /\ at = "start" /\ schema = Rejected /\ canonical = Rejected
    /\ context \in Contexts /\ recorded = Absent /\ replaced = 0 /\ workedIn = {}
    /\ jobPlan = Absent /\ copy = Absent /\ sha = Absent /\ summary = Rejected
    /\ scope = Absent /\ display = Absent /\ root = Absent /\ applied = Absent

PresentedNext ==
    \/ \E text \in Schemas, manifest \in Manifests : Validated(text, manifest)
    \/ RunInit \/ (\E plan \in Plans : RunPlan(plan))
    \/ \E plan \in Strays : Meddle(plan)
    \/ CopyPlan \/ ShowPlan
    \/ \E allow \in BOOLEAN, baseline \in AppliedRecords : PresentApply(allow, baseline)
    \/ \E own \in Reviews, worker \in Reviews \cup Forgeries : PresentTrust(own, worker)
    \/ Submitted \/ Claimed \/ ApplyPlan \/ ContextChanges

PresentedSpec == PresentedInit /\ [][PresentedNext]_presentedVars

----------------------------------------------------------------------------
(* Properties.                                                             *)

\* Canonical, "the exact bytes the approver's page and the daemon compare, key
\* by key", and Terraform reads: the text is a manifest of the schema that has
\* itself as its canonical text, unless the defaults made it too long for one,
\* and "equal numbers must render as equal bytes": no manifest that means the
\* same has another.
Meaning(text) ==
    [name \in DOMAIN text |->
        IF text[name].form \in Numeric THEN [form |-> "number", n |-> text[name].n]
        ELSE text[name]]
CanonicalIsFixed ==
    canonical # Rejected =>
        /\ Cardinality(DOMAIN canonical) <= MaxEntries =>
              Validate(schema, AsManifest(canonical)) = canonical
        /\ \A manifest \in Manifests :
              LET other == Validate(schema, manifest)
              IN  other # Rejected => (Meaning(other) = Meaning(canonical) => other = canonical)

\* The daemon finds what the runner made of a plan and of a review consistent,
\* always: "advisory warnings must never block a trust" (display_warnings), and
\* "the signed fields cannot drift apart" (plan_apply).
NeverInconsistent == at # "inconsistent"

\* What the approver reads, line by line, is what Terraform planned: each
\* change once with its action and its address, none besides, none imported or
\* moved, and the counts and the destructive flag say the same; and of a trust,
\* root's own diff or the command that makes it, whatever the worker said.
ReadAs(changes, action, address) ==
    Cardinality({k \in DOMAIN changes : changes[k] = [action |-> action, address |-> address]})
PlannedAs(plan, action, address) ==
    Cardinality({i \in DOMAIN plan : MapActions(plan[i].actions) = action
                                      /\ plan[i].address = address})
ShownIsTrue ==
    at \in {"submit", "accepted", "apply", "done"} =>
        IF scope.kind = "trust"
        THEN /\ scope.candidate = root.scope.candidate
             /\ IF display.external THEN root.diff = Absent /\ display.verify = root.verify
                ELSE display.diff = root.scope.diff
        ELSE /\ \A i \in DOMAIN sha : ~sha[i].importing /\ ~sha[i].moved
             /\ \A action \in DOMAIN Rank :
                   \A address \in {sha[i].address : i \in DOMAIN sha}
                                   \cup {c.address : c \in ToSet(ParsedText(display.text))} :
                       ReadAs(ParsedText(display.text), action, address)
                       = PlannedAs(sha, action, address)
             /\ \A action \in DOMAIN Rank :
                   scope.counts[action]
                   = Cardinality({i \in DOMAIN sha : MapActions(sha[i].actions) = action})
             /\ scope.destructive =
                   \E i \in DOMAIN sha : \E k \in DOMAIN sha[i].actions :
                                             sha[i].actions[k] = "delete"

\* "The plan Terraform writes is copied at once [...], and that copy is what is
\* hashed, shown and applied" (exec.rs): the plan applied is the one whose
\* summary was signed, whatever is written to the job's directory or to the copy
\* in between.  And it was made with the Terraform, plugins and config that were
\* recorded for it, if those were replaced at most once since: the context is
\* compared when the job is claimed, so that another one put in place and the
\* old one put back before that goes unseen.
AppliedIsShown ==
    applied # Absent =>
        /\ applied = scope.plan
        /\ Summarize(applied) = summary
        /\ replaced < 2 => workedIn = {recorded}
=============================================================================
