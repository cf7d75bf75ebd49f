------------------------------ MODULE MCEdges ------------------------------
(***************************************************************************)
(* Small instances, side by side, of four parts of the system that never   *)
(* meet in one step: enrolling devices (Enroll), authenticating a runner   *)
(* (RunnerAuth), reviewing a revision (Review), and showing and applying   *)
(* what is approved (Presented).  A behaviour is one of one of them, which *)
(* `part` names, while the others stay as they begin.                      *)
(***************************************************************************)
EXTENDS Enroll, RunnerAuth, Review, Presented

CONSTANTS Horizon, Limit

VARIABLE part

edgesVars == <<part, enrollVars, authVars, reviewVars, presentedVars>>

----------------------------------------------------------------------------
(* Enroll: a new state directory, or one with a device of an earlier       *)
(* version.  Names are interchangeable.                                    *)

EnrollClock == 0..Horizon
FoundLists == {{}} \cup {{Device(Legacy, n)} : n \in Names}
Symmetry == Permutations(Names)

(* RunnerAuth: two requests with one nonce and two with one runner.        *)

AuthClock == 0..Limit
Signed == {[runner |-> "r1", nonce |-> 1, stamp |-> 3],
           [runner |-> "r1", nonce |-> 2, stamp |-> 1],
           [runner |-> "other", nonce |-> 1, stamp |-> 1]}

----------------------------------------------------------------------------
(* Review: a project `p` with modules `m` and `n` beside it that may refer *)
(* to each other and back.                                                 *)

MCData == {"plain", "mods", "back", "out", "bad", "vars", "clash"}
MCSources == [d \in MCData |->
    CASE d = "mods"  -> <<<<"..", "m">>, <<".", "..", "n">>>>
      [] d = "back"  -> <<<<"..", "p">>>>
      [] d = "out"   -> <<<<"..", "..", "m">>>>
      [] d = "plain" -> <<>>
      [] OTHER       -> Unparsable]
MCSchemaVars == [d \in MCData |->
    CASE d = "vars" -> {"v"} [] d = "clash" -> {"r"} [] OTHER -> Unparsable]
MCSize == [d \in MCData |-> IF d = "plain" THEN 0 ELSE 1]

ArchiveFile(p, d) == [kind |-> "file", path |-> p, exec |-> FALSE, data |-> d]
MCEntries ==
    {ArchiveFile(<<"p", "a.tf">>, "mods"), ArchiveFile(<<"p", "a.tf">>, "out"),
     ArchiveFile(<<"m", ".", "b.tf">>, "back"),
     ArchiveFile(<<"n", "c.tf">>, "back"),
     [ArchiveFile(<<"n", "c.tf">>, "back") EXCEPT !.exec = TRUE],
     ArchiveFile(<<"p", "schema">>, "vars"), ArchiveFile(<<"p", "schema">>, "clash"),
     ArchiveFile(<<"p", "s", ".git">>, "bad"), ArchiveFile(<<"p", "s", "b.tf">>, "bad"),
     ArchiveFile(<<"m">>, "bad"),
     ArchiveFile(<<"p", "x.tfstate">>, "plain"), ArchiveFile(<<"..", "y">>, "plain"),
     [ArchiveFile(<<"p", "x">>, "plain") EXCEPT !.kind = "link"],
     [ArchiveFile(<<"m">>, "plain") EXCEPT !.kind = "dir"],
     [ArchiveFile(<<"p", ".terraform">>, "plain") EXCEPT !.kind = "dir"]}

Trusted(d) == [exec |-> FALSE, data |-> d]
MCBaselines ==
    {NoTree, <<"p", "schema">> :> Trusted("vars"),
     (<<"n", "c.tf">> :> Trusted("back")) @@ (<<"p", "schema">> :> Trusted("clash"))}
MCProject == <<"p">>
MCSchemaFile == <<"schema">>

----------------------------------------------------------------------------
(* Presented: numbers count halves, so that MaxSafe 4 is two.              *)

Number(form, n) == [form |-> form, n |-> n]
Text(s) == [form |-> "string", s |-> s]
List(items) == [form |-> "list", items |-> items]
Bool(b) == [form |-> "bool", b |-> b]

NumberVars ==
    {[type |-> "number"],
     [type |-> "number", integer |-> TRUE, default |-> Number("float", 2)],
     [type |-> "number", integer |-> TRUE, default |-> Number("float", 3)],
     [type |-> "number", min |-> Number("float", 1), max |-> Number("int", 2),
      default |-> Number("float", 2)],
     [type |-> "number", min |-> Number("int", 4), max |-> Number("int", 2)],
     [type |-> "number", choices |-> {"a"}],
     [type |-> "number", max |-> Number("int", 6)]}
OtherVars ==
    {[type |-> "string", choices |-> {"a", "long"}, maxLen |-> 1, default |-> Text("a")],
     [type |-> "string", choices |-> {"a", "bidi"}],
     [type |-> "string", pattern |-> {"a", "bidi"}],
     [type |-> "string", pattern |-> {"a"}, choices |-> {"a"}],
     [type |-> "bool"],
     [type |-> "list", itemChoices |-> {"a", "long"}, maxItems |-> 1],
     [type |-> "list", itemPattern |-> {"a"}, maxItems |-> 0],
     [type |-> "list", maxItems |-> 1]}
MCSchemas ==
    {[x |-> x] : x \in NumberVars} \cup {[y |-> y] : y \in OtherVars}
    \cup {[x |-> [type |-> "number", integer |-> TRUE, default |-> Number("float", 2)],
           y |-> [type |-> "bool"]],
          [x |-> [type |-> "number"], r |-> [type |-> "bool"]]}

XValues == {Number("uint", 2), Number("uint", 6), Number("int", -2), Number("float", 2),
            Number("float", 3), Number("float", 5), Number("float", -4)}
YValues == {Text("a"), Text("long"), Text("bidi"), Bool(TRUE), List(<<>>),
            List(<<Text("a")>>), List(<<Text("a"), Text("a")>>), List(<<Bool(TRUE)>>)}
MCManifests ==
    {<<>>} \cup {<<<<"x", v>>>> : v \in XValues} \cup {<<<<"y", w>>>> : w \in YValues}
    \cup {<<<<"y", Bool(TRUE)>>, <<"x", v>>>> : v \in XValues}
    \cup {<<<<"x", Number("uint", 2)>>, <<"x", Number("uint", 4)>>, <<"y", Bool(TRUE)>>>>,
          <<<<"x", Number("uint", 2)>>, <<"z", Number("uint", 2)>>>>}
Lengths == [s \in {"a", "long", "bidi"} |-> IF s = "long" THEN 2 ELSE 1]

Change(actions, address) ==
    [actions |-> actions, address |-> address, importing |-> FALSE, moved |-> FALSE]
OneChange ==
    {Change(<<"create">>, <<"a">>), Change(<<"delete", "create">>, <<"a", " ", "b">>),
     Change(<<"delete">>, <<"a">>), Change(<<"no-op">>, <<"a">>),
     Change(<<"update">>, <<"s">>), Change(<<"forget">>, <<"b">>),
     [Change(<<"no-op">>, <<"b">>) EXCEPT !.importing = TRUE],
     [Change(<<"update">>, <<"b">>) EXCEPT !.moved = TRUE],
     Change(<<"create">>, <<"a", "\n", "create", " ", "b">>),
     Change(<<"update">>, <<>>), Change(<<"update">>, <<"a", "a", "a", "a", "a", "a">>)}
Paired == {c \in OneChange : Len(c.address) \in 1..3 /\ c.address # <<"s">>}
MCPlans == {<<>>} \cup {<<c>> : c \in OneChange} \cup {<<c, d>> : c, d \in Paired}
MCStrays == {<<>>}
MCControls == {"\n"}
MCApplied == {Absent, [manifest |-> [x |-> Number("int", 2)], status |-> "uncertain"]}

TreeScope(c) == [candidate |-> c, diff |-> c]
Construct(what, vars) == [what |-> what, file |-> "f", vars |-> vars, onePassword |-> FALSE]
MCReviews ==
    {[scope |-> TreeScope("c1"), diff |-> "c1", verify |-> Absent, names |-> {"x", "y"},
      constructs |-> {Construct("fileCall", {"x", "y", "z"}), Construct("provisioner", {}),
                      [Construct("count", {"x"}) EXCEPT !.onePassword = TRUE]}],
     [scope |-> TreeScope("c2"), diff |-> Absent, verify |-> "v2", names |-> {"x"},
      constructs |-> {Construct("conditional", {"x"}), Construct("namespaced", {})}],
     [scope |-> TreeScope("c3"), diff |-> Absent, verify |-> "v3", names |-> {},
      constructs |-> {}]}
MCForgeries ==
    {[scope |-> TreeScope("c1"), diff |-> "c2", verify |-> Absent],
     [scope |-> TreeScope("c2"), diff |-> Absent, verify |-> "v3"],
     [scope |-> TreeScope("c2"), diff |-> "c2", verify |-> Absent]}

----------------------------------------------------------------------------
\* Each part begins in its own states, while the others have one each.
EdgesInit ==
    /\ part \in {"enroll", "auth", "review", "presented"}
    /\ EnrollInit /\ (part # "enroll" => deviceFile = {})
    /\ AuthInit /\ (part # "auth" => wallClock = 0)
    /\ ReviewInit /\ (part # "review" => baseline = NoTree)
    /\ PresentedInit /\ context = "one"   \* nothing tells the contexts apart

EnrollPart ==
    /\ part = "enroll" /\ EnrollNext
    /\ UNCHANGED <<part, authVars, reviewVars, presentedVars>>
AuthPart ==
    /\ part = "auth" /\ AuthNext
    /\ UNCHANGED <<part, enrollVars, reviewVars, presentedVars>>
ReviewPart ==
    /\ part = "review" /\ ReviewNext
    /\ UNCHANGED <<part, enrollVars, authVars, presentedVars>>
PresentedPart ==
    /\ part = "presented" /\ PresentedNext
    /\ UNCHANGED <<part, enrollVars, authVars, reviewVars>>

EdgesNext == EnrollPart \/ AuthPart \/ ReviewPart \/ PresentedPart

EdgesSpec == EdgesInit /\ [][EdgesNext]_edgesVars
============================================================================
