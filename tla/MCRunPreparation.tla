-------------------------- MODULE MCRunPreparation --------------------------
(* RunPreparation on inputs that vary one thing at a time: a setting, the    *)
(* config directory, the files, the models, the sub-agents, the diff.        *)
EXTENDS RunPreparation

NoSetting == [role |-> "plain", kind |-> "name", flag |-> "unset", system |-> "unset",
              section |-> "unset", ci |-> "unset", toml |-> "unset"]
Auto == [cli |-> "unset", env |-> "unset", disabled |-> FALSE, before |-> FALSE, branch |-> TRUE,
         stray |-> "none"]
NoFile == [kind |-> "text", dir |-> "unset", inline |-> "unset", path |-> "unset",
           env |-> "unset", envInline |-> "unset"]
FrontMatter(form, entries) == [form |-> form, entries |-> entries, text |-> {}]
Helper == [name |-> "helper", front |-> FrontMatter("none", <<>>)]
Diff(class, change, lines) ==
    [class |-> class, quoted |-> FALSE, spaced |-> FALSE, change |-> change, lines |-> lines]

Model(name) == [name |-> name, blanks |-> FALSE]
InBlanks(name) == [name |-> name, blanks |-> TRUE]

Usual == [program |-> "reviewer", toml |-> TRUE, scalar |-> NoSetting, dirs |-> Auto, file |-> NoFile,
          models |-> [model |-> Model("m1"), fallbacks |-> <<Model("m2")>>, provider |-> Model("m1")],
          agents |-> <<Helper>>, overrides |-> {}, keep |-> FALSE,
          files |-> <<Diff("code", "modified", <<"@@", "context", "-", "+">>)>>]

Programs == {Usual, [Usual EXCEPT !.program = "warrior"]}

\* Every value in every source of a plain setting, of a branch, of a merge request.
Scalars ==
    [role : {"plain"}, kind : Kinds, flag : {"unset"}, system : Raw, section : Raw, ci : {"unset"}, toml : Raw]
    \cup [role : {"branch"}, kind : {"string"}, flag : {"unset", "good"}, system : {"unset", "good"},
          section : {"unset", "good"}, ci : {"unset", "good"}, toml : {"unset", "good"}]
ScalarsOfTheWarrior ==
    [role : {"warriorBranch"}, kind : {"string"}, flag : {"unset", "good"}, system : {"unset", "good"},
     section : {"unset", "good"}, ci : {"unset", "good"}, toml : {"unset", "good"}]
    \cup [role : {"mr"}, kind : {"number"}, flag : {"unset", "zero", "good"}, system : Raw, section : Raw,
          ci : Raw, toml : {"unset"}]

OfSettings ==
    {[Usual EXCEPT !.scalar = s] : s \in Scalars}
    \cup {[Usual EXCEPT !.program = "warrior", !.scalar = s] : s \in ScalarsOfTheWarrior}

Dirs == [cli : {"unset", "dir", "missing"}, env : {"unset", "dir", "missing"}, disabled : BOOLEAN,
         before : BOOLEAN, branch : BOOLEAN, stray : {"none", "base", "elsewhere"}]
OfDirs == {[u EXCEPT !.dirs = d, !.toml = t, !.keep = k] : u \in Programs, d \in Dirs, t \in BOOLEAN, k \in BOOLEAN}

Read == {"unset", "unreadable", "blank", "good"}
Files ==
    [kind : {"text"}, dir : Read, inline : {"unset", "blank", "good"}, path : Read, env : Read,
     envInline : {"unset"}]
    \cup [kind : {"messages", "agents"}, dir : {"unset", "unreadable", "bad", "good"}, inline : {"unset", "good"},
          path : {"unset", "unreadable", "bad", "good"}, env : {"unset", "unreadable", "good"},
          envInline : {"unset"}]
    \cup [kind : {"provider"}, dir : {"unset", "unreadable", "empty", "bad", "good"}, inline : {"unset"},
          path : {"unset", "empty", "bad", "good"}, env : {"unset", "empty", "good"},
          envInline : {"unset", "bad", "good"}]
FilesOfTheWarrior ==
    [kind : {"own"}, dir : Read \cup {"empty"}, inline : {"unset"}, path : {"unset"},
     env : Read \cup {"empty"}, envInline : {"unset"}]
SomeDirs == {Auto, [Auto EXCEPT !.branch = FALSE]}
OfFiles ==
    {[Usual EXCEPT !.file = f, !.dirs = d] : f \in Files, d \in SomeDirs}
    \cup {[Usual EXCEPT !.program = "warrior", !.file = f, !.dirs = d] : f \in FilesOfTheWarrior, d \in SomeDirs}

SomeModels == {NoModel, OnlyBlanks, Model("bad"), Model("m1"), InBlanks("m1"), Model("m2")}
OfModels ==
    {[Usual EXCEPT !.models = m] :
        m \in [model : SomeModels, fallbacks : UNION {[1..n -> SomeModels] : n \in 0..2},
               provider : {NoModel, Model("m1"), InBlanks("m1"), Model("m2")}]}
    \cup {[Usual EXCEPT !.models.fallbacks = f] : f \in [1..3 -> {Model("m1"), InBlanks("m2"), Model("m2"), Model("m3")}]}

Permissions(values) == [tool : TerminalTools \cup {"read"}, value : values]
UpTo(n, S) == UNION {[1..k -> S] : k \in 0..n}
Values(form) == IF form \in Lists THEN {"absent", "true", "false"} ELSE {"true", "false"}
Sized(form, n) ==
    {fm \in {FrontMatter(form, e) : e \in UpTo(n, Permissions(Values(form)))} : fm \in FrontMatters}
\* Every form with up to two permissions; up to one with every text that may mislead.
Fronts ==
    UNION {Sized(form, 2) : form \in Forms \ {"broken"}}
    \cup {[fm EXCEPT !.text = t] : fm \in UNION {Sized(form, 1) : form \in Forms \ {"broken"}},
                                   t \in SUBSET ({"tools", "list"} \cup TerminalTools)}
OfAgents ==
    {[Usual EXCEPT !.agents = <<[name |-> "helper", front |-> f]>>] : f \in Fronts}
    \cup {[u EXCEPT !.agents = <<[name |-> n, front |-> FrontMatter("none", <<>>)],
                                 [name |-> m, front |-> FrontMatter("map", <<Permission("submit_review", "false")>>)]>>,
                    !.overrides = o, !.keep = k] :
            u \in Programs, n \in {"own", "helper", "other"}, m \in {"own", "helper"},
            o \in SUBSET {"own", "extra"}, k \in BOOLEAN}

Changes == {"modified", "added", "deleted", "renamed"}
Second == {<<>>, <<Diff("doc", "modified", <<"@@", "+">>)>>, <<Diff("noise", "deleted", <<"@@", "-">>)>>}
OfDiffs ==
    {[Usual EXCEPT !.files = <<[Diff(c, ch, l) EXCEPT !.quoted = q, !.spaced = sp]>> \o second] :
        c \in {"data", "noise"}, q \in BOOLEAN, sp \in BOOLEAN, ch \in Changes,
        l \in {<<>>} \cup {<<"@@", h>> : h \in Hunk}, second \in Second}
    \cup {[Usual EXCEPT !.files = <<Diff("code", ch, <<"@@", h1, h2>>)>> \o second] :
            ch \in Changes, h1 \in Hunk, h2 \in Hunk, second \in Second}
    \cup {[Usual EXCEPT !.files = <<Diff(c1, "modified", <<"@@", "+">>), Diff(c2, "added", <<"@@", "+">>),
                                    Diff(c3, "renamed", <<>>)>>] :
            c1, c2, c3 \in {Classes[i] : i \in DOMAIN Classes}}

AllInputs == OfSettings \cup OfDirs \cup OfFiles \cup OfModels \cup OfAgents \cup OfDiffs
============================================================================
