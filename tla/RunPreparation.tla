--------------------------- MODULE RunPreparation ---------------------------
(***************************************************************************)
(* What a command does before its first session: the settings are read      *)
(* (cmd/*/main.go), the branch is checked out, the diff is prepared, the     *)
(* config directory and the files of the agents are resolved in the checkout *)
(* (review/runtime, commentwarrior/runtime), the binary is asked for its     *)
(* version, and the temporary workspaces are written file by file            *)
(* (shared/workspace); at the end they are removed.                          *)
(*                                                                          *)
(* `input` is what the command finds: one of Inputs.                         *)
(***************************************************************************)
EXTENDS Settings, SubAgentFiles, ReviewDiff, FiniteSets

CONSTANT Inputs

\* One scalar, where config directories are, one setting that is a file, the models, the
\* sub-agents and the tools of the config directory, the diff.
ASSUME InputsAssumption ==
    \A i \in Inputs :
        /\ i.program \in {"reviewer", "warrior"} /\ i.toml \in BOOLEAN /\ i.keep \in BOOLEAN
        /\ IsScalar(i.scalar) /\ IsFile(i.file)
        /\ i.dirs \in [cli : {"unset", "dir", "missing"}, env : {"unset", "dir", "missing"},
                        disabled : BOOLEAN, before : BOOLEAN, branch : BOOLEAN,
                        stray : {"none", "base", "elsewhere"}]
        /\ i.models \in [model : ModelNames, fallbacks : Seq(ModelNames), provider : ModelNames]
        /\ i.agents \in Seq([name : STRING, front : FrontMatters]) /\ IsFiniteSet(i.overrides)
        /\ i.files \in Seq(DiffFile)

VARIABLES
    pc, input,
    branch,      \* the branch under review is checked out
    setting,     \* the value of the scalar input.scalar
    dir,         \* where the config directory comes from
    file,        \* the content used for the setting input.file
    chain,       \* the model chain
    context,     \* what diff.md holds
    stage,       \* the workspace that is being made or cleaned up
    todo,        \* the files still to be written into it
    made,        \* the workspaces on disk
    complete,    \* the workspaces NewAgent has returned
    disk,        \* their files
    stuck,       \* workspaces whose removal failed
    result       \* what the command reports

settingVars == <<setting, dir, file, chain>>
diskVars == <<stage, todo, made, complete, disk, stuck>>
vars == <<pc, input, branch, settingVars, context, diskVars, result>>

\* The workspaces of a program, in the order they are made.
Stages == IF input.program = "reviewer" THEN <<"reviewer", "finalizer">> ELSE <<"comment-warrior">>
AllStages == {"reviewer", "finalizer", "comment-warrior"}

NoContext == [files |-> <<>>, filtered |-> <<>>, added |-> 0, deleted |-> 0]

Init ==
    /\ pc = "load" /\ input \in Inputs
    /\ branch = FALSE
    /\ setting = Nothing /\ dir = "none" /\ file = Nothing /\ chain = <<>>
    /\ context = NoContext
    /\ stage = 1 /\ todo = <<>> /\ made = {} /\ complete = {} /\ stuck = {}
    /\ disk = [s \in AllStages |-> <<>>]
    /\ result = "none"

Go(next) == pc' = next /\ UNCHANGED <<input, result>>
Fail(next) == pc' = next /\ result' = "err" /\ UNCHANGED input

----------------------------------------------------------------------------
(* main *)

\* config.Load, before the checkout
LoadConfig ==
    /\ pc = "load"
    /\ IF input.toml /\ Decodes(input.scalar) THEN Go("environment") ELSE Fail("end")
    /\ UNCHANGED <<branch, settingVars, context, diskVars>>

\* applyEnv, ApplyEnvOverrides, the flags and the required settings
ApplyEnvironment ==
    /\ pc = "environment"
    /\ setting' = Setting(input.scalar)
    /\ IF Missing(input.scalar, setting') THEN Fail("end") ELSE Go("checkout")
    /\ UNCHANGED <<branch, dir, file, chain, context, diskVars>>

\* git.PrepareRepository; the reviewer prepares the diff next, the comment warrior
\* when its server has started.
Checkout ==
    /\ pc = "checkout"
    /\ \/ branch' = TRUE /\ Go(IF input.program = "reviewer" THEN "diff" ELSE "resolve")
       \/ UNCHANGED branch /\ Fail("end")
    /\ UNCHANGED <<settingVars, context, diskVars>>

PrepareDiff ==
    /\ pc = "diff"
    /\ \/ /\ context' = ContextFile(input.files)
          /\ Go(IF input.program = "reviewer" THEN "resolve" ELSE "sessions")
       \/ UNCHANGED context /\ Fail(IF input.program = "reviewer" THEN "end" ELSE "cleanup")
    /\ UNCHANGED <<branch, settingVars, diskVars>>

----------------------------------------------------------------------------
(* LoadRuntime *)

Resolved(there) ==
    /\ pc = "resolve"
    /\ dir' = ConfigDir(input.dirs, there)
    /\ IF dir' = "error" THEN Fail("end") ELSE Go("files")
    /\ UNCHANGED <<branch, setting, file, chain, context, diskVars>>

\* Bug: the directory is looked for at the start, as the TOML file is.
ResolveConfigDirEarly == Resolved(input.dirs.before)

\* configdir.Resolve looks for .opencodereview in the checkout as it is now.
ResolveConfigDir == Resolved(IF branch THEN input.dirs.branch ELSE input.dirs.before)

\* The comment warrior looks for sub-agents in comment-warrior/sub-agents of the working
\* directory when there is no config directory, and reads what it found relative to the
\* directory of the TOML file.
Stray == input.program = "warrior" /\ ~Active(dir) /\ input.dirs.stray /= "none"

SubAgents ==
    IF input.program = "warrior" /\ ~Active(dir) /\ ~Stray THEN <<>> ELSE input.agents

\* The files of the agents, ApplyConfigDirDefaults and the model chain.
LoadFiles ==
    /\ pc = "files"
    /\ file' = Effective(input.file, dir)
    /\ chain' = ModelChain(input.models.model, input.models.fallbacks, input.models.provider)
    /\ IF file'.is = "refused" \/ chain' = RefusedChain \/ (Stray /\ input.dirs.stray = "elsewhere")
         THEN Fail("end") ELSE Go("validate")
    /\ UNCHANGED <<branch, setting, dir, context, diskVars>>

\* runner.ValidateBinary
ValidateBinary ==
    /\ pc = "validate"
    /\ Go("create") \/ Fail("end")
    /\ UNCHANGED <<branch, settingVars, context, diskVars>>

----------------------------------------------------------------------------
(* workspace.NewAgent *)

\* The comment warrior uses an empty agent.md as it is.
PromptIsEmpty == input.file.kind = "own" /\ file.is = "empty"

\* buildOpenCodeConfig: the model is written as it is given, with its blanks, and one of
\* blanks alone counts as a model.
OpenCodeConfig ==
    [defaultAgent |-> ~PromptIsEmpty,
     model |-> IF input.models.model /= NoModel THEN input.models.model ELSE input.models.provider]

File(folder, name, is) == [path |-> <<folder, name>>, is |-> is]

ConfigFile == <<File(".", "opencode.json", OpenCodeConfig)>>
BuiltInTool == <<File("tools", "own", "built-in")>>
ToolOverrides ==
    [i \in 1..Cardinality(IF Active(dir) THEN input.overrides ELSE {}) |->
        File("tools", SetToSeq(input.overrides)[i], "override")]
AgentFile == <<File("agents", "own", "prompt")>>
SubAgentFile(agent) == File("agents", agent.name, EnsureToolRestrictions(agent.front))
SubAgentPart == [i \in DOMAIN SubAgents |-> SubAgentFile(SubAgents[i])]

\* Bug: the built-in tool is written over the owner's.
WritesBuiltInLast ==
    ConfigFile \o (IF PromptIsEmpty THEN <<>> ELSE ToolOverrides \o BuiltInTool \o AgentFile)
               \o SubAgentPart

\* newWorkspace, in its order; a file of the same name is overwritten.
Writes ==
    ConfigFile \o (IF PromptIsEmpty THEN <<>> ELSE BuiltInTool \o ToolOverrides \o AgentFile)
               \o SubAgentPart

Making == Stages[stage]

\* os.RemoveAll of a workspace, whose error is ignored.
RemoveAll(s) ==
    \/ made' = made \ {s} /\ UNCHANGED stuck
    \/ stuck' = stuck \cup {s} /\ UNCHANGED made

MakeWorkspace ==
    /\ pc = "create"
    /\ \/ /\ made' = made \cup {Making} /\ todo' = Writes /\ Go("write")
       \/ UNCHANGED <<made, todo>> /\ Fail("undo")
    /\ UNCHANGED <<branch, settingVars, context, stage, complete, disk, stuck>>

\* os.WriteFile
Written(files, f) ==
    [path \in DOMAIN files \cup {f.path} |-> IF path = f.path THEN f.is ELSE files[path]]

WriteFile ==
    /\ pc = "write" /\ todo /= <<>>
    /\ disk' = [disk EXCEPT ![Making] = Written(@, Head(todo))]
    /\ todo' = Tail(todo)
    /\ Go("write")
    /\ UNCHANGED <<branch, settingVars, context, stage, made, complete, stuck>>

\* A workspace that cannot be written is removed, whatever OR_OPENCODE_KEEP_XDG_DIRS says.
WriteFails ==
    /\ pc = "write" /\ todo /= <<>>
    /\ RemoveAll(Making) /\ todo' = <<>>
    /\ Fail("undo")
    /\ UNCHANGED <<branch, settingVars, context, stage, complete, disk>>

WorkspaceMade ==
    /\ pc = "write" /\ todo = <<>>
    /\ complete' = complete \cup {Making}
    /\ IF stage < Len(Stages) THEN stage' = stage + 1 /\ Go("create")
       ELSE stage' = 1 /\ Go("ready")
    /\ UNCHANGED <<branch, settingVars, context, todo, made, disk, stuck>>

\* Workspace.Cleanup
Cleaned(s) == IF input.keep THEN UNCHANGED <<made, stuck>> ELSE RemoveAll(s)

\* Bug: the reviewer's workspace is forgotten.
UndoNothing ==
    /\ pc = "undo"
    /\ pc' = "end" /\ UNCHANGED <<input, result>>
    /\ UNCHANGED <<branch, settingVars, context, diskVars>>

\* The second workspace could not be made: the first is cleaned up.
Undo ==
    /\ pc = "undo"
    /\ Go("end")
    /\ IF stage = 1 THEN UNCHANGED <<made, stuck>> ELSE Cleaned(Stages[1])
    /\ UNCHANGED <<branch, settingVars, context, stage, todo, complete, disk>>

----------------------------------------------------------------------------

\* The comment warrior may fail to start its server before it prepares the diff.
Ready ==
    /\ pc = "ready"
    /\ \/ Go(IF input.program = "reviewer" THEN "sessions" ELSE "diff")
       \/ Fail("cleanup")
    /\ UNCHANGED <<branch, settingVars, context, diskVars>>

SessionsEnd ==
    /\ pc = "sessions"
    /\ \/ pc' = "cleanup" /\ result' = "ok" /\ UNCHANGED input
       \/ Fail("cleanup")
    /\ UNCHANGED <<branch, settingVars, context, diskVars>>

\* Cleanup of the runtime: one workspace after the other, whatever the first one's error.
Cleanup ==
    /\ pc = "cleanup"
    /\ Cleaned(Making)
    /\ IF stage < Len(Stages) THEN stage' = stage + 1 /\ Go("cleanup")
       ELSE UNCHANGED stage /\ Go("end")
    /\ UNCHANGED <<branch, settingVars, context, todo, complete, disk>>

Done == pc = "end" /\ UNCHANGED vars

StartStep == LoadConfig \/ ApplyEnvironment \/ Checkout \/ PrepareDiff
LoadStep == ResolveConfigDir \/ LoadFiles \/ ValidateBinary
WorkspaceStep == MakeWorkspace \/ WriteFile \/ WriteFails \/ WorkspaceMade \/ Undo
SessionStep == Ready \/ SessionsEnd \/ Cleanup
Next == StartStep \/ LoadStep \/ WorkspaceStep \/ SessionStep \/ Done

Spec == Init /\ [][Next]_vars

----------------------------------------------------------------------------

Pcs == {"load", "environment", "checkout", "diff", "resolve", "files", "validate", "create",
        "write", "undo", "ready", "sessions", "cleanup", "end"}

\* The ranges of the variables; only workspaces of the program have files.
TypeOK ==
    /\ pc \in Pcs /\ branch \in BOOLEAN /\ input \in Inputs
    /\ dir \in {"none", "cli", "env", "auto", "error"}
    /\ stage \in 1..Len(Stages) /\ result \in {"none", "ok", "err"}
    /\ made \subseteq AllStages /\ complete \subseteq AllStages /\ stuck \subseteq AllStages
    /\ DOMAIN disk = AllStages
    /\ \A s \in AllStages : disk[s] /= <<>> => s \in {Stages[i] : i \in DOMAIN Stages}

\* What a source holds for the scalar, by the documentation: "system env > [env] section
\* > TOML fields", a flag before them, GitLab's variable after the environment.
ScalarRank == <<"flag", "system", "section", "ci", "toml", "default">>

Offers(s, source) ==
    \/ source = "flag" /\ s.role /= "plain" /\ s.flag /= "unset" /\ (s.role = "mr" => s.flag /= "zero")
    \/ source = "system" /\ Parses(s.kind, s.system)
    \/ source = "section" /\ s.system = "unset" /\ Parses(s.kind, s.section)
    \/ source = "ci" /\ s.role \in {"warriorBranch", "mr"} /\ Parses(s.kind, s.ci)
    \/ source = "toml" /\ s.role /= "mr" /\ s.toml /= "unset" /\ (s.kind = "timeout" => s.toml /= "zero")
    \/ source = "default" /\ s.kind \in {"name", "timeout"} /\ s.role = "plain"

\* The first of the sources in `rank` that is one of S.
FirstOfRank(rank, S) ==
    LET those == {i \in DOMAIN rank : rank[i] \in S}
    IN  IF those = {} THEN "none" ELSE rank[Min(those)]

\* The settings follow the documented priority: "system env > [env] section > TOML
\* fields" (config.go:81) and the "Priority" lines of the two commands' help.
SettingAsDocumented ==
    pc \notin {"load", "environment"} /\ input.toml /\ Decodes(input.scalar) =>
        setting.from = FirstOfRank(ScalarRank, {source \in ToSet(ScalarRank) : Offers(input.scalar, source)})

FileRank == <<"dir", "inline", "path", "env", "envInline">>

Content(s, source) == IF source = "none" THEN "unset" ELSE s[source]

FileOffers(s, source) ==
    /\ Content(s, source) /= "unset"
    /\ source = "dir" => Active(dir)
    /\ source \in {"env", "envInline"} => ~Active(dir)
    /\ source \in {"inline", "envInline"} => Content(s, source) /= "empty"

AfterFiles == pc \in {"validate", "create", "write", "undo", "ready", "sessions", "cleanup"}

\* A prompt, a message, a list of either or the provider comes from the first source of
\* "config-dir files > TOML inline/path > deprecated OR_* env fallback (only when config-dir
\* is inactive) > built-in default" (cmd/reviewer/main.go:173); one that is there and
\* cannot be used stops the command and is not passed over.
FileAsDocumented ==
    AfterFiles =>
        LET first == FirstOfRank(FileRank, {source \in ToSet(FileRank) : FileOffers(input.file, source)})
            is    == Content(input.file, first)
        IN  /\ is \notin {"unreadable", "bad"} \/ (is = "bad" /\ input.file.kind \in {"text", "messages", "own"})
            /\ \/ file = Given(first, is)
               \/ is \in {"unset", "empty", "blank"} /\ file.from \in {"default", "none"}

\* .opencodereview is taken from the branch under review, not from what was checked out
\* when the command started: "resolved after the target branch is checked out".
ConfigDirOfTheBranch ==
    pc = "files" \/ AfterFiles =>
        (dir = "auto" <=> /\ input.dirs.cli = "unset" /\ input.dirs.env = "unset"
                          /\ ~input.dirs.disabled /\ input.dirs.branch)

\* Sessions try each model once and every fallback, and first the model of opencode.json as
\* its name is without the blanks around it: ModelChain trims the name it asks a session to
\* use (opencode.go:30-32), opencode.json has it as it was given (workspace.go:178-216).
\* Excluded: a configured model of blanks alone, which ModelChain passes over for the
\* provider's and opencode.json does not.
ModelChainSound ==
    pc = "sessions" /\ chain /= <<>> =>
        /\ \A i, j \in DOMAIN chain : chain[i] = chain[j] => i = j
        /\ \A i \in DOMAIN input.models.fallbacks :
              Trimmed(input.models.fallbacks[i]) /= NoModel =>
                  \E j \in DOMAIN chain : chain[j] = Trimmed(input.models.fallbacks[i])
        /\ \/ chain[1] = Trimmed(OpenCodeConfig.model)
           \/ input.models.model = OnlyBlanks

\* Sessions find complete workspaces: the agent that opencode.json names has its file and
\* its tool, the owner's tools win over the built-in one, every sub-agent is there, and the
\* agent's prompt is its own unless a sub-agent has taken its name.
WorkspacesReady ==
    pc \in {"ready", "sessions"} =>
        \A i \in DOMAIN Stages :
            LET files == disk[Stages[i]]
                Named(name) == \E a \in DOMAIN SubAgents : SubAgents[a].name = name
            IN  /\ Stages[i] \in made \cap complete
                /\ files[<<".", "opencode.json">>].defaultAgent =>
                      /\ <<"tools", "own">> \in DOMAIN files
                      /\ <<"agents", "own">> \in DOMAIN files
                      /\ ~Named("own") => files[<<"agents", "own">>] = "prompt"
                      /\ \A tool \in input.overrides :
                            Active(dir) => files[<<"tools", tool>>] = "override"
                /\ \A a \in DOMAIN SubAgents : <<"agents", SubAgents[a].name>> \in DOMAIN files

\* The author of a sub-agent has listed the tool as something else than denied.
AskedFor(front, tool) ==
    \E i \in DOMAIN front.entries : front.entries[i].tool = tool /\ front.entries[i].value /= "false"

\* Front matters that the search for text and the two columns of the rewriting are wrong
\* about: `tool: false` or `tools:` found outside the tools entry (subagentconfig.go:186, 122);
\* a list elsewhere, for which a map that denies the tool is written anew without that
\* (104, 125-135); a list or a map that is indented otherwise, or in braces, under which
\* lines are put that do not belong (137-138).
Misread(front, tool) ==
    \/ tool \in front.text \/ "tools" \in front.text
    \/ "list" \in front.text /\ front.form \in Maps /\ Names(front.entries, tool)
    \/ front.form \in {"flatList", "deepList"}
    \/ front.form \in {"deepMap", "flowMap"} /\ MissingTools(front) /= {}

\* "a safety-net to prevent sub-agents from calling terminal tools that end the review
\* session" (subagentconfig.go:96-97): a sub-agent is denied both tools unless its author
\* asked for one.  Excluded, because the code leaves or makes the sub-agent unrestricted, or
\* its front matter unreadable: the front matters that are Misread.
SubAgentsCannotSubmit ==
    pc = "sessions" =>
        \A i \in DOMAIN Stages : \A a \in DOMAIN SubAgents : \A tool \in TerminalTools :
            LET agent == SubAgents[a]
            IN  (\A b \in DOMAIN SubAgents : b > a => SubAgents[b].name /= agent.name)
                    => \/ Denies(disk[Stages[i]][<<"agents", agent.name>>], tool)
                       \/ AskedFor(agent.front, tool)
                       \/ Misread(agent.front, tool)

\* When the command has ended, no workspace is left on disk but one whose removal failed,
\* and complete ones when OR_OPENCODE_KEEP_XDG_DIRS asks for it.
NothingLeft ==
    pc = "end" => made \subseteq stuck \cup (IF input.keep THEN complete ELSE {})

Plain(f) == \A l \in DOMAIN f.lines : f.lines[l] \notin {"mark", "markPaths"}

\* The lines of a file, without those that begin like a header, blank included.
Visible(f) == Only(f.lines, {l \in DOMAIN f.lines : f.lines[l] \notin {"++", "--"}})

Lines(f, kind) == Cardinality({l \in DOMAIN f.lines : f.lines[l] = kind})

\* Sessions find a diff.md that shows each file git reports once, in the order of the
\* categories, or lists it as noise, with its lines and the number of those added and deleted.
\* Where the code does less: lines whose text begins with "++ " or "-- " are taken for headers
\* and dropped (parse.go:99-100); these and the lines whose text begins with "++" or "--" are
\* not counted, though the latter are shown (75, 77); files with a quoted path are dropped
\* unless renamed (126-128); a path with " b/" in it is shown as a piece of the header (126).
\* Excluded: a diff with "diff --git " in a line of code, which is cut there (30-40).
ContextShowsTheDiff ==
    pc = "sessions" /\ (\A i \in DOMAIN input.files : Plain(input.files[i])) =>
            LET shown == context.files
                kept(i) == input.files[i].quoted => input.files[i].change = "renamed" \/ input.files[i].spaced
                noise(i) == input.files[i].class = "noise" /\ ~input.files[i].quoted
                rank(i) == CHOOSE c \in 1..5 :
                    Classes[c] = (IF input.files[i].quoted THEN "code" ELSE input.files[i].class)
                sum(kind) == SumOf([n \in DOMAIN shown |-> Lines(input.files[shown[n].path], kind)])
            IN  /\ \A i \in DOMAIN input.files :
                      /\ Cardinality({n \in DOMAIN shown : shown[n].path = i})
                            = IF kept(i) /\ ~noise(i) THEN 1 ELSE 0
                      /\ Cardinality({n \in DOMAIN context.filtered : context.filtered[n] = i})
                            = IF kept(i) /\ noise(i) THEN 1 ELSE 0
                /\ \A n \in DOMAIN shown :
                      LET f == input.files[shown[n].path]
                      IN  /\ shown[n].change = f.change
                          /\ shown[n].misread = (f.spaced /\ f.change /= "renamed")
                          /\ [l \in DOMAIN shown[n].lines |-> shown[n].lines[l].is] = Visible(f)
                          /\ \A l \in DOMAIN shown[n].lines : shown[n].lines[l].file = shown[n].path
                          /\ shown[n].added = Lines(f, "+") /\ shown[n].deleted = Lines(f, "-")
                /\ \A n, m \in DOMAIN shown : n < m =>
                      LET p == shown[n].path  q == shown[m].path
                      IN  rank(p) < rank(q) \/ (rank(p) = rank(q) /\ p < q)
                /\ context.added = sum("+") /\ context.deleted = sum("-")
============================================================================
