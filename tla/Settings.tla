------------------------------ MODULE Settings ------------------------------
(***************************************************************************)
(* Where the value of a setting comes from: flags, the environment, the     *)
(* [env] section and the fields of the TOML file (cmd/*/main.go,            *)
(* internal/shared/config), and the prompts, messages, sub-agents and the   *)
(* provider, which also come from the files of a config directory           *)
(* (configdir, pathdefaults.go, envconfig and the *config packages).        *)
(*                                                                          *)
(* Operators only.  A value is where it comes from and what it is like;     *)
(* its text is left out.                                                    *)
(***************************************************************************)
EXTENDS Naturals, Sequences, SequencesExt

\* What a source holds for a scalar: nothing, a text that is no number, 0, a value.
Raw == {"unset", "junk", "zero", "good"}

\* Strings without and with a default, numbers without and with one, booleans.
Kinds == {"string", "name", "number", "timeout", "switch"}

\* `branch` and `mr` are the settings with a flag; GitLab's variables (`ci`) are read
\* by the comment warrior only.
Roles == {"plain", "branch", "warriorBranch", "mr"}

IsScalar(s) ==
    /\ s \in [role : Roles, kind : Kinds, flag : Raw, system : Raw, section : Raw, ci : Raw, toml : Raw]
    /\ s.role = "plain" => s.flag = "unset" /\ s.ci = "unset"
    /\ s.role \in {"branch", "warriorBranch"} => s.kind = "string"
    /\ s.role = "mr" => s.kind = "number"

Given(from, is) == [from |-> from, is |-> is]
Nothing == Given("none", "unset")

\* The type of a TOML field is checked by the decoder.
Decodes(s) == s.kind \in {"number", "timeout", "switch"} => s.toml /= "junk"

\* config.Load: a missing field is the zero value, which applyDefaults replaces.
Loaded(s) ==
    IF s.toml = "unset" \/ (s.kind = "timeout" /\ s.toml = "zero")
      THEN IF s.kind \in {"name", "timeout"} THEN Given("default", "good") ELSE Nothing
      ELSE Given("toml", s.toml)

\* Bug: a variable of the system is overwritten by the [env] section.
SectionFirst(s) ==
    IF s.section /= "unset" THEN Given("section", s.section) ELSE Given("system", s.system)

\* applyEnv: the [env] section sets the variables the system leaves empty.
Environment(s) ==
    IF s.system /= "unset" THEN Given("system", s.system) ELSE Given("section", s.section)

Parses(kind, is) == is /= "unset" /\ (kind \in {"number", "timeout"} => is /= "junk")

\* ApplyEnvOverrides: a number that does not parse is passed over.
Overridden(s) == IF Parses(s.kind, Environment(s).is) THEN Environment(s) ELSE Loaded(s)

\* The reviewer's --branch, which is set last.
ReviewerBranch(s) == IF s.flag /= "unset" THEN Given("flag", s.flag) ELSE Overridden(s)

\* applyBranchPriority
WarriorBranch(s) ==
    IF s.flag /= "unset" THEN Given("flag", s.flag)
    ELSE IF Environment(s).is /= "unset" THEN Environment(s)
    ELSE IF s.ci /= "unset" THEN Given("ci", s.ci) ELSE Overridden(s)

\* resolveMRIID: variables that do not parse are passed over.
MRIID(s) ==
    IF s.flag \notin {"unset", "zero"} THEN Given("flag", s.flag)
    ELSE IF Parses("number", Environment(s).is) THEN Environment(s)
    ELSE IF Parses("number", s.ci) THEN Given("ci", s.ci) ELSE Nothing

Setting(s) ==
    CASE s.role = "branch"        -> ReviewerBranch(s)
      [] s.role = "warriorBranch" -> WarriorBranch(s)
      [] s.role = "mr"            -> MRIID(s)
      [] OTHER                    -> Overridden(s)

\* main refuses to start without a branch and, the comment warrior, a merge request.
Missing(s, v) ==
    \/ s.role \in {"branch", "warriorBranch"} /\ v.is = "unset"
    \/ s.role = "mr" /\ v.is \in {"unset", "zero"}

----------------------------------------------------------------------------
(* The config directory *)

\* configdir.Resolve: an explicit directory has to exist, the one of the checkout
\* is used when it is there.
ConfigDir(d, there) ==
    IF d.cli /= "unset" THEN (IF d.cli = "dir" THEN "cli" ELSE "error")
    ELSE IF d.env /= "unset" THEN (IF d.env = "dir" THEN "env" ELSE "error")
    ELSE IF there /\ ~d.disabled THEN "auto" ELSE "none"

Active(dir) == dir \in {"cli", "env", "auto"}

----------------------------------------------------------------------------
(* Settings that are files.  `text` is a prompt or a message with a default,   *)
(* `messages` the reviewer's messages, `agents` sub-agents, `provider` the     *)
(* provider's JSON; `own` is a prompt of the comment warrior.                  *)

FileKinds == {"text", "messages", "agents", "provider", "own"}

\* What a source holds: nothing, a file that cannot be read, an empty text, blanks,
\* a text that its validation refuses, a text.
Contents == {"unset", "unreadable", "empty", "blank", "bad", "good"}

\* `dir`: the file or files of the config directory; `inline` and `path`: the TOML
\* file; `env` and `envInline`: the deprecated variables.
IsFile(s) ==
    /\ s \in [kind : FileKinds, dir : Contents, inline : Contents, path : Contents,
              env : Contents, envInline : Contents]
    /\ s.kind = "own" => s.inline = "unset" /\ s.path = "unset" /\ s.envInline = "unset"

\* Bug: the inline text of the TOML file stays.
WithDirKeepingInline(s, dir) ==
    [inline |-> Given("inline", s.inline),
     path   |-> IF Active(dir) /\ s.dir /= "unset" THEN Given("dir", s.dir)
                                                   ELSE Given("path", s.path)]

\* ApplyConfigDirDefaults: a file of the directory replaces the path, and the inline
\* text, which would be preferred to it, is cleared.
WithDir(s, dir) ==
    IF Active(dir) /\ s.dir /= "unset"
      THEN [inline |-> Nothing, path |-> Given("dir", s.dir)]
      ELSE [inline |-> Given("inline", s.inline), path |-> Given("path", s.path)]

\* The first source of the sequence vs that is set; an inline text that is empty is not.
FirstSet(vs) ==
    LET set == {i \in DOMAIN vs : /\ vs[i].is /= "unset"
                                  /\ vs[i].from \in {"inline", "envInline"} => vs[i].is /= "empty"}
    IN  IF set = {} THEN Nothing ELSE vs[Min(set)]

\* ResolveWithOptions, ReadEnvOrFileWithOptions and the LoadWithOptions of lists, all
\* called with the deprecated variables as a fallback when no directory is active.
Resolve(s, dir) ==
    LET c   == WithDir(s, dir)
        env == IF Active(dir) THEN <<>>
               ELSE <<Given("env", s.env), Given("envInline", s.envInline)>>
    IN  FirstSet(<<c.inline, c.path>> \o env)

\* loadText of the comment warrior: the file of the directory, else the variable.
ResolveOwn(s, dir) ==
    FirstSet(IF Active(dir) THEN <<Given("dir", s.dir)>> ELSE <<Given("env", s.env)>>)

\* Reading or validating the value v fails the loader.
Refused(kind, v) ==
    \/ v.is = "unreadable"
    \/ kind = "provider" /\ v.is \in {"blank", "bad"}
    \/ kind = "agents" /\ v.is \in {"empty", "blank", "bad"}

\* What the loader uses: a default for a text that is blank, except of the comment
\* warrior, whose blank files are used as they are.
Used(kind, v) ==
    CASE kind = "text" /\ v.is \in {"unset", "empty", "blank"} -> Given("default", "good")
      [] kind = "own" /\ v.is = "unset" -> Given("default", "good")
      [] kind = "provider" /\ v.is = "empty" -> Nothing
      [] OTHER -> v

Effective(s, dir) ==
    LET v == IF s.kind = "own" THEN ResolveOwn(s, dir) ELSE Resolve(s, dir)
    IN  IF Refused(s.kind, v) THEN Given(v.from, "refused") ELSE Used(s.kind, v)

----------------------------------------------------------------------------
(* The model chain (opencode.go).  A model is a name and whether blanks are     *)
(* around it: "m1", "m2", ... are in the form provider/model, "bad" is without *)
(* the slash, "nothing" is the empty string or, with blanks, a string of them. *)

ModelNames == [name : STRING, blanks : BOOLEAN]

NoModel == [name |-> "nothing", blanks |-> FALSE]
OnlyBlanks == [name |-> "nothing", blanks |-> TRUE]

Trimmed(m) == [name |-> m.name, blanks |-> FALSE]

\* The chain of an error: no model has that name.
RefusedChain == <<[name |-> "error", blanks |-> FALSE]>>

\* Bug: the primary model may come back as its own fallback.
DistinctFallbacks(primary, fallbacks) ==
    LET chain[n \in 0..Len(fallbacks)] ==
            IF n = 0 THEN <<primary>>
            ELSE IF \/ fallbacks[n] = NoModel
                    \/ fallbacks[n] \in {chain[n - 1][i] : i \in 2..Len(chain[n - 1])}
              THEN chain[n - 1]
            ELSE Append(chain[n - 1], fallbacks[n])
    IN  chain[Len(fallbacks)]

\* Each of the trimmed models once, in the order given, without the blank ones.
WithoutRepeats(primary, fallbacks) ==
    LET chain[n \in 0..Len(fallbacks)] ==
            IF n = 0 THEN <<primary>>
            ELSE IF fallbacks[n] = NoModel \/ fallbacks[n] \in ToSet(chain[n - 1])
              THEN chain[n - 1]
            ELSE Append(chain[n - 1], fallbacks[n])
    IN  chain[Len(fallbacks)]

\* ModelChain: no fallbacks, no chain.  All names in it are trimmed.
ModelChain(model, fallbacks, providerModel) ==
    LET given   == [i \in DOMAIN fallbacks |-> Trimmed(fallbacks[i])]
        models  == {i \in DOMAIN given : given[i] /= NoModel}
        primary == IF Trimmed(model) /= NoModel THEN Trimmed(model) ELSE Trimmed(providerModel)
    IN  IF models = {} THEN <<>>
        ELSE IF primary.name \in {"nothing", "bad"} \/ \E i \in models : given[i].name = "bad"
          THEN RefusedChain
        ELSE WithoutRepeats(primary, given)
============================================================================
