------------------------ MODULE RunPreparation_proofs ------------------------
(***************************************************************************)
(* Proofs about RunPreparation, for every input: the types, the settings,    *)
(* files and models that are used, the config directory they come from, the *)
(* content of the workspaces when the sessions start, and what is left of    *)
(* them when the command ends.                                              *)
(***************************************************************************)
EXTENDS RunPreparationLemmas

USE DEF Go, Fail

----------------------------------------------------------------------------
(* The type invariant *)

\* A program has one workspace or two, of its own names.
LEMMA StagesAre ==
    ASSUME NEW s, s = Stages
    PROVE  /\ Len(s) \in {1, 2} /\ DOMAIN s = 1..Len(s)
           /\ \A i \in DOMAIN s : s[i] \in AllStages
<1>1. CASE s = <<"comment-warrior">>
  BY <1>1 DEF AllStages
<1>2. CASE s = <<"reviewer", "finalizer">>
  BY <1>2 DEF AllStages
<1> QED BY <1>1, <1>2 DEF Stages

LEMMA StagesKept == UNCHANGED input => Stages' = Stages
BY DEF Stages

LEMMA TypeInit == Init => TypeOK
<1> SUFFICES ASSUME Init PROVE TypeOK
  OBVIOUS
<1>1. stage \in 1..Len(Stages)
  BY DEF Init, Stages
<1>2. \A s \in AllStages : disk[s] = <<>>
  BY DEF Init
<1> QED BY <1>1, <1>2 DEF Init, TypeOK, Pcs, AllStages

LEMMA ConfigDirIs == 
    ASSUME NEW d, NEW there
    PROVE  ConfigDir(d, there) \in {"none", "cli", "env", "auto", "error"}
BY DEF ConfigDir

\* What a step of a program with the same input has to show.
LEMMA TypeNext == TypeOK /\ [Next]_vars => TypeOK'
<1> SUFFICES ASSUME TypeOK, [Next]_vars PROVE TypeOK'
  OBVIOUS
<1> USE StagesKept DEF TypeOK, Pcs, settingVars, diskVars
<1>1. CASE LoadConfig
  BY <1>1 DEF LoadConfig
<1>2. CASE ApplyEnvironment
  BY <1>2 DEF ApplyEnvironment
<1>3. CASE Checkout
  BY <1>3 DEF Checkout
<1>4. CASE PrepareDiff
  BY <1>4 DEF PrepareDiff
<1>5. CASE ResolveConfigDir
  <2>1. dir' \in {"none", "cli", "env", "auto", "error"}
    BY <1>5, ConfigDirIs DEF ResolveConfigDir, Resolved
  <2> QED BY <1>5, <2>1 DEF ResolveConfigDir, Resolved
<1>6. CASE LoadFiles
  BY <1>6 DEF LoadFiles
<1>7. CASE ValidateBinary
  BY <1>7 DEF ValidateBinary
<1>8. CASE MakeWorkspace
  <2>1. Making \in AllStages
    BY StagesAre DEF Making
  <2> QED BY <1>8, <2>1 DEF MakeWorkspace
<1>9. CASE WriteFile
  <2>1. Making \in {Stages[i] : i \in DOMAIN Stages}
    BY StagesAre DEF Making
  <2>2. /\ pc' = "write" /\ UNCHANGED <<input, branch, dir, stage, made, complete, stuck, result>>
        /\ DOMAIN disk' = DOMAIN disk /\ \A s \in AllStages \ {Making} : disk'[s] = disk[s]
    BY <1>9 DEF WriteFile
  <2> QED BY <2>1, <2>2
<1>10. CASE WriteFails
  <2>1. Making \in AllStages
    BY StagesAre DEF Making
  <2> QED BY <1>10, <2>1 DEF WriteFails, RemoveAll
<1>11. CASE WorkspaceMade
  <2>1. Making \in AllStages
    BY StagesAre DEF Making
  <2>2. stage' \in 1..Len(Stages)
    BY <1>11, StagesAre DEF WorkspaceMade
  <2> QED BY <1>11, <2>1, <2>2 DEF WorkspaceMade
<1>12. CASE Undo
  <2>1. Stages[1] \in AllStages
    BY StagesAre
  <2> QED BY <1>12, <2>1 DEF Undo, Cleaned, RemoveAll
<1>13. CASE Ready
  BY <1>13 DEF Ready
<1>14. CASE SessionsEnd
  BY <1>14 DEF SessionsEnd
<1>15. CASE Cleanup
  <2>1. Making \in AllStages
    BY StagesAre DEF Making
  <2>2. stage' \in 1..Len(Stages)
    BY <1>15, StagesAre DEF Cleanup
  <2> QED BY <1>15, <2>1, <2>2 DEF Cleanup, Cleaned, RemoveAll
<1>16. CASE UNCHANGED vars
  BY <1>16 DEF vars
<1> QED BY <1>1, <1>2, <1>3, <1>4, <1>5, <1>6, <1>7, <1>8, <1>9, <1>10, <1>11, <1>12, <1>13,
           <1>14, <1>15, <1>16
        DEF Next, StartStep, LoadStep, WorkspaceStep, SessionStep, Done

\* The variables keep to their ranges.
THEOREM TypeCorrect == Spec => []TypeOK
BY TypeInit, TypeNext, PTL DEF Spec

----------------------------------------------------------------------------
(* The config directory *)

\* From the resolution on the branch is checked out and the directory is the one
\* that was resolved in it.
DirResolved ==
    \/ pc \in {"files", "validate", "create", "write", "undo", "ready", "sessions", "cleanup"}
    \/ pc = "diff" /\ input.program /= "reviewer"

DirInv ==
    /\ pc \in {"diff", "resolve"} \/ DirResolved => branch
    /\ DirResolved => dir = ConfigDir(input.dirs, input.dirs.branch)

LEMMA AutoIs ==
    ASSUME NEW i \in Inputs
    PROVE  ConfigDir(i.dirs, i.dirs.branch) = "auto" <=>
               /\ i.dirs.cli = "unset" /\ i.dirs.env = "unset"
               /\ ~i.dirs.disabled /\ i.dirs.branch
BY InputsAssumption DEF ConfigDir

LEMMA DirInit == Init => DirInv
BY DEF Init, DirInv, DirResolved

LEMMA DirNext == TypeOK /\ DirInv /\ [Next]_vars => DirInv'
<1> SUFFICES ASSUME TypeOK, DirInv, [Next]_vars PROVE DirInv'
  OBVIOUS
<1> USE DEF DirInv, DirResolved, settingVars
<1> HIDE DEF ConfigDir
<1>1. CASE LoadConfig
  BY <1>1 DEF LoadConfig
<1>2. CASE ApplyEnvironment
  BY <1>2 DEF ApplyEnvironment
<1>3. CASE Checkout
  BY <1>3 DEF Checkout
<1>4. CASE PrepareDiff
  BY <1>4 DEF PrepareDiff
<1>5. CASE ResolveConfigDir
  BY <1>5 DEF ResolveConfigDir, Resolved
<1>6. CASE LoadFiles
  BY <1>6 DEF LoadFiles
<1>7. CASE ValidateBinary
  BY <1>7 DEF ValidateBinary
<1>8. CASE WorkspaceStep
  BY <1>8 DEF WorkspaceStep, MakeWorkspace, WriteFile, WriteFails, WorkspaceMade, Undo
<1>9. CASE Ready
  BY <1>9 DEF Ready
<1>10. CASE SessionsEnd
  BY <1>10 DEF SessionsEnd
<1>11. CASE Cleanup
  BY <1>11 DEF Cleanup
<1>12. CASE UNCHANGED vars
  BY <1>12 DEF vars
<1> QED BY <1>1, <1>2, <1>3, <1>4, <1>5, <1>6, <1>7, <1>8, <1>9, <1>10, <1>11, <1>12
        DEF Next, StartStep, LoadStep, SessionStep, Done

\* The config directory of the checkout is used exactly when nothing was named, it is not
\* disabled and the branch under review has one, whatever was checked out before.
THEOREM ConfigDirOfTheBranchCorrect == Spec => []ConfigDirOfTheBranch
<1>1. TypeOK /\ DirInv => ConfigDirOfTheBranch
  BY AutoIs DEF TypeOK, DirInv, DirResolved, ConfigDirOfTheBranch, AfterFiles
<1> QED BY <1>1, DirInit, DirNext, TypeCorrect, PTL DEF Spec

----------------------------------------------------------------------------
(* The workspaces *)

Own(s) == \E i \in DOMAIN Stages : s = Stages[i]
ToClean(s) == \E i \in stage..Len(Stages) : s = Stages[i]

\* Nothing is on disk before "create"; the runtime is being made until "ready"; then it is
\* complete until the cleanup, which has reached the workspace number `stage`.
NotYet ==
    \/ pc \in {"load", "environment", "checkout", "resolve", "files", "validate"}
    \/ pc = "diff" /\ input.program = "reviewer"
MadeBefore == IF stage = 1 THEN {} ELSE {Stages[1]}

MadeInv ==
    /\ NotYet => stage = 1 /\ made = {} /\ complete = {}
    /\ pc \in {"create", "write", "undo"} => complete = MadeBefore
    /\ pc = "create" => made \subseteq complete
    /\ pc = "write" => made \subseteq complete \cup {Making}
    /\ pc = "undo" => made \subseteq complete \cup stuck
    /\ pc \in {"ready", "diff", "sessions"} =>
          stage = 1 /\ made \subseteq complete /\ \A s \in complete : Own(s)
    /\ pc = "cleanup" =>
          \A s \in made \ stuck : IF input.keep THEN s \in complete ELSE ToClean(s)
    /\ NothingLeft

LEMMA MadeInit == Init => MadeInv
BY DEF Init, MadeInv, NotYet, NothingLeft

LEMMA MadeNext == TypeOK /\ MadeInv /\ [Next]_vars => MadeInv'
<1> SUFFICES ASSUME TypeOK, MadeInv, [Next]_vars PROVE MadeInv'
  OBVIOUS
<1> USE DEF MadeInv, NotYet, NothingLeft, diskVars
<1>a. /\ stage \in 1..Len(Stages) /\ Len(Stages) \in {1, 2} /\ DOMAIN Stages = 1..Len(Stages)
      /\ UNCHANGED input /\ Stages' = Stages
  <2>1. UNCHANGED input
    BY DEF Next, StartStep, LoadStep, WorkspaceStep, SessionStep, Done, vars, LoadConfig,
           ApplyEnvironment, Checkout, PrepareDiff, ResolveConfigDir, Resolved, LoadFiles,
           ValidateBinary, MakeWorkspace, WriteFile, WriteFails, WorkspaceMade, Undo, Ready,
           SessionsEnd, Cleanup
  <2> QED BY <2>1, StagesAre, StagesKept DEF TypeOK
<1>b. MadeBefore' = IF stage' = 1 THEN {} ELSE {Stages[1]}
  BY <1>a DEF MadeBefore
<1>c. Making' = Stages[stage'] /\ Making = Stages[stage]
  BY <1>a DEF Making
<1>d. \A s : (Own(s))' <=> Own(s)
  BY <1>a DEF Own
<1>e. \A s : (ToClean(s))' <=> \E i \in stage'..Len(Stages) : s = Stages[i]
  BY <1>a DEF ToClean
<1>1. CASE StartStep
  <2>1. CASE LoadConfig \/ ApplyEnvironment \/ Checkout
    <3>1. NotYet /\ UNCHANGED <<input, diskVars>>
      BY <2>1 DEF LoadConfig, ApplyEnvironment, Checkout
    <3>2. NotYet' \/ pc' = "end"
      <4>1. CASE Checkout
        BY <4>1, <1>a DEF Checkout
      <4> QED BY <2>1, <4>1 DEF LoadConfig, ApplyEnvironment
    <3> QED BY <3>1, <3>2
  <2>2. CASE PrepareDiff /\ pc' /= "cleanup"
    BY <2>2, <1>a, <1>d DEF PrepareDiff
  <2>3. CASE PrepareDiff /\ pc' = "cleanup"
    BY <2>3, <1>a, <1>d, <1>e DEF PrepareDiff, Own, ToClean
  <2> QED BY <1>1, <2>1, <2>2, <2>3 DEF StartStep
<1>2. CASE LoadStep
  <2>1. NotYet /\ UNCHANGED diskVars /\ pc' \in {"files", "validate", "create", "end"}
    <3>1. CASE ResolveConfigDir
      BY <3>1 DEF ResolveConfigDir, Resolved
    <3>2. CASE LoadFiles
      BY <3>2 DEF LoadFiles
    <3>3. CASE ValidateBinary
      BY <3>3 DEF ValidateBinary
    <3> QED BY <1>2, <3>1, <3>2, <3>3 DEF LoadStep
  <2> QED BY <2>1, <1>a, <1>b
<1>3. CASE MakeWorkspace
  BY <1>3, <1>a, <1>b, <1>c DEF MakeWorkspace, MadeBefore
<1>4. CASE WriteFile
  BY <1>4, <1>a, <1>b, <1>c DEF WriteFile, MadeBefore
<1>5. CASE WriteFails
  BY <1>5, <1>a, <1>b, <1>c DEF WriteFails, RemoveAll, MadeBefore
<1>6. CASE WorkspaceMade
  BY <1>6, <1>a, <1>b, <1>c, <1>d DEF WorkspaceMade, MadeBefore, Own
<1>7. CASE Undo
  BY <1>7, <1>a DEF Undo, Cleaned, RemoveAll, MadeBefore
<1>8. CASE Ready
  BY <1>8, <1>a, <1>d, <1>e DEF Ready, Own, ToClean
<1>9. CASE SessionsEnd
  BY <1>9, <1>a, <1>d, <1>e DEF SessionsEnd, Own
<1>10. CASE Cleanup
  BY <1>10, <1>a, <1>c, <1>e DEF Cleanup, Cleaned, RemoveAll, ToClean
<1>11. CASE UNCHANGED vars
  <2>1. UNCHANGED <<pc, input, diskVars>>
    BY <1>11 DEF vars
  <2>2. MadeBefore' = MadeBefore
    BY <2>1, <1>b DEF MadeBefore
  <2>3. Making' = Making
    BY <2>1, <1>c
  <2>4. \A s : (ToClean(s))' <=> ToClean(s)
    BY <2>1, <1>e DEF ToClean
  <2> QED BY <2>1, <2>2, <2>3, <2>4, <1>d
<1> QED BY <1>1, <1>2, <1>3, <1>4, <1>5, <1>6, <1>7, <1>8, <1>9, <1>10, <1>11
        DEF Next, WorkspaceStep, SessionStep, Done

\* When a command ends, the workspaces on disk are those whose removal failed and, with
\* OR_OPENCODE_KEEP_XDG_DIRS, those that were completed.
THEOREM NothingLeftCorrect == Spec => []NothingLeft
<1>1. MadeInv => NothingLeft
  BY DEF MadeInv
<1> QED BY <1>1, MadeInit, MadeNext, TypeCorrect, PTL DEF Spec

----------------------------------------------------------------------------
(* Settings, files and models *)

\* From LoadFiles on the files of the agents are the ones that were found.
FilesLoaded == AfterFiles \/ (pc = "diff" /\ input.program /= "reviewer")

InputInv ==
    /\ pc \notin {"load", "environment"} /\ input.toml /\ Decodes(input.scalar) =>
          setting = Setting(input.scalar)
    /\ FilesLoaded =>
          /\ file = Effective(input.file, dir) /\ file.is /= "refused"
          /\ chain = ModelChain(input.models.model, input.models.fallbacks, input.models.provider)
          /\ chain /= RefusedChain

LEMMA InputInit == Init => InputInv
BY DEF Init, InputInv, FilesLoaded, AfterFiles

\* What is derived from the input is derived once, before anything that needs it.
LEMMA InputNext == TypeOK /\ InputInv /\ [Next]_vars => InputInv'
<1> SUFFICES ASSUME TypeOK, InputInv, [Next]_vars PROVE InputInv'
  OBVIOUS
<1> USE DEF InputInv, FilesLoaded, AfterFiles, settingVars
<1>1. CASE LoadConfig
  BY <1>1 DEF LoadConfig
<1>2. CASE ApplyEnvironment
  BY <1>2 DEF ApplyEnvironment
<1>3. CASE Checkout
  BY <1>3 DEF Checkout
<1>4. CASE PrepareDiff
  BY <1>4 DEF PrepareDiff
<1>5. CASE ResolveConfigDir
  BY <1>5 DEF ResolveConfigDir, Resolved
<1>6. CASE LoadFiles
  BY <1>6 DEF LoadFiles
<1>7. CASE ValidateBinary
  BY <1>7 DEF ValidateBinary
<1>8. CASE WorkspaceStep
  BY <1>8 DEF WorkspaceStep, MakeWorkspace, WriteFile, WriteFails, WorkspaceMade, Undo
<1>9. CASE SessionStep
  BY <1>9 DEF SessionStep, Ready, SessionsEnd, Cleanup
<1>10. CASE UNCHANGED vars
  BY <1>10 DEF vars
<1> QED BY <1>1, <1>2, <1>3, <1>4, <1>5, <1>6, <1>7, <1>8, <1>9, <1>10
        DEF Next, StartStep, LoadStep, Done

LEMMA InputCorrect == Spec => [](TypeOK /\ InputInv)
BY InputInit, InputNext, TypeCorrect, PTL DEF Spec

\* A setting comes from the first source that holds a value for it, in the documented
\* order of flags, environment, [env] section, GitLab's variables and TOML fields.
THEOREM SettingAsDocumentedCorrect == Spec => []SettingAsDocumented
<1>1. TypeOK /\ InputInv => SettingAsDocumented
  <2> SUFFICES ASSUME TypeOK, InputInv, pc \notin {"load", "environment"}, input.toml, Decodes(input.scalar)
               PROVE  setting.from = FirstOfRank(ScalarRank, {source \in ToSet(ScalarRank) : Offers(input.scalar, source)})
    BY DEF SettingAsDocumented
  <2>1. IsScalar(input.scalar)
    BY InputsAssumption DEF TypeOK
  <2>2. setting = Setting(input.scalar)
    BY DEF InputInv
  <2> QED BY <2>1, <2>2, SettingRanked
<1> QED BY <1>1, InputCorrect, PTL

\* A prompt, a message, a sub-agent list or the provider comes from the first source that
\* holds one, and a source that cannot be used is not passed over.
THEOREM FileAsDocumentedCorrect == Spec => []FileAsDocumented
<1>1. TypeOK /\ InputInv => FileAsDocumented
  <2> SUFFICES ASSUME TypeOK, InputInv, AfterFiles PROVE FileAsDocumented
    BY DEF FileAsDocumented
  <2>1. IsFile(input.file)
    BY InputsAssumption DEF TypeOK
  <2>2. file = Effective(input.file, dir) /\ Effective(input.file, dir).is /= "refused"
    BY DEF InputInv, FilesLoaded
  <2> QED BY <2>1, <2>2, EffectiveRanked DEF FileAsDocumented, FirstFile
<1> QED BY <1>1, InputCorrect, PTL

\* A session is given each model once and every fallback that names one, and first the model
\* of opencode.json as it is without the blanks that are written there.
THEOREM ModelChainSoundCorrect == Spec => []ModelChainSound
<1>1. TypeOK /\ InputInv => ModelChainSound
  <2> SUFFICES ASSUME TypeOK, InputInv, pc = "sessions", chain /= <<>> PROVE ModelChainSound
    BY DEF ModelChainSound
  <2> DEFINE m == input.models
  <2>1. m \in [model : ModelNames, fallbacks : Seq(ModelNames), provider : ModelNames]
    BY InputsAssumption DEF TypeOK
  <2>2. chain = ModelChain(m.model, m.fallbacks, m.provider) /\ chain /= RefusedChain
    BY DEF InputInv, FilesLoaded, AfterFiles
  <2>3. OpenCodeConfig.model = IF m.model /= NoModel THEN m.model ELSE m.provider
    BY DEF OpenCodeConfig
  <2> HIDE DEF m
  <2>4. SoundModels(chain, m)
    BY <2>1, <2>2, ModelChainIs
  <2> QED BY <2>3, <2>4 DEF ModelChainSound, SoundModels, m
<1> QED BY <1>1, InputCorrect, PTL

----------------------------------------------------------------------------
(* The files of the workspaces *)

\* The runtime has been made and is not being removed.
Completed == pc \in {"ready", "sessions"} \/ (pc = "diff" /\ input.program /= "reviewer")

Finished(s) == s \in made \cap complete /\ Stored(disk[s], Writes, Len(Writes))

\* A workspace that is being written holds the files before those in `todo`; the ones made
\* before it hold all of them, the ones still to be made hold nothing.
DiskInv ==
    /\ NotYet => \A s \in AllStages : disk[s] = <<>>
    /\ pc \in {"create", "write"} =>
          \A i \in 1..Len(Stages) :
              /\ i < stage => Finished(Stages[i])
              /\ i > stage \/ (i = stage /\ pc = "create") => disk[Stages[i]] = <<>>
    /\ pc = "write" =>
          /\ Making \in made
          /\ \E n \in 0..Len(Writes) : /\ todo = SubSeq(Writes, n + 1, Len(Writes))
                                       /\ Stored(disk[Making], Writes, n)
    /\ Completed => \A i \in 1..Len(Stages) : Finished(Stages[i])

\* What is written depends on the input, the config directory and the prompt only.
LEMMA WritesKept ==
    UNCHANGED <<input, dir, file>> => Writes' = Writes /\ SubAgents' = SubAgents
BY DEF Writes, ConfigFile, OpenCodeConfig, PromptIsEmpty, BuiltInTool, ToolOverrides, AgentFile,
       SubAgentPart, SubAgents, Stray

\* The workspaces of a program have different names.
LEMMA StagesDiffer ==
    ASSUME NEW i \in 1..Len(Stages), NEW j \in 1..Len(Stages), i /= j
    PROVE  Stages[i] /= Stages[j]
BY DEF Stages

\* Taking the next of the files that remain.
LEMMA NextFile ==
    ASSUME NEW S, NEW w \in Seq(S), NEW n \in 0..Len(w), NEW rest,
           rest = SubSeq(w, n + 1, Len(w))
    PROVE  /\ rest = <<>> => n = Len(w)
           /\ rest /= <<>> => n + 1 \in 0..Len(w) /\ Head(rest) = w[n + 1]
                              /\ Tail(rest) = SubSeq(w, (n + 1) + 1, Len(w))
<1>1. Len(w) \in Nat
  BY LenProperties
<1>2. CASE n = Len(w)
  <2>1. rest = <<>>
    BY <1>1, <1>2, SubSeqEmpty
  <2> QED BY <1>2, <2>1
<1>3. CASE n < Len(w)
  <2>1. n + 1 \in 1..Len(w) /\ Len(w) \in n + 1..Len(w)
    BY <1>1, <1>3
  <2>2. Head(rest) = w[n + 1] /\ Tail(rest) = SubSeq(w, (n + 1) + 1, Len(w))
    BY <2>1, HeadTailOfSubSeq
  <2>3. rest /= <<>>
    <3>1. \A i \in n + 1..Len(w) : w[i] \in S
      BY <1>1, ElementOfSeq
    <3>2. Len(rest) = Len(w) - (n + 1) + 1
      BY <1>1, <1>3, <3>1, SubSeqProperties
    <3>3. Len(rest) > 0
      BY <1>1, <1>3, <3>2
    <3>4. rest = <<>> => Len(rest) = 0
      <4>1. Len(<<>>) = 0
        OBVIOUS
      <4> QED BY <4>1, Zenon
    <3>5. Len(rest) /= 0
      BY <3>3
    <3> QED BY <3>4, <3>5, Zenon
  <2> QED BY <1>1, <2>1, <2>2, <2>3
<1> QED BY <1>1, <1>2, <1>3

\* At the start nothing is written.
LEMMA DiskInit == Init => DiskInv
BY DEF Init, DiskInv, NotYet, Completed, AllStages

\* Each step writes one file, finishes a workspace, or leaves the files alone.
LEMMA DiskNext == TypeOK /\ MadeInv /\ DiskInv /\ [Next]_vars => DiskInv'
<1> SUFFICES ASSUME TypeOK, MadeInv, DiskInv, [Next]_vars PROVE DiskInv'
  OBVIOUS
<1>a. /\ stage \in 1..Len(Stages) /\ Len(Stages) \in {1, 2} /\ DOMAIN Stages = 1..Len(Stages)
      /\ \A i \in 1..Len(Stages) : Stages[i] \in AllStages
      /\ UNCHANGED input /\ Stages' = Stages /\ input \in Inputs
  <2>1. UNCHANGED input
    BY DEF Next, StartStep, LoadStep, WorkspaceStep, SessionStep, Done, vars, LoadConfig,
           ApplyEnvironment, Checkout, PrepareDiff, ResolveConfigDir, Resolved, LoadFiles,
           ValidateBinary, MakeWorkspace, WriteFile, WriteFails, WorkspaceMade, Undo, Ready,
           SessionsEnd, Cleanup
  <2> QED BY <2>1, StagesAre, StagesKept DEF TypeOK
<1>b. PICK S : Writes \in Seq(S)
  BY <1>a, WritesAre
<1>c. Len(Writes) \in Nat
  BY <1>b, LenProperties
<1>1. CASE StartStep \/ LoadStep \/ SessionStep
  <2>1. /\ UNCHANGED <<todo, complete, disk>>
        /\ NotYet' => NotYet
        /\ pc' /= "write" /\ (pc' = "create" => NotYet)
        /\ Completed' => Completed /\ UNCHANGED <<dir, file, made>>
    <3> USE DEF NotYet, Completed, settingVars, diskVars
    <3>1. CASE StartStep
      BY <1>a, <3>1 DEF StartStep, LoadConfig, ApplyEnvironment, Checkout, PrepareDiff
    <3>2. CASE LoadStep
      BY <1>a, <3>2 DEF LoadStep, ResolveConfigDir, Resolved, LoadFiles, ValidateBinary
    <3>3. CASE SessionStep
      BY <1>a, <3>3 DEF SessionStep, Ready, SessionsEnd, Cleanup
    <3> QED BY <1>1, <3>1, <3>2, <3>3
  <2>2. NotYet' => \A s \in AllStages : disk'[s] = <<>>
    BY <2>1 DEF DiskInv
  <2>3. pc' \in {"create", "write"} => stage' = 1 /\ \A i \in 1..Len(Stages) : disk'[Stages[i]] = <<>>
    <3>1. pc' = "create" => stage' = stage
      BY <1>1, <2>1 DEF StartStep, LoadStep, SessionStep, LoadConfig, ApplyEnvironment, Checkout,
            PrepareDiff, ResolveConfigDir, Resolved, LoadFiles, ValidateBinary, Ready, SessionsEnd,
            Cleanup, diskVars
    <3> QED BY <1>a, <2>1, <3>1 DEF DiskInv, MadeInv
  <2>4. Completed' => \A i \in 1..Len(Stages) : Finished(Stages[i])'
    BY <1>a, <2>1, WritesKept DEF DiskInv, Finished
  <2> QED BY <1>a, <2>1, <2>2, <2>3, <2>4 DEF DiskInv
<1>2. ASSUME MakeWorkspace \/ WriteFile \/ WorkspaceMade
      PROVE  /\ UNCHANGED <<input, dir, file>> /\ Writes' = Writes
             /\ ~NotYet'
             /\ \A i \in 1..Len(Stages) : i < stage => Finished(Stages[i])
             /\ \A i \in 1..Len(Stages) : i > stage => disk[Stages[i]] = <<>>
  <2>1. UNCHANGED <<input, dir, file>> /\ ~NotYet' /\ pc \in {"create", "write"}
    BY <1>2 DEF MakeWorkspace, WriteFile, WorkspaceMade, NotYet, settingVars
  <2> QED BY <2>1, WritesKept DEF DiskInv
<1>3. CASE MakeWorkspace
  <2>1. CASE pc' = "undo"
    BY <1>2, <1>3, <2>1 DEF DiskInv, Completed
  <2>2. CASE pc' = "write"
    <3>1. /\ made' = made \cup {Making} /\ todo' = Writes /\ UNCHANGED <<stage, complete, disk>>
          /\ Making' = Making /\ disk[Making] = <<>>
      BY <1>3, <1>a, <2>2 DEF MakeWorkspace, DiskInv, Making
    <3>2. Stored(disk[Making], Writes, 0)
      BY <3>1, StoredFirst
    <3>3. todo' = SubSeq(Writes, 0 + 1, Len(Writes))
      BY <1>b, <3>1, SubSeqFull
    <3>4. \A i \in 1..Len(Stages) : i < stage' => Finished(Stages[i])'
      BY <1>2, <1>3, <1>a, <3>1 DEF Finished
    <3>5. 0 \in 0..Len(Writes)
      BY <1>c
    <3>6. (Making \in made)' /\ Writes' = Writes /\ (disk[Making])' = disk[Making]
      BY <1>2, <1>3, <3>1
    <3>7. \E n \in 0..Len(Writes)' : (todo = SubSeq(Writes, n + 1, Len(Writes)) /\ Stored(disk[Making], Writes, n))'
      BY <3>2, <3>3, <3>5, <3>6
    <3>8. ~Completed' /\ ~NotYet'
      BY <1>2, <1>3, <2>2 DEF Completed
    <3>9. \A i \in 1..Len(Stages) : i > stage' => disk'[Stages[i]] = <<>>
      BY <1>2, <1>3, <3>1
    <3> QED BY <1>a, <2>2, <3>4, <3>6, <3>7, <3>8, <3>9 DEF DiskInv
  <2> QED BY <1>3, <2>1, <2>2 DEF MakeWorkspace
<1>4. CASE WriteFile
  <2>1. /\ pc = "write" /\ pc' = "write" /\ todo /= <<>> /\ todo' = Tail(todo)
        /\ disk' = [disk EXCEPT ![Making] = Written(@, Head(todo))]
        /\ UNCHANGED <<stage, made, complete>> /\ Making' = Making /\ Making \in made
    BY <1>4, <1>a DEF WriteFile, DiskInv, Making
  <2>2. PICK n \in 0..Len(Writes) : /\ todo = SubSeq(Writes, n + 1, Len(Writes))
                                    /\ Stored(disk[Making], Writes, n)
    BY <2>1 DEF DiskInv
  <2>3. PICK m \in 0..Len(Writes) : /\ m = n + 1 /\ Head(todo) = Writes[m]
                                    /\ todo' = SubSeq(Writes, m + 1, Len(Writes))
    BY <1>b, <2>1, <2>2, NextFile
  <2>4. disk'[Making] = Written(disk[Making], Writes[m])
    BY <1>a, <2>1, <2>3 DEF TypeOK, Making
  <2>5. Stored(disk'[Making], Writes, m)
    BY <2>2, <2>3, <2>4, StoredNext
  <2>6. \A i \in 1..Len(Stages) : i /= stage => disk'[Stages[i]] = disk[Stages[i]]
    BY <1>a, <2>1, StagesDiffer DEF TypeOK, Making
  <2>7. \A i \in 1..Len(Stages) : i < stage => Finished(Stages[i])'
    BY <1>2, <1>4, <1>a, <2>1, <2>6 DEF Finished
  <2>8. (Making \in made)' /\ Writes' = Writes /\ (disk[Making])' = disk'[Making]
    BY <1>2, <1>4, <2>1
  <2>9. \E k \in 0..Len(Writes)' : (todo = SubSeq(Writes, k + 1, Len(Writes)) /\ Stored(disk[Making], Writes, k))'
    BY <2>3, <2>5, <2>8
  <2>10. ~Completed' /\ ~NotYet'
    BY <1>2, <1>4, <2>1 DEF Completed
  <2>11. \A i \in 1..Len(Stages) : i > stage' => disk'[Stages[i]] = <<>>
    <3>1. \A i \in 1..Len(Stages) : i > stage => i /= stage
      BY <1>a
    <3> QED BY <1>2, <1>4, <2>1, <2>6, <3>1
  <2> QED BY <1>a, <2>1, <2>7, <2>8, <2>9, <2>10, <2>11 DEF DiskInv
<1>5. CASE WorkspaceMade
  <2>1. /\ pc = "write" /\ todo = <<>> /\ complete' = complete \cup {Making}
        /\ UNCHANGED <<made, disk>> /\ Making \in made
    BY <1>5 DEF WorkspaceMade, DiskInv
  <2>2. PICK n \in 0..Len(Writes) : /\ todo = SubSeq(Writes, n + 1, Len(Writes))
                                    /\ Stored(disk[Making], Writes, n)
    BY <2>1 DEF DiskInv
  <2>3. n = Len(Writes)
    BY <1>b, <2>1, <2>2, NextFile
  <2>4. \A i \in 1..Len(Stages) : i <= stage => Finished(Stages[i])'
    BY <1>2, <1>5, <1>a, <2>1, <2>2, <2>3 DEF Finished, Making
  <2>5. \/ stage < Len(Stages) /\ stage' = stage + 1 /\ pc' = "create"
        \/ stage = Len(Stages) /\ pc' = "ready"
    <3>1. stage < Len(Stages) \/ stage = Len(Stages)
      <4>1. PICK last : last = Len(Stages)
        OBVIOUS
      <4>2. last \in {1, 2} /\ stage \in 1..last
        BY <1>a, <4>1
      <4>3. stage < last \/ stage = last
        BY <4>2
      <4> QED BY <4>1, <4>3
    <3>2. CASE stage < Len(Stages)
      BY <1>5, <3>2, Zenon DEF WorkspaceMade, Go
    <3>3. CASE stage = Len(Stages)
      <4>1. ~(stage < Len(Stages))
        BY <1>a, <3>3
      <4> QED BY <1>5, <3>3, <4>1, Zenon DEF WorkspaceMade, Go
    <3> QED BY <3>1, <3>2, <3>3
  <2>6. CASE pc' = "create"
    BY <1>2, <1>5, <1>a, <2>1, <2>4, <2>5, <2>6 DEF DiskInv, Completed
  <2>7. CASE pc' = "ready"
    BY <1>2, <1>5, <1>a, <2>4, <2>5, <2>7 DEF DiskInv
  <2> QED BY <2>5, <2>6, <2>7
<1>6. CASE WriteFails \/ Undo
  BY <1>6 DEF WriteFails, Undo, DiskInv, NotYet, Completed
<1>7. CASE UNCHANGED vars
  <2>1. UNCHANGED <<pc, input, dir, file, stage, todo, made, complete, disk>>
    BY <1>7 DEF vars, settingVars, diskVars
  <2>2. Writes' = Writes /\ Making' = Making
    BY <2>1, <1>a, WritesKept DEF Making
  <2>3. \A i \in 1..Len(Stages) : Finished(Stages[i])' <=> Finished(Stages[i])
    BY <2>1, <2>2, <1>a DEF Finished
  <2> QED BY <1>a, <2>1, <2>2, <2>3 DEF DiskInv, NotYet, Completed
<1> QED BY <1>1, <1>3, <1>4, <1>5, <1>6, <1>7
        DEF Next, WorkspaceStep, Done

LEMMA DiskCorrect == Spec => [](TypeOK /\ DiskInv)
BY TypeInit, TypeNext, MadeInit, MadeNext, DiskInit, DiskNext, PTL DEF Spec

\* Sessions find complete workspaces, each with the files that its configuration names,
\* the owner's tools and all the sub-agents.
THEOREM WorkspacesReadyCorrect == Spec => []WorkspacesReady
<1>1. TypeOK /\ DiskInv => WorkspacesReady
  <2> SUFFICES ASSUME TypeOK, DiskInv, pc \in {"ready", "sessions"} PROVE WorkspacesReady
    BY DEF WorkspacesReady
  <2>1. \A i \in DOMAIN Stages : Stages[i] \in made \cap complete /\ CompleteFiles(disk[Stages[i]])
    BY StagesAre, WorkspaceHolds DEF TypeOK, DiskInv, Completed, Finished
  <2> QED BY <2>1 DEF WorkspacesReady, CompleteFiles
<1> QED BY <1>1, DiskCorrect, PTL

\* A sub-agent is denied the tools that end a review unless its author asked for one.
THEOREM SubAgentsCannotSubmitCorrect == Spec => []SubAgentsCannotSubmit
<1>1. TypeOK /\ DiskInv => SubAgentsCannotSubmit
  <2> SUFFICES ASSUME TypeOK, DiskInv, pc = "sessions",
                      NEW i \in DOMAIN Stages, NEW a \in DOMAIN SubAgents, NEW tool \in TerminalTools,
                      \A b \in DOMAIN SubAgents : b > a => SubAgents[b].name /= SubAgents[a].name,
                      ~AskedFor(SubAgents[a].front, tool), ~Misread(SubAgents[a].front, tool)
               PROVE  Denies(disk[Stages[i]][<<"agents", SubAgents[a].name>>], tool)
    BY DEF SubAgentsCannotSubmit
  <2>1. CompleteFiles(disk[Stages[i]])
    BY StagesAre, WorkspaceHolds DEF TypeOK, DiskInv, Completed, Finished
  <2>2. disk[Stages[i]][<<"agents", SubAgents[a].name>>] = EnsureToolRestrictions(SubAgents[a].front)
    BY <2>1 DEF CompleteFiles
  <2>3. SubAgents[a].front \in FrontMatters
    BY PartsTyped DEF TypeOK
  <2> QED BY <2>2, <2>3, DeniedUnlessAsked
<1> QED BY <1>1, DiskCorrect, PTL

----------------------------------------------------------------------------
(* The diff *)

\* The reviewer prepares the diff before everything else, the comment warrior last.
DiffPrepared ==
    \/ pc = "sessions"
    \/ pc \in {"resolve", "files", "validate", "create", "write", "ready"} /\ input.program = "reviewer"

ContextInv == DiffPrepared => context = ContextFile(input.files)

LEMMA ContextInit == Init => ContextInv
BY DEF Init, ContextInv, DiffPrepared

LEMMA ContextNext == TypeOK /\ ContextInv /\ [Next]_vars => ContextInv'
<1> SUFFICES ASSUME TypeOK, ContextInv, [Next]_vars PROVE ContextInv'
  OBVIOUS
<1> USE DEF ContextInv, DiffPrepared, settingVars, diskVars
<1>1. CASE LoadConfig
  BY <1>1 DEF LoadConfig
<1>2. CASE ApplyEnvironment
  BY <1>2 DEF ApplyEnvironment
<1>3. CASE Checkout
  BY <1>3 DEF Checkout
<1>4. CASE PrepareDiff
  BY <1>4 DEF PrepareDiff
<1>5. CASE LoadStep
  BY <1>5 DEF LoadStep, ResolveConfigDir, Resolved, LoadFiles, ValidateBinary
<1>6. CASE WorkspaceStep
  BY <1>6 DEF WorkspaceStep, MakeWorkspace, WriteFile, WriteFails, WorkspaceMade, Undo
<1>7. CASE Ready
  BY <1>7 DEF Ready
<1>8. CASE SessionsEnd
  BY <1>8 DEF SessionsEnd
<1>9. CASE Cleanup
  BY <1>9 DEF Cleanup
<1>10. CASE UNCHANGED vars
  BY <1>10 DEF vars
<1> QED BY <1>1, <1>2, <1>3, <1>4, <1>5, <1>6, <1>7, <1>8, <1>9, <1>10
        DEF Next, StartStep, SessionStep, Done

\* Sessions find a diff.md with every file of the diff that has a readable path, once, in
\* the order of the categories, with its lines and their number, whatever the diff is, as
\* long as its code does not contain the marker of a file.
THEOREM ContextShowsTheDiffCorrect == Spec => []ContextShowsTheDiff
<1>1. TypeOK /\ ContextInv => ContextShowsTheDiff
  <2>1. CASE pc /= "sessions"
    BY <2>1 DEF ContextShowsTheDiff
  <2>2. ASSUME pc = "sessions", TypeOK, ContextInv PROVE ContextShowsTheDiff
    <3>1. input.files \in Seq(DiffFile)
      BY <2>2, InputsAssumption DEF TypeOK
    <3>2. context = ContextFile(input.files)
      BY <2>2 DEF ContextInv, DiffPrepared
    <3> QED BY <3>1, <3>2, ContextIs
  <2> QED BY <2>1, <2>2
<1> QED BY <1>1, TypeCorrect, ContextInit, ContextNext, PTL DEF Spec
=============================================================================
