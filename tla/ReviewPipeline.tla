-------------------------- MODULE ReviewPipeline --------------------------
(***************************************************************************)
(* Pipeline.Run (internal/review/pipeline/pipeline.go): the checkout the    *)
(* review works in, the temporary workspaces, the reviewer sessions that    *)
(* run in parallel, the finalizer, the dump, the publication, and the way   *)
(* back out through the deferred clean-ups.  A run may be killed anywhere   *)
(* and another one started in the same checkout.                            *)
(*                                                                          *)
(* Serving and sessions are ServeLifecycle and RunSession; here each is one *)
(* step that succeeds or fails.                                             *)
(***************************************************************************)
EXTENDS Naturals, Sequences, FiniteSets

CONSTANTS Prompts,      \* number of review messages, one session each
          Names,        \* the names reviewers give themselves
          MaxRuns       \* bound: runs started in the checkout

ASSUME PipelineAssumption ==
    Prompts \in Nat \ {0} /\ MaxRuns \in Nat \ {0}

\* The files of the checkout, by what git and the swapper do with them.
\* `agents` are AGENTS.md and CLAUDE.md files, and in the root of the checkout what a
\* symlink of that name leads to; `skippedAgents` are those in a directory of heavyDirs
\* (vendor, build, dist, target, a nested .claude, ...) and, below the root, symlinks.
Tracked   == {"source", "agents", "skippedAgents"}
Ignored   == {"ignoredAgents",        \* CLAUDE.md or .claude hidden by .gitignore
              "dependencyAgents"}     \* the same in a directory of heavyDirs (node_modules)
Untracked == {"rootAgents", "diff", "log", "dump"}
AgentFiles == {"agents", "ignoredAgents", "rootAgents"}   \* those the swapper reaches
Files == Tracked \cup Ignored \cup Untracked

\* "other": the owner's local change, or what an earlier run has left.
\* "torn": a write was cut off.
Contents == {"original", "other", "emptied", "written", "torn", "absent"}

\* A review: the results the finalizer was `given`, in order, and for one of its
\* findings the prompts it came from and those it is credited to.  "text": an answer
\* that is no JSON, "foreign": a file of the owner, "lost": the dump of a text.
Kinds == {"none", "findings", "text", "lost", "foreign"}
Reviews == [kind : Kinds, given : Seq(1..Prompts), origin : SUBSET (1..Prompts),
            refs : SUBSET (1..Prompts), fallback : SUBSET (1..Prompts)]

Review(k, given, origin) ==
    [kind |-> k, given |-> given, origin |-> origin, refs |-> {}, fallback |-> {}]

NoName == ""

VARIABLES
    pc, runs,
    fast,           \* --fast-review is set for this run
    dumpInTree,     \* the file of --review-dump or --fast-review is in the checkout
    branch,         \* the remote branch this run has fetched is checked out
    tree,           \* the contents of the files
    dumped,         \* the review in the dump, when there is one
    workspaces,     \* temporary XDG directories of this run on disk
    serve,          \* the opencode server that runs: "none", "reviewer", "finalizer"
    sessions,       \* reviewer sessions: "idle", "running", "ok", "failed"
    names,          \* the reviewer_name of their results
    resultsCh,      \* results sent and not yet collected
    collected,      \* resultsByIndex: prompts whose result was received
    received,       \* results received, failed ones too
    review,         \* the finalizer's review, or the one that is replayed
    published,      \* the review was handed to the publisher
    result,         \* what Run returns: "none", "ok" or "err"
    dirty,          \* a clean-up of this run failed
    saved           \* this run has written its dump

treeVars  == <<branch, tree, dumped>>
stageVars == <<serve, sessions, names, resultsCh, collected, received, review>>
exitVars  == <<published, result, dirty, saved>>
options   == <<fast, dumpInTree>>
vars == <<pc, runs, options, treeVars, workspaces, stageVars, exitVars>>

Init ==
    /\ pc = "fetch" /\ runs = 1 /\ fast \in BOOLEAN /\ dumpInTree \in BOOLEAN
    /\ branch = FALSE
    /\ tree \in {t \in [Files -> {"original", "other", "absent"}] :
                   /\ \A f \in Tracked : t[f] /= "absent"
                   /\ \A f \in Ignored : t[f] = "original"
                   /\ \A f \in Untracked : t[f] /= "original"}
    /\ workspaces = {}
    /\ serve = "none" /\ sessions = [i \in 1..Prompts |-> "idle"]
    /\ names = [i \in 1..Prompts |-> NoName]
    /\ resultsCh = <<>> /\ collected = {} /\ received = 0
    /\ review = Review("none", <<>>, {}) /\ dumped = Review("foreign", <<>>, {})
    /\ published = FALSE /\ result = "none" /\ dirty = FALSE /\ saved = FALSE

Go(next) == pc' = next /\ UNCHANGED <<runs, options>>

\* An error returns through the deferred calls registered so far.
Fail(next) == Go(next) /\ result' = "err" /\ UNCHANGED <<published, dirty, saved>>

----------------------------------------------------------------------------
(* git.PrepareRepository *)

InTree(f) == f /= "dump" \/ dumpInTree

Reset(t) == [f \in Files |-> IF f \in Tracked THEN "original" ELSE t[f]]

\* git clean -fd -e kept: ignored files are not touched.
RemoveUntracked(t, kept) ==
    [f \in Files |-> IF f \in Untracked \ kept /\ InTree(f) THEN "absent" ELSE t[f]]

Fetch ==
    /\ pc = "fetch"
    /\ \/ Go("clean") /\ UNCHANGED exitVars
       \/ Fail("end")
    /\ UNCHANGED <<treeVars, workspaces, stageVars>>

\* Bug: the repository is used as it was left.
CleanBeforeSkipped ==
    /\ pc = "clean"
    /\ Go("checkout")
    /\ UNCHANGED <<treeVars, workspaces, stageVars, exitVars>>

CleanBefore ==
    /\ pc = "clean"
    /\ \/ /\ tree' = RemoveUntracked(Reset(tree), {}) /\ Go("checkout")
          /\ UNCHANGED exitVars
       \/ tree' \in {tree, Reset(tree)} /\ Fail("end")
    /\ UNCHANGED <<branch, dumped, workspaces, stageVars>>

\* The deferred clean is registered only after this step.
CheckoutRemote ==
    /\ pc = "checkout"
    /\ \/ branch' = TRUE /\ Go("diff") /\ UNCHANGED exitVars
       \/ UNCHANGED branch /\ Fail("end")
    /\ UNCHANGED <<tree, dumped, workspaces, stageVars>>

----------------------------------------------------------------------------
(* RunPrepared *)

PrepareDiff ==
    /\ pc = "diff"
    /\ \/ /\ tree' = [tree EXCEPT !["diff"] = "written"]
          /\ Go(IF fast THEN "load" ELSE "runtime") /\ UNCHANGED exitVars
       \/ UNCHANGED tree /\ Fail("cleanTree")
    /\ UNCHANGED <<branch, dumped, workspaces, stageVars>>

\* loadReview: a dump that was cut off is no JSON, and a text was not written into it.
LoadReview ==
    /\ pc = "load"
    /\ \/ /\ tree["dump"] \notin {"absent", "torn"}
          /\ review' = [dumped EXCEPT !.kind = IF @ = "text" THEN "lost" ELSE @]
          /\ Go("publish") /\ UNCHANGED exitVars
       \/ UNCHANGED review /\ Fail("cleanTree")
    /\ UNCHANGED <<treeVars, workspaces, serve, sessions, names, resultsCh, collected, received>>

NewReviewerWorkspace ==
    /\ pc = "runtime"
    /\ \/ workspaces' = workspaces \cup {"reviewer"} /\ Go("runtime2") /\ UNCHANGED exitVars
       \/ UNCHANGED workspaces /\ Fail("cleanTree")
    /\ UNCHANGED <<treeVars, stageVars>>

\* Bug: the reviewer's workspace is forgotten when the finalizer's fails.
NewFinalizerWorkspaceLeaks ==
    /\ pc = "runtime2"
    /\ \/ workspaces' = workspaces \cup {"finalizer"} /\ Go("swap") /\ UNCHANGED exitVars
       \/ UNCHANGED workspaces /\ Fail("cleanTree")
    /\ UNCHANGED <<treeVars, stageVars>>

\* LoadRuntime removes the first workspace when the second cannot be made.
NewFinalizerWorkspace ==
    /\ pc = "runtime2"
    /\ \/ workspaces' = workspaces \cup {"finalizer"} /\ Go("swap") /\ UNCHANGED exitVars
       \/ workspaces' = workspaces \ {"reviewer"} /\ Fail("cleanTree")
    /\ UNCHANGED <<treeVars, stageVars>>

Emptied(t, fs) == [f \in Files |-> IF f \in fs THEN "emptied" ELSE t[f]]

\* Swap: every agents file outside heavyDirs is emptied (one in the root is made), or
\* some of them when a write fails.  os.WriteFile goes through a symlink in the root.
SwapAgentsMD ==
    /\ pc = "swap"
    /\ \/ tree' = Emptied(tree, AgentFiles) /\ Go("serve1") /\ UNCHANGED exitVars
       \/ /\ \E fs \in SUBSET AgentFiles : tree' = Emptied(tree, fs)
          /\ Fail("cleanRuntime")
    /\ UNCHANGED <<branch, dumped, workspaces, stageVars>>

----------------------------------------------------------------------------
(* ReviewStage.Run *)

\* startServeWithModelFallback stops the server when the precheck fails.
StartReviewers ==
    /\ pc = "serve1"
    /\ \E log \in {"written", tree["log"]} : tree' = [tree EXCEPT !["log"] = log]
    /\ \/ /\ serve' = "reviewer" /\ sessions' = [i \in 1..Prompts |-> "running"]
          /\ tree'["log"] = "written"
          /\ Go("phase1") /\ UNCHANGED exitVars
       \/ UNCHANGED <<serve, sessions>> /\ Fail("cleanRuntime")
    /\ UNCHANGED <<branch, dumped, workspaces, names, resultsCh, collected, received, review>>

\* Bug: a failed session sends nothing.
SessionEndsSilently(i) ==
    /\ sessions[i] = "running"
    /\ \/ sessions' = [sessions EXCEPT ![i] = "ok"] /\ resultsCh' = Append(resultsCh, i)
       \/ sessions' = [sessions EXCEPT ![i] = "failed"] /\ UNCHANGED resultsCh
    /\ UNCHANGED <<pc, runs, options, treeVars, workspaces, serve, names, collected, received,
                   review, exitVars>>

\* runSingleReview returns and its goroutine sends on the buffered channel.  A result
\* that is only a text has no name.
SessionEnds(i) ==
    /\ sessions[i] = "running"
    /\ \/ /\ sessions' = [sessions EXCEPT ![i] = "ok"]
          /\ \E n \in Names \cup {NoName} : names' = [names EXCEPT ![i] = n]
       \/ sessions' = [sessions EXCEPT ![i] = "failed"] /\ UNCHANGED names
    /\ resultsCh' = Append(resultsCh, i)
    /\ UNCHANGED <<pc, runs, options, treeVars, workspaces, serve, collected, received,
                   review, exitVars>>

CollectResult ==
    /\ pc = "phase1" /\ received < Prompts /\ resultsCh /= <<>>
    /\ LET i == Head(resultsCh)
       IN  collected' = IF sessions[i] = "ok" THEN collected \cup {i} ELSE collected
    /\ received' = received + 1 /\ resultsCh' = Tail(resultsCh)
    /\ UNCHANGED <<pc, runs, options, treeVars, workspaces, serve, sessions, names, review, exitVars>>

\* Bug: the review goes on with the sessions that succeeded.
ReviewersDoneWithFailures ==
    /\ pc = "phase1" /\ received = Prompts
    /\ serve' = "none"
    /\ IF collected /= {} THEN Go("serve2") /\ UNCHANGED exitVars ELSE Fail("cleanRuntime")
    /\ UNCHANGED <<treeVars, workspaces, sessions, names, resultsCh, collected, received, review>>

\* One failed session fails the stage; StopServe is deferred.
ReviewersDone ==
    /\ pc = "phase1" /\ received = Prompts
    /\ serve' = "none"
    /\ IF Cardinality(collected) = Prompts
         THEN Go("serve2") /\ UNCHANGED exitVars
         ELSE Fail("cleanRuntime")
    /\ UNCHANGED <<treeVars, workspaces, sessions, names, resultsCh, collected, received, review>>

----------------------------------------------------------------------------
(* FinalizerStage.Run, the dump, the publication *)

StartFinalizer ==
    /\ pc = "serve2"
    /\ \/ serve' = "finalizer" /\ Go("phase2") /\ UNCHANGED exitVars
       \/ UNCHANGED serve /\ Fail("cleanRuntime")
    /\ UNCHANGED <<treeVars, workspaces, sessions, names, resultsCh, collected, received, review>>

\* The results are passed in the order of the prompts, whatever order they came in.
InPromptOrder(S) ==
    CHOOSE s \in [1..Cardinality(S) -> S] : \A i, j \in DOMAIN s : i < j => s[i] < s[j]

Named(n) == {i \in collected : names[i] = n /\ n /= NoName}

\* Bug: of several reviewers with one name the last is credited.
ApplyFindingProvenanceLast(r, sources) ==
    LET found == {n \in sources : Named(n) /= {}}
        Last(n) == CHOOSE i \in Named(n) : \A j \in Named(n) : j <= i
    IN  IF found /= {} THEN [r EXCEPT !.refs = {Last(n) : n \in found}]
                       ELSE [r EXCEPT !.fallback = collected]

\* For a finding whose sources are these names.
ApplyFindingProvenance(r, sources) ==
    LET matched   == {i \in collected : \E n \in sources : Named(n) = {i}}
        ambiguous == \E n \in sources : \E i, j \in Named(n) : i /= j
    IN  IF matched /= {} /\ ~ambiguous THEN [r EXCEPT !.refs = matched]
                                       ELSE [r EXCEPT !.fallback = collected]

\* The finalizer names all reviewers its finding comes from, or some.
FinalizerEnds ==
    /\ pc = "phase2"
    /\ serve' = "none"
    /\ LET given == InPromptOrder(collected)
       IN  \/ /\ \E origin \in SUBSET collected : \E sources \in SUBSET {names[i] : i \in origin} :
                    review' = ApplyFindingProvenance(Review("findings", given, origin), sources)
              /\ Go("dump") /\ UNCHANGED exitVars
           \/ review' = Review("text", given, {}) /\ Go("dump") /\ UNCHANGED exitVars
           \/ UNCHANGED review /\ Fail("cleanRuntime")
    /\ UNCHANGED <<treeVars, workspaces, sessions, names, resultsCh, collected, received>>

\* No --review-dump, or a write that fails, perhaps half way (which is only logged).
SaveReview ==
    /\ pc = "dump"
    /\ \/ tree' = [tree EXCEPT !["dump"] = "written"] /\ dumped' = review /\ saved' = TRUE
       \/ tree' = [tree EXCEPT !["dump"] = "torn"] /\ UNCHANGED <<dumped, saved>>
       \/ UNCHANGED <<tree, dumped, saved>>
    /\ Go("publish")
    /\ UNCHANGED <<branch, workspaces, stageVars, published, result, dirty>>

\* A failed publication is only logged.
PublishReview ==
    /\ pc = "publish"
    /\ published' \in BOOLEAN /\ result' = "ok"
    /\ Go(IF fast THEN "cleanTree" ELSE "cleanRuntime")
    /\ UNCHANGED <<treeVars, workspaces, stageVars, dirty, saved>>

----------------------------------------------------------------------------
(* The deferred calls *)

\* Cleanup removes both workspaces even when the first cannot be removed.
CleanupRuntime ==
    /\ pc = "cleanRuntime"
    /\ workspaces' \in SUBSET workspaces
    /\ dirty' = (dirty \/ workspaces' /= {})
    /\ Go("cleanTree")
    /\ UNCHANGED <<treeVars, stageVars, published, result, saved>>

CleanAfter ==
    /\ pc = "cleanTree"
    /\ \/ tree' = RemoveUntracked(Reset(tree), {"log"}) /\ UNCHANGED dirty
       \/ tree' \in {tree, Reset(tree)} /\ dirty' = TRUE
    /\ Go("end")
    /\ UNCHANGED <<branch, dumped, workspaces, stageVars, published, result, saved>>

----------------------------------------------------------------------------
(* The process and the checkout's owner *)

\* No signal is handled: nothing deferred runs.  The server is a process group
\* of its own and is left behind; a dump that is being written is torn.
Killed ==
    /\ pc \notin {"end", "killed"}
    /\ pc' = "killed"
    /\ sessions' = [i \in 1..Prompts |-> "idle"]
    /\ names' = [i \in 1..Prompts |-> NoName]
    /\ resultsCh' = <<>> /\ collected' = {} /\ received' = 0
    /\ \/ UNCHANGED tree
       \/ pc = "dump" /\ tree' = [tree EXCEPT !["dump"] = "torn"]
    /\ UNCHANGED <<runs, options, branch, dumped, workspaces, serve, review, exitVars>>

\* What a run wrote is old for the next one; the owner may edit a source file.
NextRun ==
    /\ pc \in {"end", "killed"} /\ runs < MaxRuns
    /\ pc' = "fetch" /\ runs' = runs + 1 /\ fast' \in BOOLEAN /\ dumpInTree' \in BOOLEAN
    /\ tree' \in {[f \in Files |-> IF f = "source" THEN s
                                   ELSE IF tree[f] = "written" THEN "other" ELSE tree[f]] :
                    s \in {tree["source"], "other"}}
    /\ branch' = FALSE /\ UNCHANGED dumped
    /\ serve' = "none" /\ sessions' = [i \in 1..Prompts |-> "idle"]
    /\ names' = [i \in 1..Prompts |-> NoName]
    /\ resultsCh' = <<>> /\ collected' = {} /\ received' = 0
    /\ review' = Review("none", <<>>, {})
    /\ workspaces' = {}
    /\ published' = FALSE /\ result' = "none" /\ dirty' = FALSE /\ saved' = FALSE

----------------------------------------------------------------------------
PrepareStep == Fetch \/ CleanBefore \/ CheckoutRemote \/ PrepareDiff \/ LoadReview
RuntimeStep == NewReviewerWorkspace \/ NewFinalizerWorkspace \/ SwapAgentsMD
StageStep == StartReviewers \/ CollectResult \/ ReviewersDone \/ StartFinalizer \/ FinalizerEnds
ReportStep == SaveReview \/ PublishReview
ExitStep == CleanupRuntime \/ CleanAfter

PipelineStep == PrepareStep \/ RuntimeStep \/ StageStep \/ ReportStep \/ ExitStep

Stopped == pc \in {"end", "killed"} /\ UNCHANGED vars

Next ==
    \/ PipelineStep
    \/ \E i \in 1..Prompts : SessionEnds(i)
    \/ Killed \/ NextRun \/ Stopped

Spec == Init /\ [][Next]_vars

\* git, the servers and the sessions return (RunSession, ServeLifecycle).
Fairness == WF_vars(PipelineStep) /\ \A i \in 1..Prompts : WF_vars(SessionEnds(i))

FairSpec == Spec /\ Fairness

----------------------------------------------------------------------------
(* Properties *)

TypeOK ==
    /\ pc \in {"fetch", "clean", "checkout", "diff", "load", "runtime", "runtime2", "swap",
               "serve1", "phase1", "serve2", "phase2", "dump", "publish", "cleanRuntime",
               "cleanTree", "end", "killed"}
    /\ runs \in 1..MaxRuns /\ fast \in BOOLEAN /\ dumpInTree \in BOOLEAN
    /\ branch \in BOOLEAN
    /\ tree \in [Files -> Contents] /\ dumped \in Reviews
    /\ workspaces \subseteq {"reviewer", "finalizer"}
    /\ serve \in {"none", "reviewer", "finalizer"}
    /\ sessions \in [1..Prompts -> {"idle", "running", "ok", "failed"}]
    /\ resultsCh \in Seq(1..Prompts) /\ Len(resultsCh) <= Prompts
    /\ collected \subseteq 1..Prompts /\ received \in 0..Prompts
    /\ names \in [1..Prompts -> Names \cup {NoName}] /\ review \in Reviews
    /\ published \in BOOLEAN /\ result \in {"none", "ok", "err"}
    /\ dirty \in BOOLEAN /\ saved \in BOOLEAN

\* What the agents read is the review branch: no local change, no leftover of an earlier
\* or killed run, this run's diff, and none of the project instructions the swapper looks
\* for.  Those it passes over stay as the branch has them (agentsmd_test.go:234-267), so a
\* session can read them; of those below an ignored directory, such as node_modules,
\* which no git command touches, nothing is claimed.
SessionsSeeTheBranch ==
    pc \in {"phase1", "phase2"} =>
        /\ branch /\ tree["source"] = "original" /\ tree["diff"] = "written"
        /\ \A f \in AgentFiles : tree[f] = "emptied"
        /\ tree["skippedAgents"] = "original"
        /\ tree["dump"] /= "absent" => ~dumpInTree

\* As many results as prompts, each after those of the prompts before it: all of them.
Whole(s) ==
    /\ s \in [1..Prompts -> 1..Prompts]
    /\ \A i, j \in 1..Prompts : i < j => s[i] < s[j]

\* A review is published only when every reviewer session of its run succeeded, and
\* the finalizer saw all the results in the order of the prompts.  That goes for a
\* replayed review too, even when the run that wrote the dump was killed over it,
\* unless the file is the owner's or the finalizer's answer was a text: its dump is
\* empty.
PublishedIsWhole ==
    published =>
        \/ review.kind \in {"findings", "text"} /\ Whole(review.given)
        \/ fast /\ review.kind \in {"foreign", "lost"}

\* A published finding is credited to review messages it came from, or else to all of
\* them, although the reviewers choose their names themselves, in parallel, and two
\* may choose the same one or none.
CreditedToItsSources ==
    published /\ review.kind = "findings" =>
        /\ review.refs \subseteq review.origin
        /\ review.refs = {} => review.fallback = 1..Prompts

\* When Run returns no server runs, the log and a dump outside the checkout are
\* kept, and, unless a clean-up failed, no workspace is left and the checkout is as
\* git has it.
RunLeavesNothing ==
    /\ pc \in {"cleanRuntime", "cleanTree", "end"} => serve = "none"
    /\ pc = "end" /\ Cardinality(collected) > 0 => tree["log"] = "written"
    /\ pc = "end" /\ saved /\ ~dumpInTree => tree["dump"] = "written"
    /\ pc = "end" /\ ~dirty => workspaces = {}
    /\ pc = "end" /\ ~dirty /\ branch =>
         /\ \A f \in Tracked : tree[f] = "original"
         /\ tree["diff"] = "absent" /\ tree["rootAgents"] = "absent"

\* Every run returns unless it is killed: no session's result is waited for in vain.
RunReturns == []<>(pc \in {"end", "killed"})

\* Swapper: "Restoration is handled externally via gitClient.Clean()" (swap.go:63).
AgentFilesRestored ==
    pc = "end" /\ ~dirty => \A f \in AgentFiles : tree[f] /= "emptied"
============================================================================
