----------------------- MODULE ReviewPipeline_proofs -----------------------
(***************************************************************************)
(* Proofs about ReviewPipeline, for every number of prompts and runs.       *)
(*                                                                          *)
(* What the sessions see, what is published and what is left behind depends *)
(* on how far a run has come: the invariants say for every pc what the      *)
(* steps before it have established and no later one has undone.            *)
(***************************************************************************)
EXTENDS ReviewPipeline, FiniteSetTheorems, TLAPS

Starting  == {"fetch", "clean", "checkout", "diff", "load", "runtime", "runtime2", "swap", "serve1"}
Prepared  == {"diff", "load", "runtime", "runtime2", "swap", "serve1", "phase1", "serve2", "phase2"}
Swapped   == {"serve1", "phase1", "serve2", "phase2"}
Reviewing == {"runtime", "runtime2", "swap", "serve1", "phase1", "serve2", "phase2", "dump"}

\* The checkout.
TreeInv ==
    /\ pc \in {"fetch", "clean", "checkout"} => ~branch
    /\ pc \in {"checkout"} \cup Prepared =>
          /\ tree["source"] = "original" /\ tree["skippedAgents"] = "original"
          /\ dumpInTree => tree["dump"] = "absent"
    /\ pc \in Prepared => branch
    /\ pc \in Prepared \ {"diff"} => tree["diff"] = "written"
    /\ pc \in Swapped => \A f \in AgentFiles : tree[f] = "emptied"
    /\ pc = "end" /\ ~dirty /\ branch =>
         /\ \A f \in Tracked : tree[f] = "original"
         /\ tree["diff"] = "absent" /\ tree["rootAgents"] = "absent"

\* The workspaces; a replayed review has none.
WorkspaceInv ==
    /\ pc \in Reviewing => ~fast
    /\ pc = "load" => fast
    /\ pc \in {"fetch", "clean", "checkout", "diff", "load", "runtime"} => workspaces = {}
    /\ pc = "publish" /\ fast => workspaces = {}
    /\ pc = "runtime2" => workspaces \subseteq {"reviewer"}
    /\ pc \in {"cleanTree", "end"} => workspaces = {} \/ dirty

Running == {i \in 1..Prompts : sessions[i] = "running"}

\* Every session is running, its result is on the channel, or it was received.
ResultsInv ==
    /\ pc \in Starting => received = 0 /\ resultsCh = <<>> /\ Running = {}
    /\ received + Len(resultsCh) + Cardinality(Running) <= Prompts

\* A review that may be dumped, loaded and published.
Sound(r) ==
    /\ r.kind \in {"findings", "text", "lost", "foreign"}
    /\ r.kind \in {"findings", "text"} => Whole(r.given)
    /\ r.refs \subseteq r.origin
    /\ r.refs = {} /\ r.kind = "findings" => r.fallback = 1..Prompts

\* The results, the review made of them, the log and the dump.
ReviewInv ==
    /\ serve /= "none" => pc \in {"phase1", "phase2", "killed"}
    /\ pc \in Starting => collected = {} /\ ~published
    /\ pc \in Starting \cup {"phase1", "serve2", "phase2", "dump"} => ~saved
    /\ collected /= {} => tree["log"] = "written"
    /\ pc = "phase1" => tree["log"] = "written"
    /\ pc \in {"serve2", "phase2"} => collected = 1..Prompts
    /\ pc = "dump" => Sound(review) /\ review.kind \in {"findings", "text"}
    /\ pc = "publish" \/ published =>
          Sound(review) /\ (review.kind \in {"findings", "text"} \/ fast)
    /\ published => pc \in {"cleanRuntime", "cleanTree", "end", "killed"}
    /\ saved /\ ~dumpInTree => tree["dump"] = "written"
    /\ Sound(dumped)

IInv == TypeOK /\ TreeInv /\ WorkspaceInv /\ ResultsInv /\ ReviewInv

----------------------------------------------------------------------------
(* The operators *)

\* With all results the order of the prompts is theirs.
LEMMA AllInOrder == Whole(InPromptOrder(1..Prompts))
<1>1. Prompts \in Nat /\ Cardinality(1..Prompts) = Prompts
  <2>1. Prompts \in Nat
    BY PipelineAssumption
  <2>2. Cardinality(1..Prompts) = Prompts - 1 + 1
    BY <2>1, FS_Interval
  <2>3. QED
    BY <2>1, <2>2
<1>2. [i \in 1..Prompts |-> i] \in [1..Prompts -> 1..Prompts]
  OBVIOUS
<1>3. \E s \in [1..Prompts -> 1..Prompts] : \A i, j \in DOMAIN s : i < j => s[i] < s[j]
  BY <1>2
<1> DEFINE Ordered(s) == \A i, j \in DOMAIN s : i < j => s[i] < s[j]
<1>4. InPromptOrder(1..Prompts) = CHOOSE s \in [1..Prompts -> 1..Prompts] : Ordered(s)
  BY <1>1 DEF InPromptOrder
<1>5. \E s \in [1..Prompts -> 1..Prompts] : Ordered(s)
  BY <1>3
<1> HIDE DEF Ordered
<1>6. InPromptOrder(1..Prompts) \in [1..Prompts -> 1..Prompts] /\ Ordered(InPromptOrder(1..Prompts))
  BY <1>4, <1>5
<1>7. QED
  BY <1>6 DEF Whole, Ordered

LEMMA WholeIsSeq == ASSUME NEW s, Whole(s) PROVE s \in Seq(1..Prompts)
BY PipelineAssumption DEF Whole

LEMMA ReviewType ==
    ASSUME NEW given \in Seq(1..Prompts), NEW origin \in SUBSET (1..Prompts),
           NEW refs \in SUBSET (1..Prompts), NEW fallback \in SUBSET (1..Prompts)
    PROVE  [kind |-> "findings", given |-> given, origin |-> origin, refs |-> refs,
            fallback |-> fallback] \in Reviews
BY DEF Reviews, Kinds

LEMMA FallsBack ==
    ASSUME NEW given, NEW origin, NEW all
    PROVE  [Review("findings", given, origin) EXCEPT !.fallback = all] =
             [kind |-> "findings", given |-> given, origin |-> origin, refs |-> {}, fallback |-> all]
BY DEF Review

\* A finding's sources are names of the reviewers it came from.  One that only one
\* reviewer has is that reviewer's.
LEMMA ProvenanceSound ==
    ASSUME collected = 1..Prompts, NEW origin \in SUBSET collected,
           NEW sources \in SUBSET {names[i] : i \in origin}, NEW given, Whole(given)
    PROVE  LET r == ApplyFindingProvenance(Review("findings", given, origin), sources)
           IN  Sound(r) /\ r \in Reviews /\ r.kind = "findings"
<1> DEFINE start == Review("findings", given, origin)
           matched == {i \in collected : \E n \in sources : Named(n) = {i}}
           ambiguous == \E n \in sources : \E i, j \in Named(n) : i /= j
           r == ApplyFindingProvenance(start, sources)
<1>0. given \in Seq(1..Prompts)
  BY WholeIsSeq
<1>1. start = [kind |-> "findings", given |-> given, origin |-> origin, refs |-> {}, fallback |-> {}]
  BY DEF Review
<1>2. matched \subseteq origin
  <2> SUFFICES ASSUME NEW i \in matched PROVE i \in origin
    OBVIOUS
  <2>1. PICK n \in sources : Named(n) = {i}
    OBVIOUS
  <2>2. PICK j \in origin : n = names[j]
    BY <2>1
  <2>3. i \in Named(n)
    BY <2>1
  <2>4. names[i] = n /\ n /= NoName
    BY <2>3 DEF Named
  <2>5. j \in Named(n)
    BY <2>2, <2>4 DEF Named
  <2>6. QED
    BY <2>1, <2>2, <2>5
<1>3. \/ /\ matched /= {}
         /\ r = [kind |-> "findings", given |-> given, origin |-> origin, refs |-> matched, fallback |-> {}]
      \/ r = [kind |-> "findings", given |-> given, origin |-> origin, refs |-> {}, fallback |-> collected]
  <2>1. r = IF matched /= {} /\ ~ambiguous THEN [start EXCEPT !.refs = matched]
                                          ELSE [start EXCEPT !.fallback = collected]
    BY DEF ApplyFindingProvenance
  <2> HIDE DEF matched, ambiguous, r, start
  <2>2. [start EXCEPT !.fallback = collected]
             = [kind |-> "findings", given |-> given, origin |-> origin, refs |-> {}, fallback |-> collected]
    BY FallsBack DEF start
  <2>6. [start EXCEPT !.refs = matched]
             = [kind |-> "findings", given |-> given, origin |-> origin, refs |-> matched, fallback |-> {}]
    BY <1>1
  <2>3. CASE matched /= {} /\ ~ambiguous
    BY <2>1, <2>6, <2>3
  <2>4. CASE ~(matched /= {} /\ ~ambiguous)
    BY <2>1, <2>2, <2>4
  <2>5. QED
    BY <2>3, <2>4
<1>4. matched \in SUBSET (1..Prompts) /\ origin \in SUBSET (1..Prompts)
  BY <1>2
<1> HIDE DEF matched, r, start
<1>5. /\ r.kind = "findings" /\ r.given = given /\ r.origin = origin /\ r.refs \subseteq origin
      /\ r.refs = {} => r.fallback = 1..Prompts
  BY <1>2, <1>3
<1>6. r \in Reviews
  <2>1. CASE r = [kind |-> "findings", given |-> given, origin |-> origin, refs |-> matched, fallback |-> {}]
    BY <1>0, <1>4, <2>1, ReviewType
  <2>2. CASE r = [kind |-> "findings", given |-> given, origin |-> origin, refs |-> {}, fallback |-> collected]
    <3>1. collected \in SUBSET (1..Prompts)
      OBVIOUS
    <3>2. QED
      BY <1>0, <1>4, <2>2, <3>1, ReviewType
  <2>3. QED
    BY <1>3, <2>1, <2>2
<1>7. Sound(r)
  BY <1>5 DEF Sound
<1> QED
  BY <1>5, <1>6, <1>7 DEF r, start

LEMMA TextSound ==
    ASSUME NEW given, Whole(given)
    PROVE  Sound(Review("text", given, {})) /\ Review("text", given, {}) \in Reviews
<1>1. given \in Seq(1..Prompts)
  BY WholeIsSeq
<1> QED
  BY <1>1 DEF Sound, Review, Reviews, Kinds

LEMMA NoReview ==
    /\ \A k \in {"none", "foreign"} : Review(k, <<>>, {}) \in Reviews
    /\ Sound(Review("foreign", <<>>, {}))
BY DEF Sound, Review, Reviews, Kinds

\* As many results as prompts are the results of all prompts.
LEMMA AllCollected ==
    ASSUME collected \subseteq 1..Prompts, Cardinality(collected) = Prompts
    PROVE  collected = 1..Prompts
<1>1. Prompts \in Nat /\ IsFiniteSet(1..Prompts) /\ Cardinality(1..Prompts) = Prompts
  <2>1. Prompts \in Nat /\ 1 \in Nat
    BY PipelineAssumption
  <2>2. IsFiniteSet(1..Prompts) /\ Cardinality(1..Prompts) = Prompts - 1 + 1
    BY <2>1, FS_Interval
  <2>3. QED
    BY <2>1, <2>2
<1>2. QED
  BY <1>1, FS_Subset

LEMMA PromptsFinite ==
    ASSUME NEW S \in SUBSET (1..Prompts)
    PROVE  IsFiniteSet(S) /\ Cardinality(S) \in Nat /\ Cardinality(S) <= Prompts
<1>1. Prompts \in Nat /\ 1 \in Nat
  BY PipelineAssumption
<1>2. IsFiniteSet(1..Prompts) /\ Cardinality(1..Prompts) = Prompts - 1 + 1
  BY <1>1, FS_Interval
<1>3. Cardinality(1..Prompts) = Prompts
  BY <1>1, <1>2
<1>4. IsFiniteSet(S) /\ Cardinality(S) <= Prompts
  BY <1>2, <1>3, FS_Subset
<1>5. QED
  BY <1>4, FS_CardinalityType

\* git reset and git clean, on the files the invariants speak of.
LEMMA Cleaned ==
    ASSUME TypeOK, NEW kept \in SUBSET {"log"}
    PROVE  LET t == RemoveUntracked(Reset(tree), kept)
           IN  /\ t \in [Files -> Contents]
               /\ \A f \in Tracked : t[f] = "original"
               /\ t["diff"] = "absent" /\ t["rootAgents"] = "absent"
               /\ dumpInTree => t["dump"] = "absent"
               /\ ~dumpInTree => t["dump"] = tree["dump"]
               /\ kept = {"log"} => t["log"] = tree["log"]
<1>1. /\ "diff" /= "dump" /\ "rootAgents" /= "dump" /\ "log" /= "dump"
      /\ "diff" \in Files /\ "rootAgents" \in Files /\ "dump" \in Files /\ "log" \in Files
      /\ "original" \in Contents /\ "absent" \in Contents
      /\ tree \in [Files -> Contents]
  BY DEF Files, Untracked, Contents, TypeOK
<1>2. Reset(tree) \in [Files -> Contents] /\ \A f \in Tracked : Reset(tree)[f] = "original"
  BY <1>1 DEF Reset, Files
<1>3. \A f \in Untracked : Reset(tree)[f] = tree[f] /\ f \in Files
  BY DEF Reset, Files, Tracked, Untracked
<1>4. QED
  BY <1>1, <1>2, <1>3 DEF RemoveUntracked, InTree, Files, Tracked, Untracked

LEMMA ResetOnly ==
    ASSUME TypeOK
    PROVE  /\ Reset(tree) \in [Files -> Contents]
           /\ \A f \in Untracked : Reset(tree)[f] = tree[f]
BY DEF TypeOK, Reset, Files, Tracked, Untracked, Contents

\* Swap, on the files the invariants speak of.
LEMMA EmptiedFiles ==
    ASSUME TypeOK, NEW fs \in SUBSET AgentFiles
    PROVE  /\ Emptied(tree, fs) \in [Files -> Contents]
           /\ \A f \in fs : Emptied(tree, fs)[f] = "emptied"
           /\ \A f \in {"source", "skippedAgents", "diff", "log", "dump"} : Emptied(tree, fs)[f] = tree[f]
BY DEF TypeOK, Emptied, Files, Tracked, Ignored, Untracked, AgentFiles, Contents

----------------------------------------------------------------------------
LEMMA InitInv == Init => IInv
<1> SUFFICES ASSUME Init PROVE IInv
  OBVIOUS
<1>1. Running = {} /\ Cardinality({}) = 0
  BY FS_EmptySet DEF Running, Init
<1>2. TypeOK
  <2>1. 1 \in 1..MaxRuns /\ 0 \in 0..Prompts /\ Prompts \in Nat
    BY PipelineAssumption
  <2>2. tree \in [Files -> Contents]
    BY DEF Init, Contents
  <2>3. sessions \in [1..Prompts -> {"idle", "running", "ok", "failed"}]
    BY DEF Init
  <2>4. resultsCh \in Seq(1..Prompts) /\ Len(resultsCh) = 0
    BY DEF Init
  <2>7. review \in Reviews /\ dumped \in Reviews /\ names \in [1..Prompts -> Names \cup {NoName}]
    BY NoReview DEF Init
  <2>5. Len(resultsCh) <= Prompts
    BY <2>1, <2>4
  <2>6. QED
    BY <2>1, <2>2, <2>3, <2>4, <2>5, <2>7 DEF Init, TypeOK
<1>3. TreeInv /\ WorkspaceInv
  BY DEF Init, TreeInv, WorkspaceInv, Prepared, Swapped, Reviewing
<1>4. ResultsInv /\ ReviewInv
  BY <1>1, PipelineAssumption, NoReview DEF Init, ResultsInv, ReviewInv
<1>5. QED
  BY <1>2, <1>3, <1>4 DEF IInv

LEMMA PrepareInv == IInv /\ PrepareStep => IInv'
<1> SUFFICES ASSUME IInv, PrepareStep PROVE IInv'
  OBVIOUS
<1>0. TypeOK
  BY DEF IInv
<1>1. CASE Fetch
  <2>1. TypeOK'
    BY <1>1 DEF IInv, TypeOK, Fetch, Go, Fail, options, treeVars, stageVars, exitVars
  <2>2. TreeInv'
    BY <1>1 DEF IInv, TreeInv, Fetch, Go, Fail, treeVars, Prepared, Swapped
  <2>3. WorkspaceInv'
    BY <1>1 DEF IInv, WorkspaceInv, Fetch, Go, Fail, Reviewing
  <2>4. ResultsInv'
    BY <1>1 DEF IInv, ResultsInv, Running, Fetch, stageVars, Starting
  <2>5. ReviewInv'
    BY <1>1 DEF IInv, ReviewInv, Fetch, Go, Fail, treeVars, stageVars, exitVars,
       Starting
  <2> QED
    BY <2>1, <2>2, <2>3, <2>4, <2>5 DEF IInv
<1>2. CASE CleanBefore
  <2>1. TypeOK'
    BY <1>2, <1>0, Cleaned, ResetOnly DEF IInv, TypeOK, CleanBefore, Go, Fail, options,
       stageVars, exitVars
  <2>2. TreeInv'
    BY <1>2, <1>0, Cleaned, ResetOnly DEF IInv, TreeInv, Tracked, CleanBefore, Go, Fail,
       options, Prepared, Swapped
  <2>3. WorkspaceInv'
    BY <1>2, <1>0, Cleaned, ResetOnly DEF IInv, WorkspaceInv, CleanBefore, Go, Fail,
       Reviewing
  <2>4. ResultsInv'
    BY <1>2, <1>0, Cleaned, ResetOnly DEF IInv, ResultsInv, Running, CleanBefore,
       stageVars, Starting
  <2>5. ReviewInv'
    BY <1>2 DEF IInv, ReviewInv, CleanBefore, Go, Fail, stageVars, exitVars, Starting
  <2> QED
    BY <2>1, <2>2, <2>3, <2>4, <2>5 DEF IInv
<1>3. CASE CheckoutRemote
  <2>1. TypeOK'
    BY <1>3 DEF IInv, TypeOK, CheckoutRemote, Go, Fail, options, stageVars, exitVars
  <2>2. TreeInv'
    BY <1>3 DEF IInv, TreeInv, CheckoutRemote, Go, Fail, options, Prepared, Swapped
  <2>3. WorkspaceInv'
    BY <1>3 DEF IInv, WorkspaceInv, CheckoutRemote, Go, Fail, Reviewing
  <2>4. ResultsInv'
    BY <1>3 DEF IInv, ResultsInv, Running, CheckoutRemote, stageVars, Starting
  <2>5. ReviewInv'
    BY <1>3 DEF IInv, ReviewInv, CheckoutRemote, Go, Fail, stageVars, exitVars, Starting
  <2> QED
    BY <2>1, <2>2, <2>3, <2>4, <2>5 DEF IInv
<1>4. CASE PrepareDiff
  <2>1. TypeOK'
    BY <1>4 DEF IInv, TypeOK, Contents, PrepareDiff, Go, Fail, options, stageVars,
       exitVars
  <2>2. TreeInv'
    BY <1>4 DEF IInv, TypeOK, TreeInv, Files, Untracked, Tracked, PrepareDiff, Go, Fail,
       options, Prepared, Swapped
  <2>3. WorkspaceInv'
    BY <1>4 DEF IInv, WorkspaceInv, PrepareDiff, Go, Fail, options, Reviewing
  <2>4. ResultsInv'
    BY <1>4 DEF IInv, ResultsInv, Running, PrepareDiff, stageVars, Starting
  <2>5. ReviewInv'
    BY <1>4 DEF IInv, ReviewInv, PrepareDiff, Go, Fail, stageVars, exitVars, Starting
  <2> QED
    BY <2>1, <2>2, <2>3, <2>4, <2>5 DEF IInv
<1>5. CASE LoadReview
  <2>0. /\ review' = review \/ (review' \in Reviews /\ Sound(review'))
        /\ pc' = "publish" => Sound(review')
    <3>1. dumped \in Reviews /\ Sound(dumped)
      BY <1>0 DEF IInv, ReviewInv, TypeOK
    <3>2. LET r == [dumped EXCEPT !.kind = IF @ = "text" THEN "lost" ELSE @]
          IN  r \in Reviews /\ Sound(r)
      BY <3>1 DEF Reviews, Kinds, Sound
    <3> QED
      BY <1>5, <3>2 DEF LoadReview, Fail, Go
  <2>1. TypeOK'
    BY <1>5, <2>0 DEF IInv, TypeOK, LoadReview, Go, Fail, options, treeVars, exitVars
  <2>2. TreeInv'
    BY <1>5 DEF IInv, TreeInv, LoadReview, Go, Fail, treeVars, options, Prepared, Swapped
  <2>3. WorkspaceInv'
    BY <1>5 DEF IInv, WorkspaceInv, LoadReview, Go, Fail, options, exitVars, Reviewing
  <2>4. ResultsInv'
    BY <1>5 DEF IInv, ResultsInv, Running, LoadReview, Go, Fail, Starting
  <2>5. ReviewInv'
    <3>1. fast' = fast /\ fast
      BY <1>5 DEF IInv, WorkspaceInv, LoadReview, Go, Fail, options
    <3>2. serve = "none" /\ collected = {} /\ ~saved /\ ~published /\ Sound(dumped)
      BY <1>5 DEF IInv, ReviewInv, LoadReview, Starting
    <3>3. pc' \in {"publish", "cleanTree"}
      BY <1>5 DEF LoadReview, Go, Fail
    <3>4. UNCHANGED <<saved, published, serve, collected, dumped>>
      BY <1>5 DEF LoadReview, Fail, treeVars, exitVars
    <3>5. QED
      BY <2>0, <3>1, <3>2, <3>3, <3>4 DEF ReviewInv, Starting
  <2> QED
    BY <2>1, <2>2, <2>3, <2>4, <2>5 DEF IInv
<1> QED
  BY <1>1, <1>2, <1>3, <1>4, <1>5 DEF PrepareStep

LEMMA RuntimeInv == IInv /\ RuntimeStep => IInv'
<1> SUFFICES ASSUME IInv, RuntimeStep PROVE IInv'
  OBVIOUS
<1>0. TypeOK
  BY DEF IInv
<1>1. CASE NewReviewerWorkspace
  <2>1. TypeOK'
    BY <1>1 DEF IInv, TypeOK, Contents, Files, Untracked, NewReviewerWorkspace, Go,
       Fail, options, treeVars, stageVars, exitVars
  <2>2. TreeInv'
    BY <1>1 DEF IInv, TreeInv, NewReviewerWorkspace, Go, Fail, options, treeVars,
       Prepared, Swapped
  <2>3. WorkspaceInv'
    BY <1>1 DEF IInv, WorkspaceInv, NewReviewerWorkspace, Go, Fail, options, Reviewing
  <2>4. ResultsInv'
    BY <1>1 DEF IInv, ResultsInv, Running, NewReviewerWorkspace, stageVars, Starting
  <2>5. ReviewInv'
    BY <1>1 DEF IInv, ReviewInv, NewReviewerWorkspace, Go, Fail, treeVars, stageVars,
       exitVars, Starting
  <2> QED
    BY <2>1, <2>2, <2>3, <2>4, <2>5 DEF IInv
<1>2. CASE NewFinalizerWorkspace
  <2>1. TypeOK'
    BY <1>2 DEF IInv, TypeOK, Contents, Files, Untracked, NewFinalizerWorkspace, Go,
       Fail, options, treeVars, stageVars, exitVars
  <2>2. TreeInv'
    BY <1>2 DEF IInv, TreeInv, NewFinalizerWorkspace, Go, Fail, options, treeVars,
       Prepared, Swapped
  <2>3. WorkspaceInv'
    BY <1>2 DEF IInv, WorkspaceInv, NewFinalizerWorkspace, Go, Fail, options, Reviewing
  <2>4. ResultsInv'
    BY <1>2 DEF IInv, ResultsInv, Running, NewFinalizerWorkspace, stageVars, Starting
  <2>5. ReviewInv'
    BY <1>2 DEF IInv, ReviewInv, NewFinalizerWorkspace, Go, Fail, treeVars, stageVars,
       exitVars, Starting
  <2> QED
    BY <2>1, <2>2, <2>3, <2>4, <2>5 DEF IInv
<1>3. CASE SwapAgentsMD
  <2>1. TypeOK'
    <3>1. tree' \in [Files -> Contents]
      BY <1>0, <1>3, EmptiedFiles DEF SwapAgentsMD
    <3>2. QED
      BY <1>0, <1>3, <3>1 DEF TypeOK, SwapAgentsMD, Go, Fail, options, stageVars,
         exitVars
  <2>2. TreeInv'
    BY <1>0, <1>3, EmptiedFiles DEF IInv, TreeInv, SwapAgentsMD, Go, Fail, options,
       Prepared, Swapped
  <2>3. WorkspaceInv'
    BY <1>3 DEF IInv, WorkspaceInv, SwapAgentsMD, Go, Fail, options, Reviewing
  <2>4. ResultsInv'
    BY <1>3 DEF IInv, ResultsInv, Running, SwapAgentsMD, stageVars, Starting
  <2>5. ReviewInv'
    BY <1>0, <1>3, EmptiedFiles DEF IInv, ReviewInv, SwapAgentsMD, Go, Fail, stageVars,
       exitVars, Starting
  <2> QED
    BY <2>1, <2>2, <2>3, <2>4, <2>5 DEF IInv
<1> QED
  BY <1>1, <1>2, <1>3 DEF RuntimeStep

LEMMA StageInv == IInv /\ StageStep => IInv'
<1> SUFFICES ASSUME IInv, StageStep PROVE IInv'
  OBVIOUS
<1>0. TypeOK
  BY DEF IInv
<1>1. CASE StartReviewers
  <2>1. TypeOK'
    BY <1>1 DEF IInv, TypeOK, Contents, Files, Untracked, StartReviewers, Go, Fail,
       options, exitVars
  <2>2. TreeInv'
    BY <1>1 DEF IInv, TreeInv, AgentFiles, StartReviewers, Go, Fail, options, Prepared,
       Swapped
  <2>3. WorkspaceInv'
    BY <1>1 DEF IInv, WorkspaceInv, StartReviewers, Go, Fail, options, Reviewing
  <2>4. ResultsInv'
    <3>1. Running' \subseteq 1..Prompts
      BY DEF Running
    <3>2. Cardinality(Running') <= Prompts /\ Cardinality(Running') \in Nat
      BY <3>1, PromptsFinite
    <3>3. received' = 0 /\ resultsCh' = <<>> /\ pc' \notin Starting
      BY <1>1 DEF IInv, ResultsInv, Starting, StartReviewers, Go, Fail
    <3>4. received' + Len(resultsCh') + Cardinality(Running') <= Prompts
      BY <3>2, <3>3
    <3>5. QED
      BY <3>3, <3>4 DEF ResultsInv
  <2>5. ReviewInv'
    BY <1>1 DEF IInv, ReviewInv, StartReviewers, Go, Fail, exitVars, Starting
  <2> QED
    BY <2>1, <2>2, <2>3, <2>4, <2>5 DEF IInv
<1>2. CASE CollectResult
  <2>1. TypeOK'
    <3>1. /\ Head(resultsCh) \in 1..Prompts /\ Tail(resultsCh) \in Seq(1..Prompts)
          /\ Len(Tail(resultsCh)) <= Prompts /\ received + 1 \in 0..Prompts
      BY <1>0, <1>2, PipelineAssumption DEF TypeOK, CollectResult
    <3>2. collected' \subseteq 1..Prompts
      BY <1>0, <1>2, <3>1 DEF TypeOK, CollectResult
    <3>3. QED
      BY <1>0, <1>2, <3>1, <3>2 DEF TypeOK, CollectResult, options, treeVars, exitVars
  <2>2. TreeInv'
    BY <1>2 DEF IInv, TreeInv, CollectResult, options, treeVars
  <2>3. WorkspaceInv'
    BY <1>2 DEF IInv, WorkspaceInv, CollectResult, options
  <2>4. ResultsInv'
    <3>1. Running' = Running /\ Cardinality(Running) \in Nat
      BY <1>2, PromptsFinite DEF Running, CollectResult
    <3>2. Len(resultsCh') = Len(resultsCh) - 1 /\ received' = received + 1 /\ pc' \notin Starting
      BY <1>0, <1>2 DEF CollectResult, Starting
    <3>3. received + Len(resultsCh) + Cardinality(Running) <= Prompts
      BY DEF IInv, ResultsInv
    <3>4. received \in Nat /\ Len(resultsCh) \in Nat /\ Prompts \in Nat
      BY <1>0, PipelineAssumption DEF TypeOK
    <3>5. received' + Len(resultsCh') + Cardinality(Running') <= Prompts
      BY <3>1, <3>2, <3>3, <3>4
    <3>6. QED
      BY <3>2, <3>5 DEF ResultsInv
  <2>5. ReviewInv'
    BY <1>2 DEF IInv, ReviewInv, CollectResult, options, treeVars, exitVars, Starting
  <2> QED
    BY <2>1, <2>2, <2>3, <2>4, <2>5 DEF IInv
<1>3. CASE ReviewersDone
  <2>1. TypeOK'
    BY <1>3, AllCollected DEF IInv, TypeOK, ReviewersDone, Go, Fail, options, treeVars,
       exitVars
  <2>2. TreeInv'
    BY <1>3, AllCollected DEF IInv, TreeInv, ReviewersDone, Go, Fail, options, treeVars,
       Prepared, Swapped
  <2>3. WorkspaceInv'
    BY <1>3, AllCollected DEF IInv, WorkspaceInv, ReviewersDone, Go, Fail, options,
       Reviewing
  <2>4. ResultsInv'
    BY <1>3, AllCollected DEF IInv, ResultsInv, Running, ReviewersDone, Go, Fail,
       Starting
  <2>5. ReviewInv'
    BY <1>3, AllCollected DEF IInv, TypeOK, ReviewInv, ReviewersDone, Go, Fail, options,
       treeVars, exitVars, Starting
  <2> QED
    BY <2>1, <2>2, <2>3, <2>4, <2>5 DEF IInv
<1>4. CASE StartFinalizer
  <2>1. TypeOK'
    BY <1>4 DEF IInv, TypeOK, StartFinalizer, Go, Fail, options, treeVars, exitVars
  <2>2. TreeInv'
    BY <1>4 DEF IInv, TreeInv, StartFinalizer, Go, Fail, options, treeVars, Prepared,
       Swapped
  <2>3. WorkspaceInv'
    BY <1>4 DEF IInv, WorkspaceInv, StartFinalizer, Go, Fail, options, Reviewing
  <2>4. ResultsInv'
    BY <1>4 DEF IInv, ResultsInv, Running, StartFinalizer, Go, Fail, Starting
  <2>5. ReviewInv'
    BY <1>4 DEF IInv, ReviewInv, StartFinalizer, Go, Fail, options, treeVars, exitVars,
       Starting
  <2> QED
    BY <2>1, <2>2, <2>3, <2>4, <2>5 DEF IInv
<1>5. CASE FinalizerEnds
  <2>0. collected = 1..Prompts /\ ~published /\ Whole(InPromptOrder(collected))
    BY <1>5, AllInOrder DEF IInv, ReviewInv, FinalizerEnds
  <2>6. \/ /\ review' \in Reviews /\ Sound(review') /\ review'.kind \in {"findings", "text"}
           /\ Go("dump") /\ UNCHANGED exitVars
        \/ UNCHANGED review /\ Fail("cleanRuntime")
    <3>1. CASE \E origin \in SUBSET collected : \E sources \in SUBSET {names[i] : i \in origin} :
                 review' = ApplyFindingProvenance(
                             Review("findings", InPromptOrder(collected), origin), sources)
      <4>1. PICK origin \in SUBSET collected : \E sources \in SUBSET {names[i] : i \in origin} :
                 review' = ApplyFindingProvenance(
                             Review("findings", InPromptOrder(collected), origin), sources)
        BY <3>1
      <4>2. PICK sources \in SUBSET {names[i] : i \in origin} :
                 review' = ApplyFindingProvenance(
                             Review("findings", InPromptOrder(collected), origin), sources)
        BY <4>1
      <4>3. review' \in Reviews /\ Sound(review') /\ review'.kind = "findings"
        BY <2>0, <4>2, ProvenanceSound
      <4> QED
        BY <1>5, <3>1, <4>3 DEF FinalizerEnds
    <3>2. CASE review' = Review("text", InPromptOrder(collected), {})
      BY <1>5, <2>0, <3>2, TextSound DEF FinalizerEnds, Review
    <3> QED
      BY <1>5, <3>1, <3>2 DEF FinalizerEnds
  <2>1. TypeOK'
    BY <1>0, <1>5, <2>6 DEF TypeOK, FinalizerEnds, Go, Fail, options, treeVars, exitVars
  <2>2. TreeInv'
    BY <1>5, <2>6 DEF IInv, TreeInv, FinalizerEnds, Go, Fail, options, treeVars, Prepared,
       Swapped
  <2>3. WorkspaceInv'
    BY <1>5, <2>6 DEF IInv, WorkspaceInv, FinalizerEnds, Go, Fail, options, Reviewing
  <2>4. ResultsInv'
    BY <1>5, <2>6 DEF IInv, ResultsInv, Running, FinalizerEnds, Go, Fail, Starting
  <2>5. ReviewInv'
    BY <1>5, <2>0, <2>6 DEF IInv, ReviewInv, FinalizerEnds, Go, Fail, options, treeVars,
       exitVars, Starting
  <2> QED
    BY <2>1, <2>2, <2>3, <2>4, <2>5 DEF IInv
<1> QED
  BY <1>1, <1>2, <1>3, <1>4, <1>5 DEF StageStep

LEMMA ReportInv == IInv /\ ReportStep => IInv'
<1> SUFFICES ASSUME IInv, ReportStep PROVE IInv'
  OBVIOUS
<1>0. TypeOK
  BY DEF IInv
<1>1. CASE SaveReview
  <2>1. TypeOK'
    BY <1>1 DEF IInv, TypeOK, Contents, SaveReview, Go, options, stageVars
  <2>2. TreeInv'
    BY <1>1 DEF IInv, TreeInv, SaveReview, Go, Prepared, Swapped
  <2>3. WorkspaceInv'
    BY <1>1 DEF IInv, WorkspaceInv, SaveReview, Go, options, Reviewing
  <2>4. ResultsInv'
    BY <1>1 DEF IInv, ResultsInv, Running, SaveReview, Go, stageVars, Starting
  <2>5. ReviewInv'
    BY <1>1 DEF IInv, TypeOK, ReviewInv, Files, Untracked, SaveReview, Go, options,
       stageVars, Starting
  <2> QED
    BY <2>1, <2>2, <2>3, <2>4, <2>5 DEF IInv
<1>2. CASE PublishReview
  <2>1. TypeOK'
    BY <1>2 DEF IInv, TypeOK, PublishReview, Go, options, treeVars, stageVars
  <2>2. TreeInv'
    BY <1>2 DEF IInv, TreeInv, PublishReview, Go, Prepared, Swapped
  <2>3. WorkspaceInv'
    BY <1>2 DEF IInv, WorkspaceInv, PublishReview, Go, Reviewing
  <2>4. ResultsInv'
    BY <1>2 DEF IInv, ResultsInv, Running, PublishReview, Go, stageVars, Starting
  <2>5. ReviewInv'
    BY <1>2 DEF IInv, ReviewInv, PublishReview, Go, options, treeVars, stageVars,
       Starting
  <2> QED
    BY <2>1, <2>2, <2>3, <2>4, <2>5 DEF IInv
<1> QED
  BY <1>1, <1>2 DEF ReportStep

LEMMA ExitInv == IInv /\ ExitStep => IInv'
<1> SUFFICES ASSUME IInv, ExitStep PROVE IInv'
  OBVIOUS
<1>0. TypeOK
  BY DEF IInv
<1>1. CASE CleanupRuntime
  <2>1. TypeOK'
    BY <1>1 DEF IInv, TypeOK, CleanupRuntime, Go, options, treeVars, stageVars
  <2>2. TreeInv'
    BY <1>1 DEF IInv, TreeInv, CleanupRuntime, Go, Prepared, Swapped
  <2>3. WorkspaceInv'
    BY <1>1 DEF IInv, WorkspaceInv, CleanupRuntime, Go, Reviewing
  <2>4. ResultsInv'
    BY <1>1 DEF IInv, ResultsInv, Running, CleanupRuntime, Go, stageVars, Starting
  <2>5. ReviewInv'
    BY <1>1 DEF IInv, ReviewInv, CleanupRuntime, Go, options, treeVars, stageVars,
       Starting
  <2> QED
    BY <2>1, <2>2, <2>3, <2>4, <2>5 DEF IInv
<1>2. CASE CleanAfter
  <2>1. TypeOK'
    <3>1. tree' \in [Files -> Contents]
      BY <1>0, <1>2, Cleaned, ResetOnly DEF CleanAfter, TypeOK
    <3>2. QED
      BY <1>0, <1>2, <3>1 DEF TypeOK, CleanAfter, Go, options, stageVars
  <2>2. TreeInv'
    BY <1>2, <1>0, Cleaned, ResetOnly DEF IInv, TreeInv, CleanAfter, Go, Prepared,
       Swapped
  <2>3. WorkspaceInv'
    BY <1>2, <1>0, Cleaned, ResetOnly DEF IInv, WorkspaceInv, CleanAfter, Go, Reviewing
  <2>4. ResultsInv'
    BY <1>2, <1>0, Cleaned, ResetOnly DEF IInv, ResultsInv, Running, CleanAfter, Go,
       stageVars, Starting
  <2>5. ReviewInv'
    BY <1>2, <1>0, Cleaned, ResetOnly DEF IInv, ReviewInv, Untracked, CleanAfter, Go,
       options, stageVars, Starting
  <2> QED
    BY <2>1, <2>2, <2>3, <2>4, <2>5 DEF IInv
<1> QED
  BY <1>1, <1>2 DEF ExitStep

\* A session that ends moves from Running to the channel.
LEMMA SessionInv == ASSUME IInv, NEW i \in 1..Prompts, SessionEnds(i) PROVE IInv'
<1>0. TypeOK
  BY DEF IInv
<1>1. Running' = Running \ {i} /\ i \in Running
  BY <1>0 DEF SessionEnds, Running, TypeOK
<1>2. /\ Cardinality(Running) \in Nat /\ Cardinality(Running') = Cardinality(Running) - 1
      /\ Cardinality(Running') \in Nat
  <2>1. IsFiniteSet(Running) /\ Cardinality(Running) \in Nat
    BY PromptsFinite DEF Running
  <2>2. Cardinality(Running') = Cardinality(Running) - 1
    BY <1>1, <2>1, FS_RemoveElement
  <2>3. Running' \in SUBSET (1..Prompts)
    BY DEF Running
  <2>4. QED
    BY <2>1, <2>2, <2>3, PromptsFinite
<1>3. /\ resultsCh' = Append(resultsCh, i) /\ resultsCh' \in Seq(1..Prompts)
      /\ Len(resultsCh') = Len(resultsCh) + 1 /\ Len(resultsCh) \in Nat
  BY <1>0 DEF SessionEnds, TypeOK
<1>4. received' + Len(resultsCh') + Cardinality(Running') <= Prompts /\ Len(resultsCh') <= Prompts
  <2>1. received + Len(resultsCh) + Cardinality(Running) <= Prompts
    BY DEF IInv, ResultsInv
  <2>2. received \in Nat /\ received' = received /\ Prompts \in Nat
    BY <1>0, PipelineAssumption DEF TypeOK, SessionEnds
  <2>3. QED
    BY <1>2, <1>3, <2>1, <2>2
<1>5. pc \notin Starting /\ pc' = pc
  BY <1>1 DEF SessionEnds, IInv, ResultsInv
<1>6. TypeOK'
  <2>1. sessions' \in [1..Prompts -> {"idle", "running", "ok", "failed"}]
    BY <1>0 DEF TypeOK, SessionEnds
  <2>3. names' \in [1..Prompts -> Names \cup {NoName}]
    BY <1>0 DEF TypeOK, SessionEnds
  <2>2. QED
    BY <1>0, <1>3, <1>4, <2>1, <2>3 DEF TypeOK, SessionEnds, options, treeVars, exitVars
<1>7. TreeInv' /\ WorkspaceInv'
  BY DEF IInv, TreeInv, WorkspaceInv, SessionEnds, options, treeVars, exitVars
<1>8. ResultsInv'
  BY <1>4, <1>5 DEF ResultsInv
<1>9. ReviewInv'
  BY DEF IInv, ReviewInv, SessionEnds, options, treeVars, exitVars
<1> QED
  BY <1>6, <1>7, <1>8, <1>9 DEF IInv

LEMMA KilledInv == IInv /\ Killed => IInv'
<1> SUFFICES ASSUME IInv, Killed PROVE IInv'
  OBVIOUS
<1>0. TypeOK
  BY DEF IInv
<1>1. Running' = {} /\ Cardinality({}) = 0
  BY FS_EmptySet DEF Killed, Running
<1>2. TypeOK'
  <2>1. tree' \in [Files -> Contents]
    BY <1>0 DEF TypeOK, Killed, Contents
  <2>2. received' \in 0..Prompts /\ Prompts \in Nat
    BY PipelineAssumption DEF Killed
  <2>3. resultsCh' \in Seq(1..Prompts) /\ Len(resultsCh') = 0
    BY DEF Killed
  <2>4. Len(resultsCh') <= Prompts
    BY <2>2, <2>3
  <2>5. QED
    BY <1>0, <2>1, <2>2, <2>3, <2>4 DEF TypeOK, Killed, options, exitVars
<1>3. TreeInv' /\ WorkspaceInv'
  BY DEF TreeInv, WorkspaceInv, Killed, Prepared, Swapped, Reviewing
<1>4. ResultsInv'
  BY <1>1, PipelineAssumption DEF ResultsInv, Killed, Starting
<1>5. ReviewInv'
  BY <1>0 DEF IInv, TypeOK, ReviewInv, Killed, Starting, options, exitVars
<1> QED
  BY <1>2, <1>3, <1>4, <1>5 DEF IInv

LEMMA NextRunInv == IInv /\ NextRun => IInv'
<1> SUFFICES ASSUME IInv, NextRun PROVE IInv'
  OBVIOUS
<1>0. TypeOK
  BY DEF IInv
<1>1. Running' = {} /\ Cardinality({}) = 0
  BY FS_EmptySet DEF NextRun, Running
<1>2. TypeOK'
  <2>1. tree' \in [Files -> Contents]
    BY <1>0 DEF TypeOK, NextRun, Contents
  <2>2. runs' \in 1..MaxRuns /\ received' \in 0..Prompts /\ Prompts \in Nat
    BY <1>0, PipelineAssumption DEF TypeOK, NextRun
  <2>3. resultsCh' \in Seq(1..Prompts) /\ Len(resultsCh') = 0 /\ review' \in Reviews
    BY NoReview DEF NextRun
  <2>4. Len(resultsCh') <= Prompts
    BY <2>2, <2>3
  <2>5. QED
    BY <1>0, <2>1, <2>2, <2>3, <2>4 DEF TypeOK, NextRun
<1>3. TreeInv' /\ WorkspaceInv'
  BY DEF TreeInv, WorkspaceInv, NextRun, Prepared, Swapped, Reviewing
<1>4. ResultsInv' /\ ReviewInv'
  BY <1>1, PipelineAssumption DEF IInv, ResultsInv, ReviewInv, NextRun
<1> QED
  BY <1>2, <1>3, <1>4 DEF IInv

LEMMA StutterInv == IInv /\ UNCHANGED vars => IInv'
<1> SUFFICES ASSUME IInv, UNCHANGED vars PROVE IInv'
  OBVIOUS
<1> USE DEF IInv, vars, options, treeVars, stageVars, exitVars
<1>1. TypeOK'
  BY DEF TypeOK
<1>2. TreeInv' /\ WorkspaceInv' /\ ReviewInv'
  BY DEF TreeInv, WorkspaceInv, ReviewInv
<1>3. ResultsInv'
  BY DEF ResultsInv, Running
<1> QED
  BY <1>1, <1>2, <1>3

LEMMA NextInv == IInv /\ [Next]_vars => IInv'
BY PrepareInv, RuntimeInv, StageInv, ReportInv, ExitInv, SessionInv, KilledInv, NextRunInv,
   StutterInv DEF Next, PipelineStep, Stopped

LEMMA Invariant == Spec => []IInv
BY InitInv, NextInv, PTL DEF Spec

----------------------------------------------------------------------------
\* TypeOK: the results on the channel never exceed its capacity, one per prompt, so a
\* session that ends never waits for a collector that has gone.
THEOREM TypeCorrect == Spec => []TypeOK
<1>1. IInv => TypeOK
  BY DEF IInv
<1>2. QED
  BY <1>1, Invariant, PTL

\* The sessions work in the branch as fetched, without the project's instructions and
\* without anything an earlier run, killed or not, has left (git clean, then Swap).
THEOREM SessionsSeeTheBranchCorrect == Spec => []SessionsSeeTheBranch
<1>1. IInv => SessionsSeeTheBranch
  BY DEF IInv, TreeInv, SessionsSeeTheBranch, Prepared, Swapped
<1>2. QED
  BY <1>1, Invariant, PTL

\* Nothing partial is published, now or from a dump: every session succeeded and the
\* finalizer was given their results in the order of the prompts, however the sessions
\* interleaved and whichever runs were killed.
THEOREM PublishedIsWholeCorrect == Spec => []PublishedIsWhole
<1>1. IInv => PublishedIsWhole
  BY DEF IInv, ReviewInv, Sound, PublishedIsWhole
<1>2. QED
  BY <1>1, Invariant, PTL

\* applyFindingProvenance credits a finding to review messages it came from, or to all,
\* whatever names the reviewers choose, and a replay repeats that.
THEOREM CreditedToItsSourcesCorrect == Spec => []CreditedToItsSources
<1>1. IInv => CreditedToItsSources
  BY DEF IInv, ReviewInv, Sound, CreditedToItsSources
<1>2. QED
  BY <1>1, Invariant, PTL

\* When Run returns, the deferred calls have undone what it did, unless one of them failed.
THEOREM RunLeavesNothingCorrect == Spec => []RunLeavesNothing
<1>1. IInv => RunLeavesNothing
  <2> SUFFICES ASSUME IInv PROVE RunLeavesNothing
    OBVIOUS
  <2>1. Cardinality(collected) > 0 => collected /= {}
    BY FS_EmptySet
  <2>2. QED
    BY <2>1 DEF IInv, TreeInv, WorkspaceInv, ReviewInv, RunLeavesNothing
<1>2. QED
  BY <1>1, Invariant, PTL
============================================================================
