# TLA+ models of opencode-reviewer

opencode-reviewer reviews a GitLab merge request with LLM agents: it prepares a
checkout, starts an `opencode serve` process, runs one agent session per review
prompt in parallel, lets a finalizer session merge the results, and publishes
the findings as notes of the merge request. A second program, comment-warrior,
answers the discussions that follow. This directory holds TLA+ models of the
parts that keep state, run concurrently or can fail half way, the TLC
configurations that check them, and TLAPS proofs about all seven that have
actions.

    tlc -workers 2 -config MCRunSession.cfg MCRunSession     # one check
    tlapm RunSession_proofs.tla                              # one proof module

`PROJECT.json` maps every definition to the lines it models and lists the
runs, the mutants (a plausible bug per property, which TLC must find), the
hazards and the theorems. All paths below are relative to the repository.

## 1. Inventory

| Part (source) | State it keeps | Operations and interactions | What makes it correct |
|---|---|---|---|
| Runner session (`internal/shared/runner/run_session.go`) | attempt, four error counters, model index, the session, result channel | posts prompts, waits for the SSE result, retries, switches models, falls back to JSON; starts the SSE goroutine, the forwarder and the poller | bounded retries; ordered, complete shutdown; one terminal event; always ends |
| SSE client (`internal/shared/sse`) | known sessions, the stream | reads `GET /event`, forwards tool calls without blocking, returns the expected call | the result is not lost or reordered, the queue is bounded |
| Serve lifecycle (`runner.go`, `pipeline/serve_fallback.go`) | `r.proc`, `r.procDone`, `r.baseURL`, attempt | launch, health check, retry, precheck of the model chain, stop | no server is forgotten; the right server is used; every wait ends |
| Review pipeline (`internal/review/pipeline`) | stages, workspaces, diff, dump, checkout | prepare, diff, workspaces, swap, reviewers, finalizer, dump, publish, deferred clean-ups | the agents read the branch; only whole reviews are published; nothing is left behind |
| Git checkout, swapper (`shared/git`, `review/agentsmd`) | files of the checkout | fetch, reset and clean, checkout; empty the agents files, but for those in directories like `vendor` | what was overwritten is restored; a session meets no agents file but the branch's own in those directories |
| Provenance, dump and replay (`pipeline/provenance.go`, `pipeline.go`) | names the reviewers give themselves; the dump file | credit a finding to review messages; write the dump, replay it with `--fast-review` | no finding is credited to a message it did not come from; a torn dump is not published |
| Commands and settings (`cmd/*/main.go`, `shared/config`, `shared/configdir`, `shared/envconfig`, the `*config` packages) | none, read once | flags, environment, `[env]` section, TOML, GitLab's variables, files of the config directory | the documented priority; the directory of the branch; one model chain in both places |
| Diff preparation (`shared/diff`) | `.opencode-review/diff.md` | split, parse, filter, sort, write | the file shows the diff, each file once |
| Workspaces, loaders (`shared/workspace`, `review/runtime`, `commentwarrior/runtime`, `shared/subagentconfig`) | temporary XDG directories | write two (or one) file by file, rewrite the sub-agents, remove them | complete when a session starts; sub-agents cannot end the review; no leak on partial failure |
| Comment warrior (`internal/commentwarrior`) | a snapshot of the discussions | list, classify, decide, reply, set the flag; everything it knows is read back from GitLab | does not answer itself, explains before it closes, answers mentions |
| GitLab client and publisher (`shared/vcs/gitlab`) | page, counts | find the MR, clear old comments by page, post summary, fallback and inline notes | takes only its own old comments, posts once, ends |
| Finding placement (`shared/vcs/normalizer.go`, `mapper.go`) | numbered diff lines | parse the section of a file; find the file a path means; move a finding to its quoted code, for the summary and for the inline note | the numbers are those of the file; the note stands on the quoted line, on the right side, of the closest file; both places agree |
| Formats and markers, statistics, parsers, tools and images | none | pure functions, build files | not modelled, see section 6 |

Interactions: the pipeline runs two stages, each of which drives a Runner (one
server process) and that Runner's sessions; the sessions talk to the server by
posts and by its event stream; the pipeline hands the review to the placement
and the publisher; the comment warrior drives a Runner of its own and meets the
publisher only through the notes and markers on GitLab.

Hard behaviours: five goroutines and a server around one channel; deadlines that race with late
answers; processes that ignore signals; clean-up after partial failure or a
kill; requests whose answer is lost; snapshots that people change; names
chosen in parallel; line counters over many hunks; the same setting in six
places. `PROJECT.json` lists them one by one under
`hazards`, at the line where each bites.

## 2. Modules

| Module | Models | Composition |
|---|---|---|
| `RunContract` | what `Runner.Run` promises the loop that ranges over its channel | abstract specification |
| `RunSession` | one call of `Run` with its goroutines, caller and server | refines `RunContract` (`phase` is read off the program counter) |
| `ServeLifecycle` | the servers of the stages, as processes | |
| `ReviewPipeline` | `Pipeline.Run` and the checkout over several runs | one step per server start and session, which `ServeLifecycle` and `RunSession` spell out |
| `RunPreparation` | one start of either program: what comes before the first session, and the way back | spells out the steps of `ReviewPipeline` up to `swap`; extends the next three |
| `Settings`, `SubAgentFiles`, `ReviewDiff` | operators: settings, front matter, the diff | |
| `CommentWarrior` | runs of the bot and the discussions on GitLab | |
| `PublicationContract` | what a publication may do to the threads of a merge request | abstract specification |
| `MergeRequestNotes` | `Publisher.Publish` and the threads on GitLab, request by request | refines `PublicationContract`; receives the findings of `FindingPlacement`, by whether they are in the diff |
| `FindingPlacement` | one section of a diff, its parser, one finding | extends the next |
| `PathResolution` | operators: the file a path means | |
| `MC*` | the instances for TLC | |
| `*_proofs` | theorems and proofs | each extends the module it is about |
| `RunPreparationLemmas` | what the operators of `RunPreparation` return | used by `RunPreparation_proofs` |

Definitions whose comment begins with "Bug:" are mutants: they take part in no
specification.

### RunSession

`pc` is where the driving goroutine (`execute`) is: `create`, `send`,
`sending` (the post), `awaiting` (the `select`), `joinSend`/`join` (after
`attemptCancel`, at `<-tcDone`), `fallback`, `stopping` (`pollCancel`, at
`<-pollDone`), `settle` (abort and delete), `emit`, `close`, `closed`. The
retry loop is one action per way an attempt can go (`RetryCodeError`,
`SwitchModel`, `CodeErrorsExhausted`, `RetryTransientError`, `ToolMissed`,
`AttemptFatal`, `SchemaInvalid`, `ToolResultAccepted`). `sse`, `sseCh`,
`events`, `fwd` and `poller` are the other goroutines and their channels, `out`
and `consumer` the channel of `Run` and the loop in `collectRunResult` or
`runDecision`. The server is the environment: it may accept a prompt, work on
after the post has failed, publish any event the client tells apart at any
time, including a `session.error` that belongs to another session, spawn a
child session, and never answer. Events published before the subscription are
lost. `attemptCtx` is derived (`AttemptCancelled`), as in the code. `call`
records what became of the expected tool call, for `ResultShownFirst`.

### ServeLifecycle

A server is the number of its launch. `cur` is `r.proc`; `done` holds the
`procDone` channels with a value; `leader`, `child`, `killed` are the processes:
a server may crash, be slow, ignore SIGINT, or leave a listening child in its
group. `baseURL` is the port of the latest launch, `port` that of each process:
`AllocatePort` gives out the configured port or any on which nobody listens just
then, and the server binds it later (`Boot`) or exits because it is taken. Other
programs (`strangers`) bind ports too, be it one that was just given to a launch.
`HealthOk` asks who listens on the port, as the code does. `disturbed` records
that somebody else has bound the port between the two steps, the window that
nothing in the code closes; `HealthyMeansOurs` speaks of the other cases. `pc` follows
`startServeSubprocessWithRetries`, `waitHealthy`, `killAndWait`,
`precheckModelChain` and `StopServe`. `logFile` is `r.logFile`, one field for
all launches of a Runner, which the waiter of any launch closes (`Reap`);
`logs` are the files that are open, `hasLog` the servers started with one.
`LogsFollowServers` says what holds as long as no launch was given up on.

### ReviewPipeline

The checkout is a function from kinds of files (tracked sources and agents
files, agents files hidden by .gitignore or made by the swapper, the diff
context, the logs, the dump) to their content. The swapper's walk passes over
directories by their name (`heavyDirs`: `vendor`, `node_modules`, `build`, ...) and
over symlinks below the root: `skippedAgents` and `dependencyAgents` are the agents
files it leaves, which a session finds as the branch (or the owner's build) has
them. In the root `os.WriteFile` goes through a symlink and empties its target,
so that `agents` stands for that too. `Reset` and `RemoveUntracked`
are `git reset --hard` and `git clean -fd -e`. The deferred calls are states of
`pc`, entered exactly when the code has registered them: a failure before the
end of `PrepareRepository` skips the final clean. A clean-up that fails sets
`dirty`; that of the loader's own way out (`loader.go:187`) and the switch that
keeps the workspaces (`workspace.go:156`) are in `RunPreparation` only. `Killed` may happen anywhere;
`NextRun` starts again in the checkout that was left, with options of its own.

A review (`review`, and `dumped` for the one in the dump file) is the results
the finalizer was given, in order, and, for one of its findings, the prompts it
came from (`origin`, which the code does not know) and those it is credited to
(`refs`, `fallback`). `names` are the names the reviewers gave themselves;
`ApplyFindingProvenance` translates `applyFindingProvenance`: several reviewers
of one name make a source ambiguous, and then the finding is credited to all.
The dump is written in place, so that a failed write or a kill leaves it torn;
`LoadReview` refuses a torn one and reads an older whole one.

### Settings, SubAgentFiles, ReviewDiff, RunPreparation

A setting is where its value comes from and what it is like ("unset", "junk",
"zero", "good", ...), never its text. `Settings` translates, one operator each,
the ways the two commands read scalars (`Setting`), prompts, messages and the
provider (`Effective`), the config directory (`ConfigDir`) and the models
(`ModelChain`, on names that may have blanks around them). `SubAgentFiles`
translates `ensureToolRestrictions`, which searches and rewrites text. A front
matter is the form of its `tools` entry (a map or a list, indented by the two
columns the code counts on or otherwise, or in braces), the permissions in it,
and the texts outside the entry that the search would take for a denial
(`submit_review: false` in a description), for the entry (`tools:` in a comment) or
for a list. `ReviewDiff` prints what git prints for a list
of files (`DiffFile`, an assumption on the inputs), then cuts, parses, sorts and
writes it as `internal/shared/diff` does: the marker is looked for in the middle
of lines too. Lines of code that begin with "++" or "--" come in two kinds, with a
blank after that and without, since the code asks for the blank in one place and
not in the other; paths may be in quotes or have " b/" in them. A loop that takes some elements of a list, or cuts it at some of
its places, is stated by the set of those places: `Nth(T, k)` is place number k of
T, `Only(s, T)` what s has at them, so that lists of any length can be reasoned
about. The context file is looked at when the sessions start (`pc = "sessions"`),
since that is when it is read.

`RunPreparation` is the sequential program around them, for both commands:
configuration, checkout, diff, config directory, files, binary, and the
workspaces file by file, with an error exit at each. `input` is one of the
inputs and never changes. The properties compare with rankings written from the
documentation (`ScalarRank`, `FileRank`), not with the operators again.

### CommentWarrior

A discussion is a sequence of notes, each with its author and what the
classifier looks for (finding, reply, closure-confirmed marker, `#ai`, system).
The operators translate `classifier.go` one function each. `listed` and `items`
are snapshots, functions from the discussions that were listed to what they
were then: every decision is made on them, while `PersonWrites`,
`PersonToggles` and `SystemNote` go on. Any step of a run may fail, and every
request may succeed with its answer lost.

### MergeRequestNotes

Threads are a function of their ids, which are also the listing order. A page
is the next `PageSize` ids that are left, so deleting the only note of a thread
shifts the pages behind it. Each request is an action with three outcomes: done,
failed, done with the answer lost. People answer, resolve and open threads in
between.

`PublicationContract` keeps of it what a reader of the merge request sees: the
threads of earlier reviews, those of others, and the notes of the review with
their place. It takes an earlier comment only until the summary stands, and adds
findings in their order, leaving some out and repeating none. The mapping reads
the three off the kinds of the first notes; pages, failures and `pc` have no
counterpart.

### FindingPlacement

The environment is git: it writes the section of one file line by line, in the
order git allows (`MayFollow`), and knows the real line numbers (`fileOld`,
`fileNew`). The parser keeps `oldNum`, `newNum` and `result` as
`parseDiffLines` does, with its special cases: content that looks like a header
is skipped, "\ No newline at end of file" and the line git writes for binary
files are counted as context, and so is the empty string after the last newline.
`shown` records the lines of the file that the section shows, by git's numbers,
and `lagging` the numbers the parser gave after it had skipped or made up a line
in the same hunk: `OnTheCode` compares a comment with the former and claims
nothing for the latter.
The search operators translate `verifyAtPosition`, `searchAndCorrect` and their
copies for inline comments.

The diff has a few files besides the one that is parsed. `ResolveFileLines` of
`PathResolution` gives the set of files a path may mean: the code takes the
first that fits in the order of a Go map, and the summary and the inline
comment (`Place`) each take one for themselves.

## 3. Runs

Passing runs check every property on every reachable state; state counts are
those of the configurations in this directory.

| Run | Bounds | Shows |
|---|---|---|
| `RunSession` | 2 attempts per budget, 2 models, capacities 1; 992 607 states | `TypeOK`, `RetryBudget`, `QuietAtTerminal`, `ResultShownFirst`; refinement of `RunContract` |
| `RunSessionLive` | 1 attempt per budget, 2 models, capacities 1 | a cancelled run ends whatever the server does; with a server that answers, the retry budget alone ends a run |
| `ServeLifecycle` | 2 stages, 2 start attempts, 2 models, 2 ports to give out, 1 other program; 1 134 650 states | no server is forgotten, the healthy server is ours unless somebody took the port before it was bound, its log is open while it runs and closed afterwards, a stopped one has exited, every start and stop returns |
| `ReviewPipeline` | 3 prompts, 2 names, 2 runs; 2 057 282 states | the agents see the branch and no agents file but those in skipped directories; only whole reviews are published, replays included; findings are credited to messages they came from; nothing is left; every run returns |
| `CommentWarrior` | 1 discussion, up to 6 notes; 362 828 states | the bot does not talk to itself, a confirmation is final, nothing is closed silently |
| `CommentWarriorLive` | 2 discussions, pages of 1, up to 3 notes, a limit of 1 discussion in a run; 12 528 states | a mention is answered |
| `MergeRequestNotes` | 3 old threads of any kind, 2 findings, pages of 2, 1 act of a person; 1 001 975 states | own old comments only; complete if no request failed; refinement of `PublicationContract`; ends |
| `FindingPlacement` | sections of up to 5 lines, 2 texts, quotes of up to 2 lines, gaps of 1, 23 findings, 2 other files; 1 317 739 states | counters and numbers are right, an inline note stands on the quoted line of the file unless its number was given after a skipped or made-up line, on exactly one side and the right one but for one case, where the summary says, in the file closest to the path |
| `RunPreparation` | about 7 500 inputs that vary one thing at a time; 463 564 states | settings and files by the documented priority, the config directory of the branch, one model chain, complete workspaces, sub-agents restricted unless their text is misread, what diff.md shows, nothing left |

A `TypeOK` is part of a run where a bug can break it through a counter or a
channel (`RunSession`, `ServeLifecycle`); that of the other modules is proved.

Why the bounds are enough. Two values of each counter show the reset at a model
switch and the last retry; channels of one element are full as soon as
possible, which is when a send blocks or drops. Two stages and two start
attempts are the least in which a server of an earlier launch or stage can meet
a later one; two ports are one that is held and one to go on with, so that a port
comes back to a later launch, and one other program can take either. Two runs are one that is killed or writes a dump and one that meets
what it left; for more the theorems speak. Three prompts and two names
allow two reviewers of one name and a third without; with two prompts an
ambiguous source and a good one cannot meet. Six notes are a finding, a
complaint, an answer, its resolution, a system note and one more. Pages of two
over three threads give a full page, a short page and a page that shrinks. Five
lines hold two hunks with a line each and one to spare, or a hunk of four lines.
The inputs of `RunPreparation` give each setting every value in every source
together, and each file, model list (up to three, with blanks), front matter (every
form with up to two entries, every misleading text with up to one) and section (up
to three lines); settings of different kinds meet
nowhere in the code. `CommentWarriorLive` lists two discussions on two pages and takes one of them in
a run, so that the other waits; that people might mention the bot in the first for
ever is cut off by the bound on notes, and with it the wait that a limit allows. The
safety run has one discussion, one page and no limit; its theorems hold for any. The
proofs of
section 5 remove the bounds for the properties they are about.

Violation runs, each a disagreement of the code with its own comment:

* `RunSessionBufferedCall` — "if it called the expected tool, the SSE event is
  already buffered" (`runner.go:36-37`): the subscription is not ordered before
  the post, and a call made before it is never seen.
* `ReviewPipelineAgentFiles` — "Restoration is handled externally via
  gitClient.Clean()" (`swap.go:63`): agents files that .gitignore hides are
  emptied and not restored.
* `MergeRequestNotesPaging` — "It pages through all discussions and removes
  those that are clearable" (`gitlab/client.go:177-179`): deleting while paging
  skips threads. `WholeWhenIntact` says what does hold, for the first page.

More things the models show, which no run records because nothing in the
repository promises otherwise, or because the words are too loose to refute:

* with a configured port (`Port > 0`) `HealthyMeansOurs` fails: `waitHealthy`
  accepts an answer from whoever listens. With an allocated one the same can happen
  between the `ln.Close()` of `allocatePort` and the bind of the server
  (`disturbed`). The comment at `runner.go:731` says that it "falls back to
  defaultPort on error"; it returns the error;
* after a line "--- x" or "+++ x" in the code, or a missing final newline, the
  parser's numbers are not those of the file up to the next hunk, and an inline
  note on the quoted code stands on another line (`lagging`);
* a context line is placed by its old number when that is the finding's own,
  although `gitlab/client.go:118-119` ("use oldLine for deleted lines"),
  `diff_finding.go:6` and `normalizer.go:325` say otherwise (`ExactlyOneSide`);
* a mention written between the listing and the reply counts as answered, by a
  note that was written without it: the bot's note is the last word;
* an agents file of the branch under `vendor`, `build` or a nested `.claude` is
  left as it is, on purpose (`agentsmd_test.go:234-267`), and the agents can read it;
* an answer without a text part gives an empty `FallbackText`, where
  `run_result.go:7` says it is non-empty;
* a discussion whose flag cannot be set is answered in every run (`failed` in
  `QuietWithoutPeople`);
* a review that is only a text is dumped without its text (`saveReview` keeps
  summary, verdict and findings), and its replay publishes that no issues were
  found ("lost" in `PublishedIsWhole`);
* a dump inside the checkout is removed by `git clean` before it can be replayed;
* a path that fits several files may mean one file for the summary and another
  for the inline comment; and "/src/main.go" loses its first name together with
  the slash (`Clean`), so that it may end at any `main.go`;
* without a config directory the comment warrior looks for sub-agents in the
  working directory and reads what it found relative to the TOML file (`Stray`);
* a timeout of 0 is replaced when it comes from TOML and kept when it comes from
  the environment;
* opencode.json has the model with the blanks around it, the chain without
  (`opencode.go:30`, `workspace.go:178,215`); a model of blanks only is skipped in
  the chain and not in opencode.json;
* a sub-agent whose list of tools allows the tool that ends the review keeps it
  (`AskedFor`); one whose description says `submit_review: false`, or that has
  `tools:` in a comment before the entry, is left unrestricted or becomes text that
  is no YAML, and so do lists and maps that are not indented by two columns, and
  maps in braces; a list of that look elsewhere in the front matter makes a map
  lose its denials (`Misread`);
* lines of code that look like headers are dropped from diff.md; "+++i;" and
  "---i;" are shown and not counted; a path with " b/" in it is read wrongly, one in
  quotes is dropped; and "diff --git " in a line of code cuts the file there.

## 4. Fairness

Safety properties are checked and proved without it.

* `RunSession`: the goroutines are scheduled, `time.After` fires, the caller
  reads on (both callers range over the channel), and a request made with a
  context that is done returns (`net/http` guarantees it). Nothing is assumed of
  the server or the deadline: `CancelledRunEnds` speaks of a context that is
  done, `ResponsiveRunEnds` states its assumption about the server itself.
* `ServeLifecycle`: requests carry deadlines, the health deadline is reached
  (strong fairness: the loop passes the `select` again and again), SIGKILL ends
  a process, and the goroutines that wait for processes run. Nothing is assumed
  of a process that was not killed.
* `ReviewPipeline`: git, servers and sessions return; that sessions and servers
  do is what the two modules above show. A killed run counts as one that ended.
* `CommentWarrior`: the bot is started again and again (it is a CI job), and
  each kind of step succeeds again and again; the agent does not answer the same
  thread with noop for ever. These are assumptions about the surroundings, and
  the property names the exception: a discussion that fails for ever keeps the
  later ones from being reached.
* `MergeRequestNotes`: every request returns (30-second client timeout).

## 5. Proofs

Every module with actions has a module of proofs. Each states, for every value
of the constants that its named assumptions allow (TLC evaluates them in the
runs), type correctness and all the safety properties of its passing runs. The
pattern is the same: an invariant that is inductive, a lemma per group of actions
that it is preserved, and a temporal step.

**RunSession**: every number of retries, chain length and channel capacity.

* `TypeCorrect`: `TypeInv` adds to `TypeOK` that the counters are below the
  maximum wherever the loop goes on (`LoopOpen`): without it the increment of a
  counter could leave its range.
* `RetryBudgetCorrect`: `Charged` is not inductive by itself; `BudgetInv` ties
  `attempt` to the sum of the budgets at every `pc`, and the bound on prompts
  follows from the types.
* `QuietAtTerminalCorrect`: `QuietInv` says for every `pc` which goroutines can
  still be alive: between attempts none of the attempt's, after `stopping` not
  the poller.
* `RunImplementsContract`: every action is a step of `RunContract` or leaves its
  variables alone. The only one that needs an invariant is `ForwarderSends`: a
  forwarder that is at work means, by `QuietInv`, that the channel is not
  terminal.
* `ResultShownFirstCorrect`: `ShownInv` follows the expected call from the
  stream through `events` and the forwarder to the channel. It is where the
  order of forwarding and returning, and `<-tcDone`, are needed.

**ServeLifecycle**: every number of stages, attempts and models.

* `TypeCorrect`: with it, every attempt launches at most one server.
  `LaunchesInv` counts the launches against stage and attempt.
* `UntrackedIsKilledCorrect` and `StoppedMeansExitedCorrect`. Neither is
  inductive: `Tracked` says at which `pc` `r.proc` is set, and `DoneMeansExited`
  that a value in a launch's `procDone` means that its process is gone, and that
  where a wait is given up SIGKILL has been sent.
* `LogsFollowServersCorrect`: `LogInv` follows `r.logFile` while every launch
  but the current one has been waited for.
* `HealthyMeansOursCorrect`, under the assumption `Port = 0`: while a launch has its
  port and nobody has disturbed it, `PortInv` says that no server or child of an
  earlier launch listens there and no other program does, from `allocatePort`, which
  has found it free, to the answer. Ports may be given out again and earlier servers
  may still hold theirs.

**ReviewPipeline**: every number of prompts and runs, and every set of names.

* `TypeCorrect`: the channel of results never holds more than its capacity, by
  `ResultsInv`: each session is running, on the channel or received.
* `SessionsSeeTheBranchCorrect` and `RunLeavesNothingCorrect`: `TreeInv` and
  `WorkspaceInv` say for every `pc` what the steps before it have established
  in the checkout and on disk and no later step has undone: the agents files that the
  swapper reaches are emptied, those it passes over are the branch's.
* `PublishedIsWholeCorrect` and `CreditedToItsSourcesCorrect`: `ReviewInv`
  carries a `Sound` review from the finalizer through the dump, a kill and a
  replay to the publication. `Whole` holds because all results were received,
  and because a sorted sequence of as many prompts as there are is all of them;
  `ProvenanceSound` because a name that only one reviewer has can only have come
  from it.

**CommentWarrior**: every set of discussions and every length of them.

* `QuietWithoutPeopleCorrect` and `ConfirmationIsFinalCorrect`. A run acts on
  snapshots; `SnapshotInv` says that one still to be acted on can be outdated
  only by notes of GitLab itself or by a person, after whom the count of the
  bot's notes starts again. `SettledInv` says when the bot has nothing left to
  say.
* `NeverClosedSilentlyCorrect`: `ExplainedInv`, the note precedes the flag.

**MergeRequestNotes**: every number of threads, findings and acts of people, and
every page size.

* `OnlyOwnCommentsGoCorrect`: `PageInv`, the page that is being cleared shows the
  first notes the threads still have.
* `PostedOnceUnderSummaryCorrect`: `PostedInv`, nothing is posted before its turn.
* `PublishImplementsContract`: a deletion is a `Clear` because, by `PageInv`, the
  thread still begins with the comment that was listed and, by `PostedInv`,
  nothing of the review stands yet; a post is the next of the contract because
  `PostedInv` says that no later finding stands.
* `ReviewInOrder`: the notes stand in the order of the review, the summary first.
  `OrderInv` is inductive for the steps of the contract alone; the theorem follows
  from the refinement, without a look at the publisher again.
* `WholeWhenIntactCorrect`: `FirstPageInv`, while no request fails a clearable
  comment of the first page is still ahead.
* `PublicationProgresses`: what is left of a publication is a triple of naturals
  (its part, the pages, the items of a page or findings), in this order of
  importance. Every step of the publisher makes it smaller, a failed request too,
  and what people do never makes it larger: a thread they open may add a page, but
  it is one of the at most `MaxActs` things they do. `TypeOK` keeps the page at
  most one past the last id, so the count of pages does not fall below zero. With the fairness
  of `FairSpec` this is why `PublishEnds` holds beyond the sizes TLC explores; the
  temporal step from one to the other is not proved.

**FindingPlacement**: every diff, however long, and every finding.

* `CountersCorrect` and `NumbersIdentifyCorrect`. `ParserInv` adds that every
  number given is below its counter, and that the counters never run ahead of
  the file where another hunk may follow; a skipped lookalike makes them lag,
  and a line that is made up can only be the last of its side.
* `OnTheCodeCorrect`: `HistoryInv` says of every parsed line, by side and number,
  that the file shows it there or that the number is one of `lagging`; the rest is
  that a number names one parsed line only.
* `ExactlyOneSideCorrect` and `SummaryAgreesCorrect`. The
  searches choose a closest match; that there is one comes from the
  well-foundedness of the naturals. `NumberedInv` says that a line with quoted
  code is never numbered 0.
* `ResolvedLongestCorrect`: every file a path may mean has the longest end in
  common with it. `Ends` says that two paths share their last `n` segments;
  `CommonEndIs` that the count of the property is the greatest such `n`,
  `LeastShortenedIs` that the code, which drops one more name at a time, stops at
  the same one.

**RunPreparation**: every set of inputs, with lists of any length. The lemmas
about its operators are in `RunPreparationLemmas`.

* `ConfigDirOfTheBranchCorrect`: `DirInv`, the resolution comes after the
  checkout.
* `NothingLeftCorrect`: `MadeInv` says for every `pc` which workspaces are on disk,
  and which of them are complete.
* `SettingAsDocumentedCorrect`, `FileAsDocumentedCorrect`, `ModelChainSoundCorrect`:
  `InputInv` says that the setting, the file and the chain a run uses are what the
  operators give for its input; the rest is about the operators. `SettingRanked`
  and `EffectiveRanked` compare them with the documented rankings source by
  source. `WithoutRepeatsIs` is about every length of the list of fallbacks: if the
  chain built from the first `n` were ever unsound there would be a least such
  `n`, and `SoundLonger` shows that one more fallback keeps it sound.
* `WorkspacesReadyCorrect` and `SubAgentsCannotSubmitCorrect`: `DiskInv` says that a
  workspace being written holds just the files before those in `todo`, that the
  ones before it hold all and the ones behind it none. It is needed because what
  the sessions find is the sum of all writes (`Stored`), where a later file may
  replace an earlier one of its name: `WorkspaceHolds` shows that only a sub-agent
  of the same name does. `DeniedUnlessAsked` is about `ensureToolRestrictions`, case
  by case over the forms of an entry and what the search finds outside it.
* `ContextShowsTheDiffCorrect`: `ContextInv` says that the context is the one of the
  input from `PrepareDiff` on, which is early for the reviewer and last for the
  comment warrior. The rest follows a list of files through the code: what `FlattenSeq`
  joins can be cut again where its parts began (`Flattened`, `CutsCover`), and as
  the first line of a file is its only marker (`OneMark`), `SectionsAre` gives the
  sections back; `ParsedIs` and `StripIs` say what one file is parsed into and
  shown as, `OnlyListed` that every filter keeps the files in the order of the
  diff, and `Sorted` that the stable sort, class by class, has each of them once.
  `Enumerated` carries most of it: numbers that go up are the enumeration of their
  set. The totals are shown to be sums over the same list of counts.

Model-checked only:

* the liveness properties (`CancelledRunEnds`, `ResponsiveRunEnds`,
  `LifecycleEnds`, `RunReturns`, `MentionAnswered`, `PublishEnds`): fairness and
  `ENABLED` are out of TLAPS' reach (for `PublishEnds` the measure that falls is proved);
* the violation runs.

`HealthyMeansOurs` is proved for allocated ports only (`Port = 0`), since it is
false for a configured one, and like the others it says what the definition says:
the exceptions named in section 3 (`disturbed`, `lagging`, `Misread`, `AskedFor`,
`OnlyBlanks`, the markers in a line of code) are part of the statements that are
proved.

## 6. Not modelled, and what is left

Not modelled:

* the formats of notes and their markers: texts; which marker a note has is a
  field of it;
* the parsing and validation of JSON: whether it succeeds is a choice;
* session statistics: sums of costs and tokens that are only logged;
* the caches that are copied into a workspace, best effort and with every error
  ignored; the external-endpoint mode of a Runner, which starts no server;
* the old path in the position of a note on a renamed file;
* a directory that cannot be read, which `pathdefaults.go:56-60` passes over in
  silence;
* agent tools, scripts and images, which run outside the program.

What could be added, most useful first:

1. The comment warrior as a composition: `RunPreparation`, `ServeLifecycle` and
   one `RunSession` for each item in place of the choice of a decision.
2. Two jobs on one merge request at a time: the publisher and the bot, which
   now meet only in the kinds of notes.
3. The statistics, which walk the child sessions while they grow.
