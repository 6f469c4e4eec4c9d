-------------------------- MODULE CommentWarrior --------------------------
(***************************************************************************)
(* The follow-up bot (internal/commentwarrior): a run lists the discussions *)
(* of a merge request page by page, picks the ones to answer from that      *)
(* snapshot, and for each asks an agent for a decision, posts a note and    *)
(* sets the resolved flag, while people go on writing.  A run ends at its   *)
(* first error or is killed anywhere; another one is started later.         *)
(*                                                                          *)
(* A note is its author and what the classifier looks for in it; the text,  *)
(* the diff context and the source prompt given to the agent are left out.  *)
(***************************************************************************)
EXTENDS Naturals, Sequences, FiniteSets

CONSTANTS Threads,         \* number of discussions of the merge request
          PageSize,        \* per_page (100)
          MaxDiscussions,  \* --max-discussions, 0: no limit
          DiscussionID,    \* --discussion-id, 0: all of them
          DryRun,          \* --dry-run
          Openings,        \* bound: the first notes of discussions
          Others,          \* bound: what other people and GitLab do
          MaxNotes         \* bound: notes GitLab accepts in a discussion

ASSUME WarriorAssumption ==
    /\ Threads \in Nat \ {0} /\ PageSize \in Nat \ {0}
    /\ MaxDiscussions \in Nat /\ DiscussionID \in Nat /\ DryRun \in BOOLEAN
    /\ Openings \subseteq {"finding", "human", "mention"}
    /\ Others \subseteq {"mention", "human", "system", "toggle"}
    /\ MaxNotes \in Nat \ {0}

Discussions == 1..Threads

\* Notes of the bot: a reviewer finding, a reply, a reply with the marker
\* closure-confirmed.  Notes of others: with #ai, without it, of GitLab itself.
BotNotes == {"finding", "reply", "confirm"}
Notes    == BotNotes \cup {"mention", "human", "system"}
Actions  == {"reply", "resolve", "unresolve", "noop"}

VARIABLES
    notes, resolved,   \* the discussions on GitLab
    pc,
    page,              \* page being listed
    listed,            \* the discussions listed so far, as they were then
    items,             \* those still to process, first to last
    decision,          \* the agent's action for the first of them
    spoken,            \* history: notes of the bot since a person last acted
    failed             \* history: a resolved flag was not set since then

gitlab  == <<notes, resolved>>
work    == <<page, listed, items, decision>>
history == <<spoken, failed>>
vars == <<gitlab, pc, work, history>>

\* Snapshots by discussion; a discussion is its place in the listing.
Nobody == [d \in {} |-> [notes |-> <<>>, resolved |-> FALSE]]
Now(d) == [notes |-> notes[d], resolved |-> resolved[d]]

Init ==
    /\ notes \in [Discussions -> {<<n>> : n \in Openings}]
    /\ resolved = [d \in Discussions |-> FALSE]
    /\ pc = "idle" /\ page = 0 /\ listed = Nobody /\ items = Nobody /\ decision = "none"
    /\ spoken = [d \in Discussions |-> 0] /\ failed = [d \in Discussions |-> FALSE]

----------------------------------------------------------------------------
(* The classifier, on the notes ns of a discussion *)

\* Nobody but GitLab has written after position i.
LastWord(ns, i) == \A j \in i+1..Len(ns) : ns[j] = "system"

\* Bug: only the last note is looked at.
MentionIsLast(ns) == ns[Len(ns)] = "mention"

HasUnhandledAIMention(ns) ==
    \E i \in DOMAIN ns : ns[i] = "mention" /\ \A j \in i+1..Len(ns) : ns[j] \notin BotNotes

ClassifyDiscussion(ns) ==
    IF HasUnhandledAIMention(ns) THEN "human_mention_ai"
    ELSE IF ns /= <<>> /\ ns[1] = "finding" THEN "ai_finding" ELSE "ignore"

LatestBotNoteConfirms(ns) ==
    \E i \in DOMAIN ns : ns[i] = "confirm" /\ \A j \in i+1..Len(ns) : ns[j] \notin BotNotes

LatestHumanNote(ns) == \E i \in DOMAIN ns : ns[i] \in {"human", "mention"}

\* Bug: no look at who has the last word.
NeverHandled(ns) == FALSE

AlreadyHandledAIFinding(ns) ==
    \E i \in 2..Len(ns) : ns[i] \in BotNotes /\ LastWord(ns, i)

ShouldProcess(d, s) ==
    CASE DiscussionID \notin {0, d} -> FALSE
      [] ClassifyDiscussion(s.notes) = "human_mention_ai" -> TRUE
      [] ClassifyDiscussion(s.notes) = "ai_finding" ->
            IF s.resolved
              THEN ~LatestBotNoteConfirms(s.notes)
              ELSE LatestHumanNote(s.notes) /\ ~AlreadyHandledAIFinding(s.notes)
      [] OTHER -> FALSE

\* filterProcessableDiscussions: the first MaxDiscussions of them.
Processable(seen) ==
    LET chosen == {d \in DOMAIN seen : ShouldProcess(d, seen[d])}
        before(d) == {e \in chosen : e < d}
    IN  [d \in {d \in chosen : MaxDiscussions = 0 \/ Cardinality(before(d)) < MaxDiscussions}
            |-> seen[d]]

\* shouldConfirmClosure, for the snapshot s and the agent's action.
ConfirmsClosure(s, action) ==
    /\ ClassifyDiscussion(s.notes) = "ai_finding"
    /\ action = "resolve" \/ (s.resolved /\ action = "reply")

----------------------------------------------------------------------------
(* A run *)

Stop == /\ pc' = "idle" /\ page' = 0
        /\ listed' = Nobody /\ items' = Nobody /\ decision' = "none"

\* PrepareRepository and GetCurrentUser.
StartRun ==
    /\ pc = "idle"
    /\ pc' = "listing" /\ page' = 1
    /\ UNCHANGED <<gitlab, listed, items, decision, history>>

Page(n) == {d \in Discussions : (n - 1) * PageSize < d /\ d <= n * PageSize}

\* ListDiscussions: one request for a page; a short page is the last one.
ListPage ==
    /\ pc = "listing"
    /\ LET seen == [d \in DOMAIN listed \cup Page(page) |->
                        IF d \in Page(page) THEN Now(d) ELSE listed[d]]
       IN  IF Cardinality(Page(page)) < PageSize
             THEN /\ listed' = Nobody /\ items' = Processable(seen) /\ page' = 0
                  /\ pc' = IF DOMAIN items' = {} THEN "idle" ELSE "start"
             ELSE listed' = seen /\ page' = page + 1 /\ UNCHANGED <<pc, items>>
    /\ UNCHANGED <<gitlab, decision, history>>

\* validateHead, LoadRuntime, StartServe, Precheck and prepareDiff.
StartRuntime ==
    /\ pc = "start"
    /\ pc' = "decide"
    /\ UNCHANGED <<gitlab, work, history>>

\* Any step of a run may return an error; Run returns it.  A kill looks the same.
RunFails ==
    /\ pc \in {"listing", "start", "decide", "reply"}
    /\ Stop /\ UNCHANGED <<gitlab, history>>

Item == CHOOSE d \in DOMAIN items : \A e \in DOMAIN items : d <= e
Rest == [d \in DOMAIN items \ {Item} |-> items[d]]

NextItem == /\ items' = Rest /\ decision' = "none"
            /\ pc' = IF DOMAIN Rest = {} THEN "idle" ELSE "decide"
            /\ UNCHANGED <<page, listed>>

\* runDecision: ValidateDecision accepts no action without a note but noop.
Decide ==
    /\ pc = "decide"
    /\ \E a \in Actions :
         IF a = "noop" \/ DryRun
           THEN NextItem
           ELSE decision' = a /\ pc' = "reply" /\ UNCHANGED <<page, listed, items>>
    /\ UNCHANGED <<gitlab, history>>

\* Bug: the closure of a finding that is already resolved is not marked.
ReplyKindUnmarked == IF decision = "resolve" THEN "confirm" ELSE "reply"

\* The marker is what ends the conversation about a closed finding.
ReplyKind == IF ConfirmsClosure(items[Item], decision) THEN "confirm" ELSE "reply"

Say(d, n) ==
    /\ Len(notes[d]) < MaxNotes
    /\ notes' = [notes EXCEPT ![d] = Append(@, n)]
    /\ spoken' = [spoken EXCEPT ![d] = @ + 1]

\* Bug: the flag is set first and the note is posted after it.
PostReplyLast ==
    /\ pc = "reply"
    /\ \/ decision /= "reply" /\ pc' = "resolve"
          /\ resolved' = [resolved EXCEPT ![Item] = (decision = "resolve")]
          /\ UNCHANGED <<work, notes, history>>
       \/ Say(Item, ReplyKind) /\ NextItem /\ UNCHANGED <<resolved, failed>>

\* ReplyToDiscussion; the answer to the request may be lost, which is an error.
PostReply ==
    /\ pc = "reply"
    /\ Say(Item, ReplyKind)
    /\ \/ Stop /\ failed' = [failed EXCEPT ![Item] = @ \/ decision /= "reply"]
       \/ /\ decision = "reply" /\ NextItem /\ UNCHANGED failed
       \/ /\ decision /= "reply" /\ pc' = "resolve" /\ UNCHANGED <<work, failed>>
    /\ UNCHANGED resolved

\* SetDiscussionResolved; here too the answer may be lost.
SetResolved ==
    /\ pc = "resolve"
    /\ resolved' = [resolved EXCEPT ![Item] = (decision = "resolve")]
    /\ NextItem \/ (pc' = "idle" /\ Stop)
    /\ UNCHANGED <<notes, history>>

SetResolvedFails ==
    /\ pc = "resolve"
    /\ Stop /\ failed' = [failed EXCEPT ![Item] = TRUE]
    /\ UNCHANGED <<gitlab, spoken>>

----------------------------------------------------------------------------
(* The other people on the merge request, and GitLab's own notes *)

Heard(d) == /\ spoken' = [spoken EXCEPT ![d] = 0]
            /\ failed' = [failed EXCEPT ![d] = FALSE]

PersonWrites(d, n) ==
    /\ n \in {"human", "mention"} \cap Others /\ Len(notes[d]) < MaxNotes
    /\ notes' = [notes EXCEPT ![d] = Append(@, n)]
    /\ Heard(d)
    /\ UNCHANGED <<resolved, pc, work>>

PersonToggles(d) ==
    /\ "toggle" \in Others
    /\ resolved' = [resolved EXCEPT ![d] = ~@]
    /\ Heard(d)
    /\ UNCHANGED <<notes, pc, work>>

SystemNote(d) ==
    /\ "system" \in Others /\ Len(notes[d]) < MaxNotes
    /\ notes' = [notes EXCEPT ![d] = Append(@, "system")]
    /\ UNCHANGED <<resolved, pc, work, history>>

----------------------------------------------------------------------------
RunStep ==
    \/ StartRun \/ ListPage \/ StartRuntime \/ Decide \/ PostReply
    \/ SetResolved \/ SetResolvedFails \/ RunFails

OthersStep == \E d \in Discussions :
    PersonToggles(d) \/ SystemNote(d) \/ \E n \in Notes : PersonWrites(d, n)

Next == RunStep \/ OthersStep

Spec == Init /\ [][Next]_vars

Answers(d)  == pc = "decide" /\ Item = d /\ Decide /\ pc' = "reply"
Posts(d)    == pc = "reply" /\ Item = d /\ PostReply /\ items' \in {items, Rest}
Resolves(d) == pc = "resolve" /\ Item = d /\ SetResolved /\ items' = Rest

\* Runs are started again and again, and each of their steps succeeds again and
\* again; the agent does not answer a thread with noop for ever.
Fairness ==
    /\ WF_vars(RunStep) /\ WF_vars(StartRun) /\ SF_vars(StartRuntime)
    /\ \A n \in 1..Threads+1 : SF_vars(page = n /\ ListPage)
    /\ \A d \in Discussions : SF_vars(Answers(d)) /\ SF_vars(Posts(d)) /\ SF_vars(Resolves(d))

FairSpec == Spec /\ Fairness

----------------------------------------------------------------------------
(* Properties *)

Snapshot == [notes : Seq(Notes), resolved : BOOLEAN]
Snapshots(ss) == DOMAIN ss \subseteq Discussions /\ ss \in [DOMAIN ss -> Snapshot]

TypeOK ==
    /\ notes \in [Discussions -> Seq(Notes)]
    /\ \A d \in Discussions : Len(notes[d]) <= MaxNotes
    /\ resolved \in [Discussions -> BOOLEAN]
    /\ pc \in {"idle", "listing", "start", "decide", "reply", "resolve"}
    /\ page \in Nat
    /\ Snapshots(listed) /\ Snapshots(items)
    /\ pc \in {"start", "decide", "reply", "resolve"} <=> DOMAIN items /= {}
    /\ decision \in Actions \cup {"none"}
    /\ pc \in {"reply", "resolve"} => decision \in Actions \ {"noop"}
    /\ spoken \in [Discussions -> Nat] /\ failed \in [Discussions -> BOOLEAN]

\* The bot does not talk to itself: as long as nobody else acts on a discussion it
\* writes at most two notes there, an answer and the confirmation of a closure,
\* over any number of runs, killed runs and lost answers, unless it could not set
\* the resolved flag (then each run asks the agent again).
QuietWithoutPeople ==
    \A d \in Discussions : spoken[d] <= 2 \/ failed[d]

\* Once the bot has confirmed a closure it adds nothing until a person acts, not
\* even when closing the discussion failed after the confirmation.
ConfirmationIsFinal ==
    [][\A d \in Discussions :
         spoken[d] > 0 /\ LatestBotNoteConfirms(notes[d]) => spoken'[d] <= spoken[d]]_vars

\* The bot never closes or re-opens a discussion it has not explained itself in,
\* whichever step of applyDecision fails.
NeverClosedSilently ==
    [][\A d \in Discussions :
         RunStep /\ resolved'[d] /= resolved[d]
           => \E i \in 2..Len(notes[d]) : notes[d][i] \in BotNotes]_vars

Unanswered(d) == \E i \in DOMAIN notes[d] :
    notes[d][i] = "mention" /\ \A j \in i+1..Len(notes[d]) : notes[d][j] \notin BotNotes

\* A request to #ai is followed by a note of the bot if runs keep being made,
\* unless some discussion fails for ever (here: GitLab takes no more notes in it):
\* Run stops at the first error, and the discussions after it are not reached.
MentionAnswered ==
    \A d \in Discussions :
        Unanswered(d) ~> (~Unanswered(d) \/ \E e \in Discussions : Len(notes[e]) = MaxNotes)
============================================================================
