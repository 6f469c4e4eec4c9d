----------------------- MODULE CommentWarrior_proofs -----------------------
(***************************************************************************)
(* Proofs about CommentWarrior, for every number of discussions and notes,  *)
(* every page size and every choice of what the other people do.            *)
(*                                                                          *)
(* A run acts on snapshots.  The argument is that a snapshot that is still   *)
(* to be acted on can be outdated only by notes of GitLab itself or by a     *)
(* person, after whom the count of the bot's notes starts again.             *)
(***************************************************************************)
EXTENDS CommentWarrior, Integers, FiniteSetTheorems, WellFoundedInduction, TLAPS

\* Since the notes were `old`, only GitLab has written.
OnlySystemSince(ns, old) ==
    /\ Len(old) <= Len(ns)
    /\ \A i \in 1..Len(old) : ns[i] = old[i]
    /\ \A i \in Len(old)+1..Len(ns) : ns[i] = "system"

Fresh(d, s) == s.resolved = resolved[d] /\ OnlySystemSince(notes[d], s.notes)

\* The discussion whose note is posted and whose flag is about to be set.
Closing(d) == pc = "resolve" /\ d = Item

\* What is listed or still to process was chosen by the rules, and nobody but GitLab has
\* acted on it since unless the bot has not spoken after that.
SnapshotInv ==
    /\ pc /= "listing" => DOMAIN listed = {}
    /\ \A d \in DOMAIN listed : spoken[d] > 0 => Fresh(d, listed[d])
    /\ \A d \in DOMAIN items :
          /\ ShouldProcess(d, items[d])
          /\ spoken[d] > 0 /\ ~Closing(d) => Fresh(d, items[d])

\* Where the bot has spoken since, the last word is its own, behind the first note.
HandledInv ==
    /\ \A d \in Discussions : Len(notes[d]) > 0
    /\ \A d \in Discussions : spoken[d] > 0 => AlreadyHandledAIFinding(notes[d])

\* Nothing is left to say: the closure is confirmed, or the discussion is open.
Settled(d) == LatestBotNoteConfirms(notes[d]) \/ ~resolved[d]

SettledInv ==
    \A d \in Discussions : spoken[d] >= 2 =>
        \/ failed[d]
        \/ /\ spoken[d] = 2
           /\ IF Closing(d) THEN decision = "unresolve" \/ LatestBotNoteConfirms(notes[d])
              ELSE Settled(d)

\* applyDecision posts its note before it sets the flag.
ExplainedInv == pc = "resolve" => \E i \in 2..Len(notes[Item]) : notes[Item][i] \in BotNotes

IInv == TypeOK /\ SnapshotInv /\ HandledInv /\ SettledInv /\ ExplainedInv

----------------------------------------------------------------------------
(* The first of the items *)

LEMMA ItemFirst == ASSUME TypeOK, DOMAIN items /= {} PROVE Item \in DOMAIN items /\ Item \in Discussions
<1>1. DOMAIN items \subseteq Nat /\ DOMAIN items \subseteq Discussions
  BY WarriorAssumption DEF TypeOK, Snapshots, Discussions
<1>2. PICK d \in DOMAIN items : \A e \in DOMAIN items : ~(<<e, d>> \in OpToRel(<, Nat))
  BY <1>1, NatLessThanWellFounded, WFMin
<1>3. \A e \in DOMAIN items : d <= e
  <2> SUFFICES ASSUME NEW e \in DOMAIN items, ~(d <= e) PROVE FALSE
    OBVIOUS
  <2>1. e \in Nat /\ d \in Nat /\ e < d
    BY <1>1
  <2>2. <<e, d>> \in Nat \X Nat /\ <<e, d>>[1] < <<e, d>>[2]
    BY <2>1
  <2>3. <<e, d>> \in OpToRel(<, Nat)
    BY <2>2, Zenon DEF OpToRel
  <2>4. QED
    BY <1>2, <2>3
<1>4. QED
  BY <1>1, <1>3 DEF Item

----------------------------------------------------------------------------
(* The classifier *)

LEMMA HandledNoMention ==
    ASSUME NEW ns \in Seq(Notes), AlreadyHandledAIFinding(ns)
    PROVE  ~HasUnhandledAIMention(ns)
<1> SUFFICES ASSUME NEW m \in DOMAIN ns, ns[m] = "mention",
                    \A j \in m+1..Len(ns) : ns[j] \notin BotNotes
             PROVE  FALSE
  BY DEF HasUnhandledAIMention
<1>1. PICK i \in 2..Len(ns) : ns[i] \in BotNotes /\ \A j \in i+1..Len(ns) : ns[j] = "system"
  BY DEF AlreadyHandledAIFinding, LastWord
<1>2. m \in 1..Len(ns) /\ i \in 1..Len(ns) /\ m /= i
  BY <1>1 DEF BotNotes
<1>3. CASE m < i
  BY <1>1, <1>2, <1>3
<1>4. CASE i < m
  BY <1>1, <1>2, <1>4
<1>5. QED
  BY <1>2, <1>3, <1>4

LEMMA HandledBefore ==
    ASSUME NEW ns \in Seq(Notes), NEW old \in Seq(Notes), OnlySystemSince(ns, old),
           AlreadyHandledAIFinding(ns)
    PROVE  AlreadyHandledAIFinding(old)
<1>1. PICK i \in 2..Len(ns) : ns[i] \in BotNotes /\ \A j \in i+1..Len(ns) : ns[j] = "system"
  BY DEF AlreadyHandledAIFinding, LastWord
<1>2. i \in 2..Len(old)
  BY <1>1 DEF OnlySystemSince, BotNotes
<1>3. old[i] \in BotNotes /\ \A j \in i+1..Len(old) : old[j] = "system"
  BY <1>1, <1>2 DEF OnlySystemSince
<1>4. QED
  BY <1>2, <1>3 DEF AlreadyHandledAIFinding, LastWord

LEMMA ConfirmedBefore ==
    ASSUME NEW ns \in Seq(Notes), NEW old \in Seq(Notes), OnlySystemSince(ns, old),
           LatestBotNoteConfirms(ns)
    PROVE  LatestBotNoteConfirms(old)
<1>1. PICK i \in 1..Len(ns) : ns[i] = "confirm" /\ \A j \in i+1..Len(ns) : ns[j] \notin BotNotes
  BY DEF LatestBotNoteConfirms
<1>2. i \in 1..Len(old)
  BY <1>1 DEF OnlySystemSince
<1>3. old[i] = "confirm" /\ \A j \in i+1..Len(old) : old[j] \notin BotNotes
  BY <1>1, <1>2 DEF OnlySystemSince
<1>4. QED
  BY <1>2, <1>3 DEF LatestBotNoteConfirms

\* A discussion in which the bot has the last word is chosen only to confirm its closure.
LEMMA ChosenToConfirm ==
    ASSUME NEW d, NEW s \in Snapshot, NEW ns \in Seq(Notes), OnlySystemSince(ns, s.notes),
           AlreadyHandledAIFinding(ns), ShouldProcess(d, s)
    PROVE  /\ ClassifyDiscussion(s.notes) = "ai_finding"
           /\ s.resolved /\ ~LatestBotNoteConfirms(ns)
<1>1. s.notes \in Seq(Notes) /\ s.resolved \in BOOLEAN
  BY DEF Snapshot
<1>2. AlreadyHandledAIFinding(s.notes) /\ ~HasUnhandledAIMention(s.notes)
  BY <1>1, HandledBefore, HandledNoMention
<1>3. ClassifyDiscussion(s.notes) \in {"ai_finding", "ignore"}
  BY <1>2 DEF ClassifyDiscussion
<1>4. /\ ClassifyDiscussion(s.notes) = "ai_finding"
      /\ IF s.resolved THEN ~LatestBotNoteConfirms(s.notes)
         ELSE LatestHumanNote(s.notes) /\ ~AlreadyHandledAIFinding(s.notes)
  BY <1>3 DEF ShouldProcess
<1>5. s.resolved /\ ~LatestBotNoteConfirms(s.notes)
  BY <1>2, <1>4
<1>6. QED
  BY <1>1, <1>4, <1>5, ConfirmedBefore

LEMMA AfterSystemNote ==
    ASSUME NEW ns \in Seq(Notes)
    PROVE  LET after == Append(ns, "system")
           IN  /\ AlreadyHandledAIFinding(ns) => AlreadyHandledAIFinding(after)
               /\ LatestBotNoteConfirms(ns) => LatestBotNoteConfirms(after)
               /\ \A old \in Seq(Notes) : OnlySystemSince(ns, old) => OnlySystemSince(after, old)
               /\ \A i \in 1..Len(ns) : after[i] = ns[i]
               /\ Len(after) = Len(ns) + 1
<1> DEFINE after == Append(ns, "system")
<1>1. /\ Len(ns) \in Nat /\ Len(after) = Len(ns) + 1 /\ after \in Seq(Notes \cup {"system"})
      /\ \A i \in 1..Len(ns) : after[i] = ns[i]
      /\ after[Len(ns) + 1] = "system"
  OBVIOUS
<1> HIDE DEF after
<1>2. AlreadyHandledAIFinding(ns) => AlreadyHandledAIFinding(after)
  BY <1>1 DEF AlreadyHandledAIFinding, LastWord
<1>3. LatestBotNoteConfirms(ns) => LatestBotNoteConfirms(after)
  BY <1>1 DEF LatestBotNoteConfirms, BotNotes
<1>4. \A old \in Seq(Notes) : OnlySystemSince(ns, old) => OnlySystemSince(after, old)
  BY <1>1 DEF OnlySystemSince
<1>5. QED
  BY <1>1, <1>2, <1>3, <1>4 DEF after

LEMMA AfterBotNote ==
    ASSUME NEW ns \in Seq(Notes), Len(ns) > 0, NEW n \in BotNotes
    PROVE  LET after == Append(ns, n)
           IN  /\ AlreadyHandledAIFinding(after)
               /\ n = "confirm" => LatestBotNoteConfirms(after)
               /\ Len(after) \in 2..Len(after) /\ after[Len(after)] \in BotNotes
<1> DEFINE after == Append(ns, n)
<1>1. Len(ns) \in Nat /\ Len(after) = Len(ns) + 1 /\ after[Len(ns) + 1] = n
  OBVIOUS
<1>2. DOMAIN after = 1..Len(after)
  OBVIOUS
<1> HIDE DEF after
<1>3. Len(after) \in 2..Len(after) /\ after[Len(after)] = n
  BY <1>1
<1>4. AlreadyHandledAIFinding(after)
  BY <1>1, <1>3 DEF AlreadyHandledAIFinding, LastWord
<1>5. n = "confirm" => LatestBotNoteConfirms(after)
  BY <1>1, <1>2, <1>3 DEF LatestBotNoteConfirms
<1>6. QED
  BY <1>3, <1>4, <1>5 DEF after

----------------------------------------------------------------------------
(* Steps *)

LEMMA NobodyTyped == DOMAIN Nobody = {} /\ Snapshots(Nobody)
BY DEF Nobody, Snapshots

LEMMA NowTyped == ASSUME TypeOK, NEW d \in Discussions PROVE Now(d) \in Snapshot
BY DEF TypeOK, Now, Snapshot

LEMMA RestTyped ==
    ASSUME TypeOK
    PROVE  /\ Snapshots(Rest) /\ DOMAIN Rest = DOMAIN items \ {Item}
           /\ \A d \in DOMAIN Rest : Rest[d] = items[d]
BY DEF TypeOK, Rest, Snapshots

LEMMA FreshNow == ASSUME TypeOK, NEW d \in Discussions PROVE Fresh(d, Now(d))
BY DEF Now, Fresh, OnlySystemSince

LEMMA InitInv == Init => IInv
<1> SUFFICES ASSUME Init PROVE IInv
  OBVIOUS
<1>1. \A d \in Discussions : notes[d] \in Seq(Notes) /\ Len(notes[d]) = 1
  <2> SUFFICES ASSUME NEW d \in Discussions PROVE notes[d] \in Seq(Notes) /\ Len(notes[d]) = 1
    OBVIOUS
  <2>1. PICK n \in Openings : notes[d] = <<n>>
    BY DEF Init
  <2>2. n \in Notes
    BY WarriorAssumption DEF Notes, BotNotes
  <2>3. QED
    BY <2>1, <2>2
<1>2. TypeOK
  <2>1. notes \in [Discussions -> Seq(Notes)]
    BY <1>1 DEF Init
  <2>2. 1 <= MaxNotes
    BY WarriorAssumption
  <2>3. QED
    BY <1>1, <2>1, <2>2, NobodyTyped DEF Init, TypeOK
<1>3. SnapshotInv /\ ExplainedInv
  BY NobodyTyped DEF Init, SnapshotInv, ExplainedInv
<1>4. HandledInv /\ SettledInv
  <2>1. \A d \in Discussions : spoken[d] = 0
    BY DEF Init
  <2>2. QED
    BY <1>1, <2>1 DEF HandledInv, SettledInv
<1>5. QED
  BY <1>2, <1>3, <1>4 DEF IInv

\* Steps that change nothing on GitLab and keep the items or drop some.
LEMMA QuietStep ==
    ASSUME IInv, UNCHANGED <<gitlab, history>>, pc /= "resolve", pc' /= "resolve",
           DOMAIN items' \subseteq DOMAIN items, \A d \in DOMAIN items' : items'[d] = items[d],
           DOMAIN listed' = {}
    PROVE  SnapshotInv' /\ HandledInv' /\ SettledInv' /\ ExplainedInv'
<1> USE DEF gitlab, history
<1>1. SnapshotInv'
  BY DEF IInv, SnapshotInv, Closing, Fresh
<1>2. HandledInv' /\ ExplainedInv'
  BY DEF IInv, HandledInv, ExplainedInv
<1>3. SettledInv'
  BY DEF IInv, SettledInv, Closing, Settled
<1> QED
  BY <1>1, <1>2, <1>3

LEMMA RunFailsInv == IInv /\ RunFails => IInv'
<1> SUFFICES ASSUME IInv, RunFails PROVE IInv'
  OBVIOUS
<1>1. TypeOK'
  BY NobodyTyped DEF IInv, TypeOK, RunFails, Stop, gitlab, history
<1>2. QED
  BY <1>1, NobodyTyped, QuietStep DEF IInv, RunFails, Stop

LEMMA StartInv == IInv /\ (StartRun \/ StartRuntime) => IInv'
<1> SUFFICES ASSUME IInv, StartRun \/ StartRuntime PROVE IInv'
  OBVIOUS
<1>1. TypeOK'
  BY DEF IInv, TypeOK, StartRun, StartRuntime, work, gitlab, history
<1>2. DOMAIN listed' = {} /\ items' = items /\ pc /= "resolve" /\ pc' /= "resolve"
  BY DEF IInv, SnapshotInv, StartRun, StartRuntime, work
<1>3. UNCHANGED <<gitlab, history>>
  BY DEF StartRun, StartRuntime
<1>4. QED
  BY <1>1, <1>2, <1>3, QuietStep DEF IInv

\* What is listed now is fresh, and what was listed before has stayed so.
LEMMA ListPageInv == IInv /\ ListPage => IInv'
<1> SUFFICES ASSUME IInv, ListPage PROVE IInv'
  OBVIOUS
<1> DEFINE seen == [d \in DOMAIN listed \cup Page(page) |->
                       IF d \in Page(page) THEN Now(d) ELSE listed[d]]
           chosen == {d \in DOMAIN seen : ShouldProcess(d, seen[d])}
<1>0. TypeOK /\ pc = "listing" /\ UNCHANGED <<gitlab, decision, history>>
  BY DEF IInv, ListPage
<1>1. Snapshots(seen)
  <2>1. DOMAIN listed \subseteq Discussions /\ Page(page) \subseteq Discussions
    BY <1>0 DEF TypeOK, Snapshots, Page
  <2>2. \A d \in DOMAIN seen : seen[d] \in Snapshot
    BY <1>0, <2>1, NowTyped DEF TypeOK, Snapshots
  <2>3. QED
    BY <2>1, <2>2 DEF Snapshots
<1>2. \A d \in DOMAIN seen : spoken[d] > 0 => Fresh(d, seen[d])
  <2> SUFFICES ASSUME NEW d \in DOMAIN seen, spoken[d] > 0 PROVE Fresh(d, seen[d])
    OBVIOUS
  <2>1. CASE d \in Page(page)
    BY <1>0, <2>1, FreshNow DEF Page
  <2>2. CASE d \notin Page(page)
    BY <2>2 DEF IInv, SnapshotInv
  <2>3. QED
    BY <2>1, <2>2
<1> HIDE DEF seen
<1>3. /\ DOMAIN Processable(seen) \subseteq chosen
      /\ \A d \in DOMAIN Processable(seen) : Processable(seen)[d] = seen[d]
      /\ Snapshots(Processable(seen))
  BY <1>1 DEF Processable, Snapshots
<1>4. CASE Cardinality(Page(page)) < PageSize
  <2>1. /\ listed' = Nobody /\ items' = Processable(seen) /\ page' = 0
        /\ pc' = IF DOMAIN items' = {} THEN "idle" ELSE "start"
    BY <1>4 DEF ListPage, seen
  <2>2. TypeOK'
    BY <1>0, <1>3, <2>1, NobodyTyped DEF TypeOK, gitlab, history
  <2>3. SnapshotInv'
    BY <1>0, <1>2, <1>3, <2>1, NobodyTyped DEF SnapshotInv, Fresh, gitlab, history
  <2>4. HandledInv' /\ ExplainedInv'
    BY <1>0, <2>1 DEF IInv, HandledInv, ExplainedInv, gitlab, history
  <2>5. SettledInv'
    BY <1>0, <2>1 DEF IInv, SettledInv, Closing, Settled, gitlab, history
  <2>6. QED
    BY <2>2, <2>3, <2>4, <2>5 DEF IInv
<1>5. CASE ~(Cardinality(Page(page)) < PageSize)
  <2>1. listed' = seen /\ page' = page + 1 /\ pc' = pc /\ items' = items
    BY <1>5 DEF ListPage, seen
  <2>2. TypeOK'
    BY <1>0, <1>1, <2>1 DEF TypeOK, gitlab, history
  <2>3. SnapshotInv'
    BY <1>0, <1>2, <2>1 DEF IInv, SnapshotInv, Closing, Fresh, gitlab, history
  <2>4. HandledInv' /\ ExplainedInv'
    BY <1>0, <2>1 DEF IInv, HandledInv, ExplainedInv, gitlab, history
  <2>5. SettledInv'
    BY <1>0, <2>1 DEF IInv, SettledInv, Closing, Settled, gitlab, history
  <2>6. QED
    BY <2>2, <2>3, <2>4, <2>5 DEF IInv
<1>6. QED
  BY <1>4, <1>5

LEMMA DecideInv == IInv /\ Decide => IInv'
<1> SUFFICES ASSUME IInv, Decide PROVE IInv'
  OBVIOUS
<1>0. TypeOK /\ pc = "decide" /\ UNCHANGED <<gitlab, history>> /\ DOMAIN listed = {}
  BY DEF IInv, Decide, SnapshotInv
<1>1. PICK a \in Actions :
         IF a = "noop" \/ DryRun THEN NextItem
         ELSE decision' = a /\ pc' = "reply" /\ UNCHANGED <<page, listed, items>>
  BY DEF Decide
<1>2. CASE a = "noop" \/ DryRun
  <2>1. /\ items' = Rest /\ decision' = "none" /\ UNCHANGED <<page, listed>>
        /\ pc' = IF DOMAIN Rest = {} THEN "idle" ELSE "decide"
    BY <1>1, <1>2 DEF NextItem
  <2>2. TypeOK'
    BY <1>0, <2>1, RestTyped DEF TypeOK, gitlab, history
  <2>3. QED
    BY <1>0, <2>1, <2>2, RestTyped, QuietStep DEF IInv
<1>3. CASE ~(a = "noop" \/ DryRun)
  <2>1. decision' = a /\ pc' = "reply" /\ UNCHANGED <<page, listed, items>>
    BY <1>1, <1>3
  <2>2. TypeOK'
    BY <1>0, <1>3, <2>1 DEF TypeOK, gitlab, history
  <2>3. QED
    BY <1>0, <2>1, <2>2, QuietStep DEF IInv
<1>4. QED
  BY <1>2, <1>3

\* Where the bot has spoken since, it posts only to confirm a closure, or to re-open.
LEMMA SpeaksAgain ==
    ASSUME IInv, PostReply, spoken[Item] > 0
    PROVE  /\ ~LatestBotNoteConfirms(notes[Item]) /\ resolved[Item]
           /\ decision = "unresolve" \/ ReplyKind = "confirm"
<1>1. /\ TypeOK /\ pc = "reply" /\ Item \in DOMAIN items /\ Item \in Discussions
      /\ items[Item] \in Snapshot /\ decision \in Actions \ {"noop"}
  BY ItemFirst DEF IInv, TypeOK, Snapshots, PostReply
<1>2. /\ notes[Item] \in Seq(Notes) /\ AlreadyHandledAIFinding(notes[Item])
      /\ ShouldProcess(Item, items[Item]) /\ Fresh(Item, items[Item])
  BY <1>1 DEF IInv, TypeOK, HandledInv, SnapshotInv, Closing
<1>3. /\ ClassifyDiscussion(items[Item].notes) = "ai_finding"
      /\ items[Item].resolved /\ ~LatestBotNoteConfirms(notes[Item])
  BY <1>1, <1>2, ChosenToConfirm DEF Fresh
<1>4. decision /= "unresolve" => ReplyKind = "confirm"
  BY <1>1, <1>3 DEF ReplyKind, ConfirmsClosure, Actions
<1>5. QED
  BY <1>2, <1>3, <1>4 DEF Fresh

LEMMA PostReplyInv == IInv /\ PostReply => IInv'
<1> SUFFICES ASSUME IInv, PostReply PROVE IInv'
  OBVIOUS
<1>0. /\ TypeOK /\ pc = "reply" /\ Item \in DOMAIN items /\ Item \in Discussions
      /\ DOMAIN listed = {} /\ UNCHANGED resolved /\ Len(notes[Item]) < MaxNotes
  BY ItemFirst DEF IInv, TypeOK, SnapshotInv, PostReply, Say
<1>1. /\ ReplyKind \in BotNotes /\ ReplyKind \in Notes
      /\ notes[Item] \in Seq(Notes) /\ Len(notes[Item]) > 0
  BY <1>0 DEF ReplyKind, BotNotes, Notes, TypeOK, IInv, HandledInv
<1>2. /\ notes' = [notes EXCEPT ![Item] = Append(notes[Item], ReplyKind)]
      /\ spoken' = [spoken EXCEPT ![Item] = spoken[Item] + 1]
  BY DEF PostReply, Say
<1>3. \/ /\ Stop /\ failed' = [failed EXCEPT ![Item] = failed[Item] \/ decision /= "reply"]
      \/ /\ decision = "reply" /\ NextItem /\ UNCHANGED failed
      \/ /\ decision /= "reply" /\ pc' = "resolve" /\ UNCHANGED <<work, failed>>
  BY DEF PostReply
<1>4. /\ AlreadyHandledAIFinding(notes'[Item])
      /\ ReplyKind = "confirm" => LatestBotNoteConfirms(notes'[Item])
      /\ \E i \in 2..Len(notes'[Item]) : notes'[Item][i] \in BotNotes
      /\ Len(notes'[Item]) = Len(notes[Item]) + 1 /\ notes'[Item] \in Seq(Notes)
  <2>1. notes'[Item] = Append(notes[Item], ReplyKind)
    BY <1>0, <1>2 DEF TypeOK
  <2>2. QED
    BY <1>1, <2>1, AfterBotNote
<1>5. /\ DOMAIN listed' = {} /\ DOMAIN items' \subseteq DOMAIN items
      /\ \A d \in DOMAIN items' : items'[d] = items[d]
      /\ Item \in DOMAIN items' => pc' = "resolve" /\ items' = items
  BY <1>0, <1>3, RestTyped, NobodyTyped DEF Stop, NextItem, work
<1>6. TypeOK'
  <2>1. /\ notes' \in [Discussions -> Seq(Notes)]
        /\ \A d \in Discussions : Len(notes'[d]) <= MaxNotes
        /\ spoken' \in [Discussions -> Nat]
    BY <1>0, <1>2, <1>4, WarriorAssumption DEF TypeOK
  <2>2. failed' \in [Discussions -> BOOLEAN]
    BY <1>0, <1>3 DEF TypeOK
  <2>3. Snapshots(items') /\ Snapshots(listed') /\ page' \in Nat
    BY <1>0, <1>3, RestTyped, NobodyTyped DEF TypeOK, Stop, NextItem, work
  <2>4. /\ pc' \in {"idle", "decide", "resolve"}
        /\ pc' \in {"decide", "resolve"} <=> DOMAIN items' /= {}
        /\ decision' \in Actions \cup {"none"}
        /\ pc' = "resolve" => decision' \in Actions \ {"noop"}
    BY <1>0, <1>3, RestTyped, NobodyTyped DEF TypeOK, Stop, NextItem, work
  <2>5. QED
    BY <1>0, <2>1, <2>2, <2>3, <2>4 DEF TypeOK
<1>7. \A d \in Discussions : d /= Item => notes'[d] = notes[d] /\ spoken'[d] = spoken[d]
                                          /\ failed'[d] = failed[d]
  BY <1>0, <1>2, <1>3 DEF TypeOK
<1>8. SnapshotInv'
  <2>1. \A d \in DOMAIN items' : ShouldProcess(d, items'[d])
    BY <1>5 DEF IInv, SnapshotInv
  <2>2. \A d \in DOMAIN items' : d \in Discussions /\ (d = Item => Closing(d)')
    BY <1>0, <1>5 DEF TypeOK, Snapshots, Closing, Item
  <2>3. \A d \in DOMAIN items' : d /= Item /\ spoken[d] > 0 => Fresh(d, items[d])
    BY <1>0, <1>5 DEF IInv, SnapshotInv, Closing
  <2>4. \A d \in DOMAIN items' : spoken'[d] > 0 /\ ~Closing(d)' => Fresh(d, items[d])'
    BY <1>0, <1>5, <1>7, <2>2, <2>3 DEF Fresh
  <2>5. QED
    BY <1>5, <2>1, <2>4 DEF SnapshotInv
<1>9. HandledInv'
  BY <1>4, <1>7, <1>1 DEF IInv, HandledInv
<1>10. SettledInv'
  <2> SUFFICES ASSUME NEW d \in Discussions, spoken'[d] >= 2, ~failed'[d]
               PROVE  /\ spoken'[d] = 2
                      /\ IF Closing(d)' THEN decision' = "unresolve" \/ LatestBotNoteConfirms(notes'[d])
                         ELSE Settled(d)'
    BY DEF SettledInv
  <2>1. CASE d /= Item
    <3>1. ~Closing(d) /\ ~Closing(d)'
      BY <1>0, <1>5, <1>3, <2>1 DEF Closing, Stop, NextItem, work, Item
    <3>2. QED
      BY <1>0, <1>7, <2>1, <3>1 DEF IInv, SettledInv, Settled
  <2>2. CASE d = Item
    <3>1. spoken[Item] \in Nat /\ spoken'[Item] = spoken[Item] + 1 /\ failed[Item] \in BOOLEAN
      BY <1>0, <1>2 DEF TypeOK
    <3>2. spoken[Item] > 0
      BY <2>2, <3>1
    <3>3. /\ ~LatestBotNoteConfirms(notes[Item]) /\ resolved[Item]
          /\ decision = "unresolve" \/ ReplyKind = "confirm"
      BY <3>2, SpeaksAgain
    <3>4. ~failed[Item]
      BY <1>0, <1>3, <2>2 DEF TypeOK
    <3>5. ~(spoken[Item] >= 2)
      BY <1>0, <3>3, <3>4 DEF IInv, SettledInv, Settled, Closing
    <3>6. spoken'[d] = 2
      BY <2>2, <3>1, <3>2, <3>5
    <3>7. CASE ReplyKind = "confirm"
      BY <1>4, <2>2, <3>6, <3>7 DEF Settled
    <3>8. CASE decision = "unresolve"
      <4>1. pc' = "resolve" /\ decision' = "unresolve" /\ items' = items
        BY <1>0, <1>3, <2>2, <3>8 DEF TypeOK, work
      <4>2. Closing(d)'
        BY <2>2, <4>1 DEF Closing, Item
      <4>3. QED
        BY <3>6, <4>1, <4>2
    <3>9. QED
      BY <3>3, <3>7, <3>8
  <2>3. QED
    BY <2>1, <2>2
<1>11. ExplainedInv'
  <2>1. pc' = "resolve" => Item' = Item
    BY <1>3 DEF Stop, NextItem, work, Item
  <2>2. QED
    BY <1>4, <2>1 DEF ExplainedInv
<1> QED
  BY <1>6, <1>8, <1>9, <1>10, <1>11 DEF IInv

LEMMA SetResolvedInv == IInv /\ SetResolved => IInv'
<1> SUFFICES ASSUME IInv, SetResolved PROVE IInv'
  OBVIOUS
<1>0. /\ TypeOK /\ pc = "resolve" /\ Item \in DOMAIN items /\ Item \in Discussions
      /\ DOMAIN listed = {} /\ UNCHANGED <<notes, history>>
      /\ resolved' = [resolved EXCEPT ![Item] = (decision = "resolve")]
  BY ItemFirst DEF IInv, TypeOK, SnapshotInv, SetResolved
<1>1. NextItem \/ (pc' = "idle" /\ Stop)
  BY DEF SetResolved
<1>2. /\ DOMAIN listed' = {} /\ DOMAIN items' \subseteq DOMAIN items \ {Item}
      /\ \A d \in DOMAIN items' : items'[d] = items[d]
      /\ pc' \in {"idle", "decide"}
  BY <1>0, <1>1, RestTyped, NobodyTyped DEF Stop, NextItem
<1>3. TypeOK'
  <2>1. resolved' \in [Discussions -> BOOLEAN]
    BY <1>0 DEF TypeOK
  <2>2. Snapshots(items') /\ Snapshots(listed') /\ page' \in Nat
    BY <1>0, <1>1, RestTyped, NobodyTyped DEF TypeOK, Stop, NextItem
  <2>3. pc' = "decide" <=> DOMAIN items' /= {}
    BY <1>0, <1>1, RestTyped, NobodyTyped DEF Stop, NextItem
  <2>4. decision' = "none"
    BY <1>1 DEF Stop, NextItem
  <2>5. QED
    BY <1>0, <1>2, <2>1, <2>2, <2>3, <2>4 DEF TypeOK, history
<1>4. \A d \in Discussions : d /= Item => resolved'[d] = resolved[d]
  BY <1>0 DEF TypeOK
<1>5. SnapshotInv'
  <2>1. \A d \in DOMAIN items' : ShouldProcess(d, items'[d]) /\ d /= Item /\ d \in Discussions
    BY <1>0, <1>2 DEF IInv, SnapshotInv, TypeOK, Snapshots
  <2>2. \A d \in DOMAIN items' : spoken[d] > 0 => Fresh(d, items[d])
    BY <1>0, <1>2, <2>1 DEF IInv, SnapshotInv, Closing
  <2>3. \A d \in DOMAIN items' : spoken'[d] > 0 => Fresh(d, items[d])'
    BY <1>0, <1>2, <1>4, <2>1, <2>2 DEF Fresh, history
  <2>4. QED
    BY <1>2, <2>1, <2>3 DEF SnapshotInv
<1>6. HandledInv' /\ ExplainedInv'
  BY <1>0, <1>2 DEF IInv, HandledInv, ExplainedInv, history
<1>7. SettledInv'
  <2> SUFFICES ASSUME NEW d \in Discussions, spoken[d] >= 2, ~failed[d]
               PROVE  spoken[d] = 2 /\ Settled(d)'
    BY <1>0, <1>2 DEF SettledInv, Closing, history
  <2>1. /\ spoken[d] = 2
        /\ IF Closing(d) THEN decision = "unresolve" \/ LatestBotNoteConfirms(notes[d]) ELSE Settled(d)
    BY DEF IInv, SettledInv
  <2>2. CASE d /= Item
    BY <1>0, <1>4, <2>1, <2>2 DEF Closing, Settled
  <2>3. CASE d = Item
    BY <1>0, <2>1, <2>3 DEF Closing, Settled, TypeOK
  <2>4. QED
    BY <2>1, <2>2, <2>3
<1> QED
  BY <1>3, <1>5, <1>6, <1>7 DEF IInv

LEMMA SetResolvedFailsInv == IInv /\ SetResolvedFails => IInv'
<1> SUFFICES ASSUME IInv, SetResolvedFails PROVE IInv'
  OBVIOUS
<1>0. /\ TypeOK /\ pc = "resolve" /\ Item \in DOMAIN items /\ Item \in Discussions
      /\ UNCHANGED <<notes, resolved, spoken>> /\ failed' = [failed EXCEPT ![Item] = TRUE]
      /\ pc' = "idle" /\ page' = 0 /\ listed' = Nobody /\ items' = Nobody /\ decision' = "none"
  BY ItemFirst DEF IInv, TypeOK, SetResolvedFails, Stop, gitlab
<1>1. TypeOK'
  BY <1>0, NobodyTyped DEF TypeOK
<1>2. SnapshotInv' /\ ExplainedInv' /\ HandledInv'
  BY <1>0, NobodyTyped DEF IInv, SnapshotInv, ExplainedInv, HandledInv
<1>3. SettledInv'
  <2> SUFFICES ASSUME NEW d \in Discussions, spoken[d] >= 2, ~failed'[d]
               PROVE  spoken[d] = 2 /\ Settled(d)'
    BY <1>0 DEF SettledInv, Closing
  <2>1. d /= Item /\ ~failed[d]
    BY <1>0 DEF TypeOK
  <2>2. QED
    BY <1>0, <2>1 DEF IInv, SettledInv, Closing, Settled
<1> QED
  BY <1>1, <1>2, <1>3 DEF IInv

\* A person's act on d starts the count of d again.
LEMMA PersonInv ==
    ASSUME IInv, NEW d \in Discussions,
           PersonToggles(d) \/ \E n \in Notes : PersonWrites(d, n)
    PROVE  IInv'
<1>0. /\ TypeOK /\ UNCHANGED <<pc, work>> /\ Heard(d)
      /\ \/ notes' = notes /\ resolved' = [resolved EXCEPT ![d] = ~resolved[d]]
         \/ /\ UNCHANGED resolved /\ Len(notes[d]) < MaxNotes
            /\ \E n \in Notes : notes' = [notes EXCEPT ![d] = Append(notes[d], n)]
  BY DEF IInv, PersonToggles, PersonWrites
<1>1. /\ spoken'[d] = 0 /\ spoken' \in [Discussions -> Nat] /\ failed' \in [Discussions -> BOOLEAN]
      /\ \A e \in Discussions : e /= d => /\ notes'[e] = notes[e] /\ resolved'[e] = resolved[e]
                                         /\ spoken'[e] = spoken[e] /\ failed'[e] = failed[e]
  BY <1>0 DEF TypeOK, Heard
<1>2. /\ notes'[d] \in Seq(Notes) /\ Len(notes[d]) <= Len(notes'[d]) /\ Len(notes'[d]) <= MaxNotes
      /\ \A i \in 1..Len(notes[d]) : notes'[d][i] = notes[d][i]
  <2>1. notes[d] \in Seq(Notes) /\ Len(notes[d]) <= MaxNotes /\ notes \in [Discussions -> Seq(Notes)]
    BY <1>0 DEF TypeOK
  <2>2. CASE notes' = notes
    BY <2>1, <2>2
  <2>3. CASE Len(notes[d]) < MaxNotes /\ \E n \in Notes : notes' = [notes EXCEPT ![d] = Append(notes[d], n)]
    <3>1. PICK n \in Notes : notes'[d] = Append(notes[d], n)
      BY <2>1, <2>3
    <3>2. QED
      BY <2>1, <2>3, <3>1, WarriorAssumption
  <2>4. QED
    BY <1>0, <2>2, <2>3
<1>3. TypeOK'
  <2>1. notes' \in [Discussions -> Seq(Notes)] /\ resolved' \in [Discussions -> BOOLEAN]
    BY <1>0, <1>1, <1>2 DEF TypeOK
  <2>2. \A e \in Discussions : Len(notes'[e]) <= MaxNotes
    BY <1>0, <1>1, <1>2 DEF TypeOK
  <2>3. QED
    BY <1>0, <1>1, <2>1, <2>2 DEF TypeOK, work
<1>4. Item' = Item /\ \A e \in Discussions : Closing(e)' = Closing(e)
  BY <1>0 DEF work, Item, Closing
<1>5. SnapshotInv'
  <2>1. /\ DOMAIN items \subseteq Discussions /\ DOMAIN listed \subseteq Discussions
        /\ UNCHANGED <<pc, listed, items>>
    BY <1>0 DEF TypeOK, Snapshots, work
  <2>2. \A e \in Discussions : spoken'[e] > 0 => /\ e /= d /\ spoken[e] > 0
                                                /\ resolved'[e] = resolved[e] /\ notes'[e] = notes[e]
    BY <1>1
  <2>3. QED
    BY <1>4, <2>1, <2>2 DEF IInv, SnapshotInv, Fresh
<1>6. HandledInv'
  <2>1. Len(notes'[d]) > 0
    <3>1. notes[d] \in Seq(Notes) /\ Len(notes[d]) > 0
      BY <1>0 DEF IInv, TypeOK, HandledInv
    <3>2. QED
      BY <1>2, <3>1
  <2>2. QED
    BY <1>1, <2>1 DEF IInv, HandledInv
<1>7. SettledInv'
  <2> SUFFICES ASSUME NEW e \in Discussions, spoken'[e] >= 2
               PROVE  \/ failed'[e]
                      \/ /\ spoken'[e] = 2
                         /\ IF Closing(e)' THEN decision' = "unresolve" \/ LatestBotNoteConfirms(notes'[e])
                            ELSE Settled(e)'
    BY DEF SettledInv
  <2>1. e /= d
    BY <1>1
  <2>2. QED
    BY <1>0, <1>1, <1>4, <2>1 DEF IInv, SettledInv, Settled, work
<1>8. ExplainedInv'
  <2> SUFFICES ASSUME pc = "resolve"
               PROVE  \E i \in 2..Len(notes'[Item]) : notes'[Item][i] \in BotNotes
    BY <1>0, <1>4 DEF ExplainedInv
  <2>1. Item \in Discussions
    BY <1>0, ItemFirst DEF TypeOK
  <2>2. notes[Item] \in Seq(Notes) /\ notes'[Item] \in Seq(Notes)
    BY <1>0, <1>3, <2>1 DEF TypeOK
  <2>3. PICK i \in 2..Len(notes[Item]) : notes[Item][i] \in BotNotes
    BY DEF IInv, ExplainedInv
  <2>4. i \in 2..Len(notes'[Item]) /\ notes'[Item][i] \in BotNotes
    BY <1>1, <1>2, <2>1, <2>2, <2>3
  <2>5. QED
    BY <2>4
<1> QED
  BY <1>3, <1>5, <1>6, <1>7, <1>8 DEF IInv

LEMMA SystemNoteInv == ASSUME IInv, NEW d \in Discussions, SystemNote(d) PROVE IInv'
<1>0. /\ TypeOK /\ UNCHANGED <<resolved, pc, work, history>> /\ Len(notes[d]) < MaxNotes
      /\ notes[d] \in Seq(Notes) /\ notes' = [notes EXCEPT ![d] = Append(notes[d], "system")]
  BY DEF IInv, TypeOK, SystemNote
<1>1. /\ notes'[d] = Append(notes[d], "system") /\ "system" \in Notes
      /\ \A e \in Discussions : e /= d => notes'[e] = notes[e]
  BY <1>0 DEF TypeOK, Notes
<1>2. /\ AlreadyHandledAIFinding(notes[d]) => AlreadyHandledAIFinding(notes'[d])
      /\ LatestBotNoteConfirms(notes[d]) => LatestBotNoteConfirms(notes'[d])
      /\ \A old \in Seq(Notes) : OnlySystemSince(notes[d], old) => OnlySystemSince(notes'[d], old)
      /\ \A i \in 1..Len(notes[d]) : notes'[d][i] = notes[d][i]
      /\ Len(notes'[d]) = Len(notes[d]) + 1 /\ notes'[d] \in Seq(Notes)
  BY <1>0, <1>1, AfterSystemNote
<1>3. TypeOK'
  <2>1. notes' \in [Discussions -> Seq(Notes)]
    BY <1>0, <1>1, <1>2 DEF TypeOK
  <2>2. \A e \in Discussions : Len(notes'[e]) <= MaxNotes
    BY <1>0, <1>1, <1>2, WarriorAssumption DEF TypeOK
  <2>3. QED
    BY <1>0, <2>1, <2>2 DEF TypeOK, work, history
<1>4. Item' = Item /\ \A e \in Discussions : Closing(e)' = Closing(e)
  BY <1>0 DEF work, Item, Closing
<1>5. SnapshotInv'
  <2>1. /\ Snapshots(items) /\ Snapshots(listed) /\ UNCHANGED <<pc, listed, items, spoken, resolved>>
    BY <1>0 DEF TypeOK, work, history
  <2>2. \A e \in Discussions : \A s \in Snapshot : Fresh(e, s) => Fresh(e, s)'
    <3> SUFFICES ASSUME NEW e \in Discussions, NEW s \in Snapshot, Fresh(e, s) PROVE Fresh(e, s)'
      OBVIOUS
    <3>1. s.notes \in Seq(Notes)
      BY DEF Snapshot
    <3>2. QED
      BY <1>1, <1>2, <2>1, <3>1 DEF Fresh
  <2>3. QED
    BY <1>4, <2>1, <2>2 DEF IInv, SnapshotInv, Snapshots
<1>6. HandledInv'
  BY <1>0, <1>1, <1>2 DEF IInv, HandledInv, history
<1>7. SettledInv'
  <2>1. \A e \in Discussions : LatestBotNoteConfirms(notes[e]) => LatestBotNoteConfirms(notes'[e])
    BY <1>1, <1>2
  <2>2. QED
    BY <1>0, <1>4, <2>1 DEF IInv, SettledInv, Settled, work, history
<1>8. ExplainedInv'
  <2> SUFFICES ASSUME pc = "resolve"
               PROVE  \E i \in 2..Len(notes'[Item]) : notes'[Item][i] \in BotNotes
    BY <1>0, <1>4 DEF ExplainedInv
  <2>1. Item \in Discussions
    BY <1>0, ItemFirst DEF TypeOK
  <2>2. PICK i \in 2..Len(notes[Item]) : notes[Item][i] \in BotNotes
    BY DEF IInv, ExplainedInv
  <2>3. i \in 2..Len(notes'[Item]) /\ notes'[Item][i] \in BotNotes
    BY <1>0, <1>1, <1>2, <2>1, <2>2
  <2>4. QED
    BY <2>3
<1> QED
  BY <1>3, <1>5, <1>6, <1>7, <1>8 DEF IInv

LEMMA StutterInv == IInv /\ UNCHANGED vars => IInv'
<1> SUFFICES ASSUME IInv, UNCHANGED vars PROVE IInv'
  OBVIOUS
<1> USE DEF IInv, vars, gitlab, work, history
<1>1. TypeOK'
  BY DEF TypeOK
<1>2. SnapshotInv' /\ HandledInv'
  BY DEF SnapshotInv, HandledInv, Fresh, Closing, Item
<1>3. SettledInv' /\ ExplainedInv'
  BY DEF SettledInv, ExplainedInv, Settled, Closing, Item
<1> QED
  BY <1>1, <1>2, <1>3

LEMMA NextInv == IInv /\ [Next]_vars => IInv'
BY StartInv, ListPageInv, DecideInv, PostReplyInv, SetResolvedInv, SetResolvedFailsInv,
   RunFailsInv, PersonInv, SystemNoteInv, StutterInv DEF Next, RunStep, OthersStep

LEMMA Invariant == Spec => []IInv
BY InitInv, NextInv, PTL DEF Spec

----------------------------------------------------------------------------
\* TypeOK: whatever fails, a run that is at work holds the discussions it has still to
\* answer, and no discussion takes more notes than GitLab lets it.
THEOREM TypeCorrect == Spec => []TypeOK
<1>1. IInv => TypeOK
  BY DEF IInv
<1>2. QED
  BY <1>1, Invariant, PTL

\* The bot does not talk to itself: two notes at most, over any number of runs, until a
\* person acts (or the resolved flag could not be set).
THEOREM QuietWithoutPeopleCorrect == Spec => []QuietWithoutPeople
<1>1. IInv => QuietWithoutPeople
  BY DEF IInv, SettledInv, QuietWithoutPeople, TypeOK
<1>2. QED
  BY <1>1, Invariant, PTL

\* Once it has confirmed a closure the bot adds nothing until a person acts, although it
\* decides on snapshots.
THEOREM ConfirmationIsFinalCorrect == Spec => ConfirmationIsFinal
<1> DEFINE Final == \A d \in Discussions :
                       spoken[d] > 0 /\ LatestBotNoteConfirms(notes[d]) => spoken'[d] <= spoken[d]
<1>1. IInv /\ [Next]_vars => [Final]_vars
  <2> SUFFICES ASSUME IInv, Next, NEW d \in Discussions, spoken[d] > 0,
                      LatestBotNoteConfirms(notes[d])
               PROVE  spoken'[d] <= spoken[d]
    BY DEF Final
  <2>0. spoken \in [Discussions -> Nat] /\ TypeOK
    BY DEF IInv, TypeOK
  <2>1. CASE PostReply
    <3>1. d /= Item
      BY <2>1, SpeaksAgain
    <3>2. spoken' = [spoken EXCEPT ![Item] = spoken[Item] + 1]
      BY <2>1 DEF PostReply, Say
    <3>3. QED
      BY <2>0, <3>1, <3>2
  <2>2. CASE RunStep /\ ~PostReply
    BY <2>0, <2>2 DEF RunStep, StartRun, ListPage, StartRuntime, Decide, SetResolved,
       SetResolvedFails, RunFails, history
  <2>3. CASE OthersStep
    BY <2>0, <2>3 DEF OthersStep, PersonToggles, PersonWrites, SystemNote, Heard,
       history
  <2>4. QED
    BY <2>1, <2>2, <2>3 DEF Next
<1>2. QED
  BY <1>1, Invariant, PTL DEF Spec, ConfirmationIsFinal

\* The bot never closes or re-opens a discussion in which it has not explained itself.
THEOREM NeverClosedSilentlyCorrect == Spec => NeverClosedSilently
<1> DEFINE Explained == \A d \in Discussions :
        RunStep /\ resolved'[d] /= resolved[d] => \E i \in 2..Len(notes[d]) : notes[d][i] \in BotNotes
<1>1. IInv /\ [Next]_vars => [Explained]_vars
  <2> SUFFICES ASSUME IInv, RunStep, NEW d \in Discussions, resolved'[d] /= resolved[d]
               PROVE  \E i \in 2..Len(notes[d]) : notes[d][i] \in BotNotes
    BY DEF Explained
  <2>1. SetResolved
    BY DEF RunStep, StartRun, ListPage, StartRuntime, Decide, PostReply,
       SetResolvedFails, RunFails, gitlab
  <2>2. pc = "resolve" /\ d = Item
    BY <2>1 DEF SetResolved, IInv
  <2>3. QED
    BY <2>2 DEF IInv, ExplainedInv
<1>2. QED
  BY <1>1, Invariant, PTL DEF Spec, NeverClosedSilently
============================================================================
