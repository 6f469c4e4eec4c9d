------------------------ MODULE MergeRequestNotes ------------------------
(***************************************************************************)
(* Publishing a review on a GitLab merge request                           *)
(* (internal/shared/vcs/gitlab/publisher.go, client.go): the publisher      *)
(* deletes the unanswered comments of its earlier reviews page by page,     *)
(* then posts a summary, the findings it cannot place in the diff, and the  *)
(* inline findings.  People answer, resolve and open threads meanwhile; any *)
(* request may fail, or succeed with its answer lost.                       *)
(*                                                                          *)
(* Note texts are left out.  A thread is what its first note is: "old" (of  *)
(* the bot, before this run), "person", "system", or a note of this run.    *)
(***************************************************************************)
EXTENDS Naturals, FiniteSets

CONSTANTS Old,            \* threads on the merge request at the start
          InDiff,         \* findings with a position inside a hunk
          OutOfDiff,      \* findings without one
          PageSize,       \* per_page (100)
          ClearComments,  \* gitlab.clear_comments
          MaxActs         \* bound: what people do meanwhile, how many times

ASSUME NotesAssumption ==
    /\ Old \in Nat /\ InDiff \in Nat /\ OutOfDiff \in Nat
    /\ PageSize \in Nat \ {0} /\ ClearComments \in BOOLEAN /\ MaxActs \in Nat

VARIABLES
    threads,    \* the threads of the merge request by id, which is their listing order
    lastId,     \* ids given out
    pc,
    page,       \* page being cleared
    pageItems,  \* the threads of the page as they were listed, not yet looked at
    lastPage,   \* that page was short
    posts,      \* findings posted or tried, in their order
    intact,     \* history: no request of this run has failed
    acts        \* things people have done

vars == <<threads, lastId, pc, page, pageItems, lastPage, posts, intact, acts>>

Note(k) == [kind |-> k, finding |-> 0]
OldNotes == {Note("old"), Note("person"), Note("system")}

\* Notes of this run: those outside the diff are posted before the inline ones.
Summary == Note("summary")
Findings == [i \in 1..OutOfDiff + InDiff |->
               [kind |-> IF i <= OutOfDiff THEN "fallback" ELSE "inline", finding |-> i]]
NewNotes == {Summary} \cup {Findings[i] : i \in DOMAIN Findings}

NoThreads == [id \in {} |-> Summary]

Init ==
    /\ threads \in [1..Old -> [note : OldNotes, answered : BOOLEAN, resolved : BOOLEAN]]
    /\ lastId = Old
    /\ pc = "find" /\ page = 0 /\ pageItems = NoThreads /\ lastPage = FALSE /\ posts = 0
    /\ intact = TRUE /\ acts = 0

----------------------------------------------------------------------------
(* GitLab (external) *)

Succeeds(next) == pc' = next /\ UNCHANGED intact
Fails(next) == pc' = next /\ intact' = FALSE

AddThread(n) ==
    /\ lastId' = lastId + 1
    /\ threads' = [id \in DOMAIN threads \cup {lastId'} |->
                     IF id = lastId' THEN [note |-> n, answered |-> FALSE, resolved |-> FALSE]
                     ELSE threads[id]]

\* Deleting the only note of a thread removes the thread and the later threads move
\* up; an answer that has arrived since remains.
DeleteNote(gone) ==
    threads' = [id \in {t \in DOMAIN threads : t /= gone \/ threads[t].answered} |->
                  IF id = gone
                    THEN [threads[id] EXCEPT !.note = Note("person"), !.answered = FALSE]
                    ELSE threads[id]]

----------------------------------------------------------------------------
(* Publish, ClearMRComments *)

FindMergeRequest ==
    /\ pc = "find"
    /\ \/ Succeeds(IF ClearComments THEN "me" ELSE "refs")
       \/ Fails("done")
    /\ UNCHANGED <<threads, lastId, page, pageItems, lastPage, posts, acts>>

\* A failure to clear is only logged.
GetCurrentUser ==
    /\ pc = "me"
    /\ \/ Succeeds("list") /\ page' = 1
       \/ Fails("refs") /\ UNCHANGED page
    /\ UNCHANGED <<threads, lastId, pageItems, lastPage, posts, acts>>

Place(id) == Cardinality({t \in DOMAIN threads : t <= id})
Page(n) == {id \in DOMAIN threads : (n - 1) * PageSize < Place(id) /\ Place(id) <= n * PageSize}

ListPage ==
    /\ pc = "list"
    /\ \/ /\ Succeeds("delete") /\ pageItems' = [id \in Page(page) |-> threads[id]]
          /\ lastPage' = (Cardinality(Page(page)) < PageSize)
       \/ Fails("refs") /\ UNCHANGED <<pageItems, lastPage>>
    /\ UNCHANGED <<threads, lastId, page, posts, acts>>

\* Bug: whose note it is is not looked at.
ClearableOfAnyone(t) ==
    /\ ~t.answered /\ t.note.kind /= "system" /\ ~t.resolved

\* clearable, and the current user's.
Clearable(t) ==
    /\ ~t.answered /\ t.note.kind /= "system" /\ ~t.resolved
    /\ t.note.kind /= "person"

Item == CHOOSE id \in DOMAIN pageItems : \A other \in DOMAIN pageItems : id <= other
Rest == [id \in DOMAIN pageItems \ {Item} |-> pageItems[id]]

\* Bug: the first thread that is not clearable ends the page.
SkipRestOfPage ==
    /\ pc = "delete" /\ DOMAIN pageItems /= {} /\ ~Clearable(pageItems[Item])
    /\ pageItems' = NoThreads
    /\ UNCHANGED <<threads, lastId, pc, page, lastPage, posts, intact, acts>>

SkipThread ==
    /\ pc = "delete" /\ DOMAIN pageItems /= {} /\ ~Clearable(pageItems[Item])
    /\ pageItems' = Rest
    /\ UNCHANGED <<threads, lastId, pc, page, lastPage, posts, intact, acts>>

\* Bug: a failed deletion is tried again at once.
DeleteUntilGone ==
    /\ pc = "delete" /\ DOMAIN pageItems /= {} /\ Clearable(pageItems[Item])
    /\ \/ DeleteNote(Item) /\ pageItems' = Rest /\ Succeeds("delete")
       \/ UNCHANGED <<threads, pageItems>> /\ intact' = ~intact /\ pc' = pc
    /\ UNCHANGED <<lastId, page, lastPage, posts, acts>>

\* A failed deletion is only logged.
DeleteThread ==
    /\ pc = "delete" /\ DOMAIN pageItems /= {} /\ Clearable(pageItems[Item])
    /\ \/ DeleteNote(Item) /\ Succeeds("delete")
       \/ DeleteNote(Item) /\ Fails("delete")
       \/ UNCHANGED threads /\ Fails("delete")
    /\ pageItems' = Rest
    /\ UNCHANGED <<lastId, page, lastPage, posts, acts>>

\* A page shorter than PageSize is the last one.
EndPage ==
    /\ pc = "delete" /\ DOMAIN pageItems = {}
    /\ IF lastPage THEN pc' = "refs" /\ UNCHANGED page ELSE pc' = "list" /\ page' = page + 1
    /\ UNCHANGED <<threads, lastId, pageItems, lastPage, posts, intact, acts>>

GetMRDiffRefs ==
    /\ pc = "refs"
    /\ Succeeds("summary") \/ Fails("done")
    /\ UNCHANGED <<threads, lastId, page, pageItems, lastPage, posts, acts>>

\* Without its summary nothing of a review is posted.
PostSummary ==
    /\ pc = "summary"
    /\ \/ AddThread(Summary) /\ Succeeds("post")
       \/ AddThread(Summary) /\ Fails("done")
       \/ UNCHANGED <<threads, lastId>> /\ Fails("done")
    /\ UNCHANGED <<page, pageItems, lastPage, posts, acts>>

\* Bug: a finding whose post failed is posted again.
PostFindingAgain ==
    /\ pc = "post" /\ posts + 1 \in DOMAIN Findings
    /\ \/ AddThread(Findings[posts + 1]) /\ Succeeds("post") /\ posts' = posts + 1
       \/ AddThread(Findings[posts + 1]) /\ Fails("post") /\ UNCHANGED posts
       \/ UNCHANGED <<threads, lastId, posts>> /\ Fails("post")
    /\ UNCHANGED <<page, pageItems, lastPage, acts>>

\* Fallback notes, then inline notes; a failed one is only counted.
PostFinding ==
    /\ pc = "post" /\ posts + 1 \in DOMAIN Findings
    /\ \/ AddThread(Findings[posts + 1]) /\ Succeeds("post")
       \/ AddThread(Findings[posts + 1]) /\ Fails("post")
       \/ UNCHANGED <<threads, lastId>> /\ Fails("post")
    /\ posts' = posts + 1
    /\ UNCHANGED <<page, pageItems, lastPage, acts>>

AllPosted ==
    /\ pc = "post" /\ posts + 1 \notin DOMAIN Findings
    /\ pc' = "done"
    /\ UNCHANGED <<threads, lastId, page, pageItems, lastPage, posts, intact, acts>>

----------------------------------------------------------------------------
(* People on the merge request (external) *)

Acts == acts < MaxActs /\ acts' = acts + 1 /\ pc /= "done"
        /\ UNCHANGED <<pc, page, pageItems, lastPage, posts, intact>>

Answer(id) == Acts /\ threads' = [threads EXCEPT ![id].answered = TRUE] /\ UNCHANGED lastId
Resolve(id) == Acts /\ threads' = [threads EXCEPT ![id].resolved = TRUE] /\ UNCHANGED lastId
OpenThread == Acts /\ AddThread(Note("person"))

----------------------------------------------------------------------------
ClearStep == GetCurrentUser \/ ListPage \/ SkipThread \/ DeleteThread \/ EndPage
PostStep == GetMRDiffRefs \/ PostSummary \/ PostFinding \/ AllPosted
PublishStep == FindMergeRequest \/ ClearStep \/ PostStep
PeopleStep == OpenThread \/ \E id \in DOMAIN threads : Answer(id) \/ Resolve(id)

Done == pc = "done" /\ UNCHANGED vars

Next == PublishStep \/ PeopleStep \/ Done

Spec == Init /\ [][Next]_vars

\* Every request returns: the client has a timeout of 30 seconds.
FairSpec == Spec /\ WF_vars(PublishStep)

----------------------------------------------------------------------------
(* Properties *)

Thread == [note : OldNotes \cup NewNotes, answered : BOOLEAN, resolved : BOOLEAN]
Threads(ts) == DOMAIN ts \subseteq 1..lastId /\ ts \in [DOMAIN ts -> Thread]

TypeOK ==
    /\ lastId \in Nat /\ Threads(threads) /\ Threads(pageItems)
    /\ pc \in {"find", "me", "list", "delete", "refs", "summary", "post", "done"}
    /\ page \in 0..lastId + 1 /\ lastPage \in BOOLEAN
    /\ posts \in 0..OutOfDiff + InDiff
    /\ intact \in BOOLEAN /\ acts \in 0..MaxActs

\* A publication takes from the merge request only comments the bot left there in
\* an earlier review: what people wrote stays, whatever they do while the threads
\* are listed and deleted, and so do the notes of this run.
OnlyOwnCommentsGo ==
    [][\A id \in DOMAIN threads :
         threads[id].note.kind /= "old" =>
           id \in DOMAIN threads' /\ threads'[id].note = threads[id].note]_vars

KindIs(kinds) == {id \in DOMAIN threads : threads[id].note.kind \in kinds}

Contract == INSTANCE PublicationContract WITH
    Notes <- OutOfDiff + InDiff,
    earlier <- KindIs({"old"}),
    others <- KindIs({"person", "system"}),
    review <- [id \in KindIs({"summary", "fallback", "inline"}) |-> threads[id].note.finding]

\* Page by page, with requests that fail and people who act in between, a publication
\* is what PublicationContract says: earlier comments go only before the summary stands,
\* and nothing of the review is posted out of its place or a second time.
ImplementsContract == Contract!Spec

Published(n) == {id \in DOMAIN threads : threads[id].note = n}

\* Each note of a review is posted at most once, even when the answer to its post
\* was lost, and findings are posted only under the summary they belong to.
PostedOnceUnderSummary ==
    \A n \in NewNotes : \A id \in Published(n) :
        /\ \A other \in Published(n) : other = id
        /\ \E above \in Published(Summary) : above <= id

\* If no request fails every finding is posted, those outside the diff too, and the
\* first page holds no comment of an earlier review that was open and unanswered
\* all along.
WholeWhenIntact ==
    pc = "done" /\ intact =>
        /\ \A n \in NewNotes : Published(n) /= {}
        /\ ClearComments => \A id \in DOMAIN threads :
              threads[id].note.kind = "old" /\ id <= PageSize
                => threads[id].answered \/ threads[id].resolved

\* Publishing ends although the pages shift while they are cleared.
PublishEnds == <>(pc = "done")

\* ClearMRComments: "It pages through all discussions and removes those that are
\* clearable [...] and belong to the current user" (client.go:177-179).
AllCleared ==
    pc = "done" /\ intact /\ ClearComments =>
        \A id \in DOMAIN threads : ~(threads[id].note.kind = "old" /\ Clearable(threads[id]))
============================================================================
