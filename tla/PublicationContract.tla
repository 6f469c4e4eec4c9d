------------------------ MODULE PublicationContract ------------------------
(***************************************************************************)
(* What publishing a review does to the threads of a merge request          *)
(* (Publisher.Publish, internal/shared/vcs/gitlab): it may take comments of  *)
(* earlier reviews away, and only until the summary stands; then it adds     *)
(* the summary and, below it, findings in their order, each at most once.    *)
(* Nothing else is taken or changed.  Pages, requests and what is made of    *)
(* their failures are left to MergeRequestNotes.                             *)
(***************************************************************************)
EXTENDS Integers

CONSTANT Notes      \* findings of the review

VARIABLES earlier,  \* threads that begin with a comment of an earlier review
          others,   \* threads of people and of GitLab
          review,   \* the review: its notes by thread, 0 the summary, i the i-th finding
          lastId    \* ids given out; a later thread has a greater one

vars == <<earlier, others, review, lastId>>

Init ==
    /\ lastId \in Nat
    /\ earlier \subseteq 1..lastId /\ others = 1..lastId \ earlier
    /\ review = [id \in {} |-> 0]

\* An answer that arrives before the deletion keeps the thread, now a person's.
Clear ==
    /\ DOMAIN review = {}
    /\ \E id \in earlier : earlier' = earlier \ {id} /\ others' \in {others, others \cup {id}}
    /\ UNCHANGED <<review, lastId>>

Post(note) ==
    /\ lastId' = lastId + 1
    /\ review' = [id \in DOMAIN review \cup {lastId'} |-> IF id = lastId' THEN note ELSE review[id]]
    /\ UNCHANGED <<earlier, others>>

PostSummary == DOMAIN review = {} /\ Post(0)

\* A finding may be left out, never posted late or again.
PostFinding ==
    /\ DOMAIN review /= {}
    /\ \E i \in 1..Notes : (\A id \in DOMAIN review : review[id] < i) /\ Post(i)

\* People go on meanwhile.
OpenThread ==
    /\ lastId' = lastId + 1 /\ others' = others \cup {lastId'}
    /\ UNCHANGED <<earlier, review>>

Next == Clear \/ PostSummary \/ PostFinding \/ OpenThread

Spec == Init /\ [][Next]_vars

\* Whoever reads the merge request from the top finds the summary first and the findings
\* below it in the order of the review, none twice.
InOrder ==
    /\ \A id \in DOMAIN review : \A later \in DOMAIN review :
          id < later => review[id] < review[later]
    /\ DOMAIN review /= {} => \E id \in DOMAIN review : review[id] = 0
============================================================================
