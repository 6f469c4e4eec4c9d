---------------------- MODULE MergeRequestNotes_proofs ----------------------
(***************************************************************************)
(* Proofs about MergeRequestNotes, for every number of threads and findings *)
(* and every page size, whatever people do and whichever request fails.      *)
(***************************************************************************)
EXTENDS MergeRequestNotes, Integers, FiniteSetTheorems, WellFoundedInduction, TLAPS

Clearing == {"find", "me", "list", "delete", "refs", "summary"}

\* The page that is being cleared is what the threads were when they were listed: since
\* then their first notes are the same, and they may have been answered or resolved.
PageInv ==
    /\ pc \in {"find", "me"} => page = 0
    /\ pc = "list" => page > 0
    /\ pc /= "delete" => DOMAIN pageItems = {}
    /\ pc = "delete" /\ ~lastPage => page <= lastId
    /\ \A id \in DOMAIN pageItems :
          /\ pageItems[id].note \in OldNotes
          /\ id \in DOMAIN threads =>
                /\ threads[id].note = pageItems[id].note
                /\ pageItems[id].answered => threads[id].answered
                /\ pageItems[id].resolved => threads[id].resolved

\* Notes of this run come after clearing, each after its summary and in their order.
PostedInv ==
    /\ pc \in Clearing => posts = 0 /\ \A id \in DOMAIN threads : threads[id].note \in OldNotes
    /\ PostedOnceUnderSummary
    /\ pc = "post" => /\ Published(Summary) /= {}
                      /\ \A i \in DOMAIN Findings : i > posts => Published(Findings[i]) = {}
    /\ intact /\ pc \in {"post", "done"} =>
          Published(Summary) /= {} /\ \A i \in 1..posts : Published(Findings[i]) /= {}
    /\ intact /\ pc = "done" => posts = OutOfDiff + InDiff

\* A comment of an earlier review that nobody has answered or resolved.
Forgotten(t) == t.note.kind = "old" /\ ~t.answered /\ ~t.resolved

\* While no request fails, such a comment of the first page is still ahead.
FirstPageInv ==
    intact /\ ClearComments =>
        \A id \in DOMAIN threads : Forgotten(threads[id]) /\ id <= PageSize =>
            \/ pc \in {"find", "me"}
            \/ pc = "list" /\ page = 1
            \/ pc = "delete" /\ page = 1 /\ id \in DOMAIN pageItems

IInv == TypeOK /\ PageInv /\ PostedInv /\ FirstPageInv

----------------------------------------------------------------------------
(* Notes, places, the first item *)

LEMMA NotesDistinct ==
    /\ OldNotes \cap NewNotes = {}
    /\ \A i, j \in DOMAIN Findings : Findings[i] = Findings[j] => i = j
    /\ \A i \in DOMAIN Findings : Findings[i] /= Summary /\ Findings[i] \in NewNotes
    /\ Summary \in NewNotes
    /\ DOMAIN Findings = 1..OutOfDiff + InDiff
<1>1. DOMAIN Findings = 1..OutOfDiff + InDiff
  BY DEF Findings
<1>2. \A i \in DOMAIN Findings : /\ Findings[i].finding = i
                                /\ Findings[i].kind \in {"fallback", "inline"}
  BY DEF Findings
<1>3. Summary.kind = "summary" /\ \A n \in OldNotes : n.kind \in {"old", "person", "system"}
  BY DEF Summary, Note, OldNotes
<1>4. QED
  BY <1>1, <1>2, <1>3 DEF NewNotes

LEMMA ItemFirst ==
    ASSUME TypeOK, DOMAIN pageItems /= {}
    PROVE  Item \in DOMAIN pageItems /\ Item \in 1..lastId
<1>1. DOMAIN pageItems \subseteq Nat /\ DOMAIN pageItems \subseteq 1..lastId
  BY DEF TypeOK, Threads
<1>2. PICK d \in DOMAIN pageItems : \A e \in DOMAIN pageItems : ~(<<e, d>> \in OpToRel(<, Nat))
  BY <1>1, NatLessThanWellFounded, WFMin
<1>3. \A e \in DOMAIN pageItems : d <= e
  <2> SUFFICES ASSUME NEW e \in DOMAIN pageItems, ~(d <= e) PROVE FALSE
    OBVIOUS
  <2>1. e \in Nat /\ d \in Nat /\ e < d
    BY <1>1
  <2>2. <<e, d>> \in Nat \X Nat /\ <<e, d>>[1] < <<e, d>>[2]
    BY <2>1
  <2>3. <<e, d>> \in OpToRel(<, Nat)
    BY <2>2, Zenon DEF OpToRel
  <2>4. QED
    BY <1>2, <2>3
<1>4. QED
  BY <1>1, <1>3 DEF Item

LEMMA RestTyped ==
    ASSUME TypeOK
    PROVE  /\ Threads(Rest) /\ DOMAIN Rest = DOMAIN pageItems \ {Item}
           /\ \A id \in DOMAIN Rest : Rest[id] = pageItems[id]
BY DEF TypeOK, Rest, Threads

\* A thread's place in the listing is at most its id.
LEMMA PlaceBound ==
    ASSUME TypeOK, NEW id \in DOMAIN threads
    PROVE  Place(id) \in 1..id
<1> DEFINE upTo == {t \in DOMAIN threads : t <= id}
<1>1. lastId \in Nat /\ DOMAIN threads \subseteq 1..lastId /\ id \in Nat /\ id >= 1
  BY DEF TypeOK, Threads
<1>2. upTo \subseteq 1..id
  BY <1>1
<1>3. IsFiniteSet(1..id) /\ Cardinality(1..id) = id
  <2>1. 1 \in Nat /\ IsFiniteSet(1..id) /\ Cardinality(1..id) = id - 1 + 1
    BY <1>1, FS_Interval
  <2>2. QED
    BY <1>1, <2>1
<1>4. IsFiniteSet(upTo) /\ Cardinality(upTo) <= id /\ Cardinality(upTo) \in Nat
  BY <1>2, <1>3, FS_Subset, FS_CardinalityType
<1>5. id \in upTo
  BY <1>1
<1>6. Cardinality(upTo) /= 0
  BY <1>4, <1>5, FS_EmptySet
<1>7. QED
  BY <1>1, <1>4, <1>6 DEF Place

\* All threads with an id up to the page size are on the first page.
LEMMA FirstPage ==
    ASSUME TypeOK, NEW id \in DOMAIN threads, id <= PageSize
    PROVE  id \in Page(1)
<1>1. Place(id) \in 1..id /\ PageSize \in Nat /\ id \in Nat
  BY PlaceBound, NotesAssumption DEF TypeOK, Threads
<1>2. (1 - 1) * PageSize = 0 /\ 1 * PageSize = PageSize
  BY <1>1
<1>3. QED
  BY <1>1, <1>2 DEF Page

LEMMA Multiple == ASSUME NEW a \in Nat, NEW b \in Nat, b >= 1 PROVE a * b >= a
BY SMT

\* A full page has a thread, whose place shows that the page number is not out of reach.
LEMMA FullPage ==
    ASSUME TypeOK, page > 0, ~(Cardinality(Page(page)) < PageSize)
    PROVE  page <= lastId
<1>1. PageSize \in Nat /\ PageSize >= 1 /\ page \in Nat /\ lastId \in Nat
  BY NotesAssumption DEF TypeOK
<1>2. Page(page) /= {}
  BY <1>1, FS_EmptySet
<1>3. PICK id \in DOMAIN threads : (page - 1) * PageSize < Place(id)
  BY <1>2 DEF Page
<1>4. Place(id) \in 1..id /\ id \in 1..lastId
  BY PlaceBound DEF TypeOK, Threads
<1> DEFINE before == page - 1
           done == before * PageSize
<1>5. before \in Nat /\ done \in Nat /\ page = before + 1
  BY <1>1
<1>6. done >= before
  BY <1>1, <1>5, Multiple
<1>7. done < Place(id)
  BY <1>3
<1> HIDE DEF before, done
<1>8. QED
  BY <1>1, <1>4, <1>5, <1>6, <1>7

LEMMA Added ==
    ASSUME TypeOK, NEW n \in OldNotes \cup NewNotes, AddThread(n)
    PROVE  /\ lastId' = lastId + 1 /\ lastId' \in Nat /\ lastId' \notin DOMAIN threads
           /\ DOMAIN threads' = DOMAIN threads \cup {lastId'}
           /\ threads'[lastId'].note = n /\ \A id \in DOMAIN threads : id < lastId'
           /\ \A id \in DOMAIN threads : threads'[id] = threads[id]
           /\ Threads(threads)'
           /\ \A ts : Threads(ts) => DOMAIN ts \subseteq 1..lastId' /\ lastId' \notin DOMAIN ts
<1>1. lastId \in Nat /\ lastId' = lastId + 1 /\ DOMAIN threads \subseteq 1..lastId
      /\ threads \in [DOMAIN threads -> Thread]
  BY DEF TypeOK, Threads, AddThread
<1>2. [note |-> n, answered |-> FALSE, resolved |-> FALSE] \in Thread
  BY DEF Thread
<1>3. /\ DOMAIN threads' = DOMAIN threads \cup {lastId'}
      /\ threads'[lastId'] = [note |-> n, answered |-> FALSE, resolved |-> FALSE]
      /\ \A id \in DOMAIN threads : id /= lastId' => threads'[id] = threads[id]
  BY DEF AddThread
<1>4. lastId' \notin DOMAIN threads /\ lastId' \in Nat /\ \A id \in DOMAIN threads : id < lastId'
  BY <1>1
<1>5. threads' = [id \in DOMAIN threads' |-> threads'[id]]
  BY DEF AddThread
<1>6. DOMAIN threads' \subseteq 1..lastId' /\ threads' \in [DOMAIN threads' -> Thread]
  BY <1>1, <1>2, <1>3, <1>4, <1>5
<1>7. \A ts : Threads(ts) => DOMAIN ts \subseteq 1..lastId' /\ lastId' \notin DOMAIN ts
  BY <1>1 DEF Threads
<1>8. QED
  BY <1>1, <1>3, <1>4, <1>6, <1>7 DEF Threads

LEMMA Deleted ==
    ASSUME TypeOK, NEW gone, DeleteNote(gone), UNCHANGED lastId
    PROVE  /\ Threads(threads)' /\ DOMAIN threads' \subseteq DOMAIN threads
           /\ \A id \in DOMAIN threads : id /= gone => id \in DOMAIN threads' /\ threads'[id] = threads[id]
           /\ gone \in DOMAIN threads' => threads'[gone].note = Note("person")
<1>1. /\ DOMAIN threads' \subseteq DOMAIN threads
      /\ \A id \in DOMAIN threads : id /= gone => id \in DOMAIN threads' /\ threads'[id] = threads[id]
      /\ threads' = [id \in DOMAIN threads' |-> threads'[id]]
  BY DEF DeleteNote
<1>2. gone \in DOMAIN threads' =>
          /\ gone \in DOMAIN threads
          /\ threads'[gone] = [threads[gone] EXCEPT !.note = Note("person"), !.answered = FALSE]
  BY DEF DeleteNote
<1>3. DOMAIN threads \subseteq 1..lastId /\ \A id \in DOMAIN threads : threads[id] \in Thread
  BY DEF TypeOK, Threads
<1>4. gone \in DOMAIN threads' => threads'[gone] \in Thread /\ threads'[gone].note = Note("person")
  BY <1>2, <1>3 DEF Thread, OldNotes
<1>5. Threads(threads)'
  BY <1>1, <1>3, <1>4 DEF Threads
<1>6. QED
  BY <1>1, <1>4, <1>5

----------------------------------------------------------------------------
(* Steps *)

LEMMA InitInv == Init => IInv
<1> SUFFICES ASSUME Init PROVE IInv
  OBVIOUS
<1>1. Old \in Nat /\ DOMAIN threads = 1..Old /\ DOMAIN pageItems = {}
      /\ \A id \in DOMAIN threads : threads[id].note \in OldNotes
  BY NotesAssumption DEF Init, NoThreads
<1>2. TypeOK
  <2>1. Threads(threads) /\ Threads(pageItems)
    BY <1>1 DEF Init, Threads, Thread
  <2>2. 0 \in 0..lastId + 1 /\ 0 \in 0..OutOfDiff + InDiff /\ 0 \in 0..MaxActs
    BY NotesAssumption DEF Init
  <2>3. QED
    BY <1>1, <2>1, <2>2 DEF Init, TypeOK
<1>3. PageInv /\ FirstPageInv
  BY <1>1 DEF Init, PageInv, FirstPageInv
<1>4. PostedInv
  BY <1>1, NotesDistinct DEF Init, PostedInv, PostedOnceUnderSummary, Published
<1>5. QED
  BY <1>2, <1>3, <1>4 DEF IInv

\* Requests that leave the threads alone and are not about a page.
LEMMA RequestInv ==
    IInv /\ (FindMergeRequest \/ GetCurrentUser \/ GetMRDiffRefs \/ AllPosted) => IInv'
<1> SUFFICES ASSUME IInv, FindMergeRequest \/ GetCurrentUser \/ GetMRDiffRefs \/ AllPosted PROVE IInv'
  OBVIOUS
<1> USE DEF FindMergeRequest, GetCurrentUser, GetMRDiffRefs, AllPosted, Succeeds, Fails
<1>1. TypeOK'
  <2>0. TypeOK /\ lastId \in Nat /\ intact \in BOOLEAN
    BY DEF IInv, TypeOK
  <2>1. UNCHANGED <<threads, lastId, pageItems, lastPage, posts, acts>>
        /\ page' \in {page, 1} /\ 1 \in 0..lastId + 1
    BY <2>0
  <2>2. pc' \in {"me", "refs", "list", "summary", "done"} /\ (intact' = intact \/ intact' = FALSE)
    OBVIOUS
  <2>3. QED
    BY <2>0, <2>1, <2>2 DEF TypeOK, Threads
<1>2. PageInv'
  BY DEF IInv, PageInv
<1>3. PostedInv'
  <2>1. UNCHANGED <<threads, posts>> /\ (pc' \in Clearing => pc \in Clearing)
    BY DEF Clearing
  <2>2. PostedOnceUnderSummary'
    BY <2>1 DEF IInv, PostedInv, PostedOnceUnderSummary, Published
  <2>3. intact' /\ pc' = "done" => posts = OutOfDiff + InDiff
    <3>1. intact' /\ pc' = "done" => posts + 1 \notin 1..OutOfDiff + InDiff
      BY NotesDistinct
    <3>2. posts \in 0..OutOfDiff + InDiff /\ OutOfDiff + InDiff \in Nat
      BY NotesAssumption DEF IInv, TypeOK
    <3>3. QED
      BY <3>1, <3>2
  <2>4. pc' /= "post" /\ (intact' /\ pc' = "done" => intact /\ pc = "post")
    OBVIOUS
  <2>5. QED
    BY <2>1, <2>2, <2>3, <2>4 DEF IInv, PostedInv, Published
<1>4. FirstPageInv'
  BY DEF IInv, FirstPageInv
<1> QED
  BY <1>1, <1>2, <1>3, <1>4 DEF IInv

LEMMA ListPageInv == IInv /\ ListPage => IInv'
<1> SUFFICES ASSUME IInv, ListPage PROVE IInv'
  OBVIOUS
<1>0. /\ TypeOK /\ pc = "list" /\ page > 0 /\ DOMAIN pageItems = {}
      /\ UNCHANGED <<threads, lastId, page, posts, acts>>
  BY DEF IInv, ListPage, PageInv
<1>1. PostedInv'
  <2>1. pc' \in Clearing
    BY DEF ListPage, Succeeds, Fails, Clearing
  <2>2. PostedOnceUnderSummary'
    BY <1>0 DEF IInv, PostedInv, PostedOnceUnderSummary, Published
  <2>3. QED
    BY <1>0, <2>1, <2>2 DEF IInv, PostedInv, Clearing
<1>2. CASE Fails("refs") /\ UNCHANGED <<pageItems, lastPage>>
  <2>1. TypeOK' /\ PageInv' /\ FirstPageInv'
    BY <1>0, <1>2 DEF TypeOK, PageInv, FirstPageInv, Threads, Fails
  <2>2. QED
    BY <1>1, <2>1 DEF IInv
<1>3. CASE /\ Succeeds("delete") /\ pageItems' = [id \in Page(page) |-> threads[id]]
           /\ lastPage' = (Cardinality(Page(page)) < PageSize)
  <2>1. Page(page) \subseteq DOMAIN threads
    BY DEF Page
  <2>2. /\ DOMAIN pageItems' = Page(page)
        /\ \A id \in Page(page) : pageItems'[id] = threads[id]
    BY <1>3
  <2>3. TypeOK'
    <3>1. Threads(pageItems)'
      BY <1>0, <1>3, <2>1 DEF TypeOK, Threads
    <3>2. lastPage' \in BOOLEAN
      BY <1>3
    <3>3. QED
      BY <1>0, <1>3, <3>1, <3>2 DEF TypeOK, Threads, Succeeds
  <2>4. PageInv'
    <3>1. ~lastPage' => page <= lastId
      BY <1>0, <1>3, FullPage
    <3>2. \A id \in DOMAIN threads : threads[id].note \in OldNotes
      BY <1>0 DEF IInv, PostedInv, Clearing
    <3>3. QED
      BY <1>0, <1>3, <2>1, <2>2, <3>1, <3>2 DEF PageInv, Succeeds
  <2>5. FirstPageInv'
    <3> SUFFICES ASSUME intact, ClearComments, NEW id \in DOMAIN threads, Forgotten(threads[id]),
                        id <= PageSize
                 PROVE  page = 1 /\ id \in DOMAIN pageItems'
      BY <1>0, <1>3 DEF FirstPageInv, Succeeds
    <3>1. page = 1
      BY <1>0 DEF IInv, FirstPageInv
    <3>2. QED
      BY <1>0, <2>2, <3>1, FirstPage
  <2>6. QED
    BY <1>1, <2>3, <2>4, <2>5 DEF IInv
<1>4. QED
  BY <1>2, <1>3 DEF ListPage

LEMMA EndPageInv == IInv /\ EndPage => IInv'
<1> SUFFICES ASSUME IInv, EndPage PROVE IInv'
  OBVIOUS
<1>0. /\ TypeOK /\ pc = "delete" /\ DOMAIN pageItems = {}
      /\ UNCHANGED <<threads, lastId, pageItems, lastPage, posts, intact, acts>>
      /\ IF lastPage THEN pc' = "refs" /\ UNCHANGED page ELSE pc' = "list" /\ page' = page + 1
  BY DEF IInv, EndPage
<1>1. TypeOK'
  <2>1. page' \in 0..lastId + 1
    BY <1>0 DEF IInv, TypeOK, PageInv
  <2>2. QED
    BY <1>0, <2>1 DEF TypeOK, Threads
<1>2. PageInv'
  BY <1>0 DEF IInv, PageInv, TypeOK
<1>3. PostedInv'
  <2>1. PostedOnceUnderSummary'
    BY <1>0 DEF IInv, PostedInv, PostedOnceUnderSummary, Published
  <2>2. QED
    BY <1>0, <2>1 DEF IInv, PostedInv, Clearing
<1>4. FirstPageInv'
  BY <1>0 DEF IInv, FirstPageInv
<1> QED
  BY <1>1, <1>2, <1>3, <1>4 DEF IInv

LEMMA SkipThreadInv == IInv /\ SkipThread => IInv'
<1> SUFFICES ASSUME IInv, SkipThread PROVE IInv'
  OBVIOUS
<1>0. /\ TypeOK /\ pc = "delete" /\ Item \in DOMAIN pageItems /\ ~Clearable(pageItems[Item])
      /\ pageItems' = Rest /\ UNCHANGED <<threads, lastId, pc, page, lastPage, posts, intact, acts>>
  BY ItemFirst DEF IInv, SkipThread
<1>1. TypeOK'
  BY <1>0, RestTyped DEF TypeOK, Threads
<1>2. PageInv'
  BY <1>0, RestTyped DEF IInv, PageInv
<1>3. PostedInv'
  <2>1. PostedOnceUnderSummary'
    BY <1>0 DEF IInv, PostedInv, PostedOnceUnderSummary, Published
  <2>2. QED
    BY <1>0, <2>1 DEF IInv, PostedInv
<1>4. FirstPageInv'
  <2>1. Item \in DOMAIN threads => ~Forgotten(threads[Item])
    <3>1. SUFFICES ASSUME Item \in DOMAIN threads, Forgotten(threads[Item]) PROVE FALSE
      OBVIOUS
    <3>2. pageItems[Item].note = threads[Item].note /\ ~pageItems[Item].answered /\ ~pageItems[Item].resolved
      BY <1>0, <3>1 DEF IInv, PageInv, Forgotten
    <3>3. QED
      BY <1>0, <3>1, <3>2 DEF Clearable, Forgotten
  <2>2. QED
    BY <1>0, <2>1, RestTyped DEF IInv, FirstPageInv
<1> QED
  BY <1>1, <1>2, <1>3, <1>4 DEF IInv

\* Only a comment of an earlier review is clearable, whatever has happened to it since.
LEMMA ClearableIsOld ==
    ASSUME IInv, pc = "delete", NEW id \in DOMAIN pageItems, Clearable(pageItems[id])
    PROVE  id \in DOMAIN threads => threads[id].note.kind = "old"
<1>1. pageItems[id].note \in OldNotes
  BY DEF IInv, PageInv
<1>2. pageItems[id].note.kind = "old"
  BY <1>1 DEF OldNotes, Note, Clearable
<1>3. QED
  BY <1>2 DEF IInv, PageInv

LEMMA DeleteThreadInv == IInv /\ DeleteThread => IInv'
<1> SUFFICES ASSUME IInv, DeleteThread PROVE IInv'
  OBVIOUS
<1>0. /\ TypeOK /\ pc = "delete" /\ Item \in DOMAIN pageItems
      /\ pageItems' = Rest /\ UNCHANGED <<lastId, page, lastPage, posts, acts>> /\ pc' = "delete"
      /\ DeleteNote(Item) \/ (UNCHANGED threads /\ intact' = FALSE)
      /\ intact' \in BOOLEAN /\ (intact' => intact)
  <2>1. TypeOK /\ intact \in BOOLEAN /\ DOMAIN pageItems /= {}
    BY DEF IInv, TypeOK, DeleteThread
  <2>2. intact' = intact \/ intact' = FALSE
    BY DEF DeleteThread, Succeeds, Fails
  <2>3. DeleteNote(Item) \/ (UNCHANGED threads /\ intact' = FALSE)
    BY DEF DeleteThread, Fails
  <2>4. /\ pc = "delete" /\ pageItems' = Rest /\ UNCHANGED <<lastId, page, lastPage, posts, acts>>
        /\ pc' = "delete"
    BY DEF DeleteThread, Succeeds, Fails
  <2>5. intact' \in BOOLEAN /\ (intact' => intact)
    <3>1. CASE intact' = intact
      BY <2>1, <3>1
    <3>2. CASE intact' = FALSE
      BY <3>2
    <3>3. QED
      BY <2>2, <3>1, <3>2
  <2>6. Item \in DOMAIN pageItems
    BY <2>1, ItemFirst
  <2>7. QED
    BY <2>1, <2>3, <2>4, <2>5, <2>6
<1>1. /\ DOMAIN threads' \subseteq DOMAIN threads /\ Threads(threads)'
      /\ \A id \in DOMAIN threads : id /= Item => id \in DOMAIN threads' /\ threads'[id] = threads[id]
      /\ Item \in DOMAIN threads' => \/ threads'[Item].note = Note("person")
                                     \/ threads' = threads /\ ~intact'
  BY <1>0, Deleted DEF TypeOK, Threads
<1>2. TypeOK'
  BY <1>0, <1>1, RestTyped DEF TypeOK, Threads
<1>3. PageInv'
  BY <1>0, <1>1, RestTyped DEF IInv, PageInv
<1>4. PostedInv'
  <2>1. \A id \in DOMAIN threads : threads[id].note \in OldNotes
    BY <1>0 DEF IInv, PostedInv, Clearing
  <2>2. \A id \in DOMAIN threads' : threads'[id].note \in OldNotes
    BY <1>1, <2>1 DEF OldNotes
  <2>3. PostedOnceUnderSummary'
    BY <2>2, NotesDistinct DEF PostedOnceUnderSummary, Published
  <2>4. QED
    BY <1>0, <2>2, <2>3 DEF IInv, PostedInv
<1>5. FirstPageInv'
  <2> SUFFICES ASSUME intact', ClearComments, NEW id \in DOMAIN threads', Forgotten(threads'[id]),
                      id <= PageSize
               PROVE  page = 1 /\ id \in DOMAIN Rest
    BY <1>0 DEF FirstPageInv
  <2>1. id /= Item
    BY <1>0, <1>1 DEF Forgotten, Note
  <2>2. QED
    BY <1>0, <1>1, <2>1, RestTyped DEF IInv, FirstPageInv
<1> QED
  BY <1>2, <1>3, <1>4, <1>5 DEF IInv

\* A note that was not there is posted under its summary.
LEMMA PostedOnce ==
    ASSUME TypeOK, PostedOnceUnderSummary, NEW n \in OldNotes \cup NewNotes, AddThread(n),
           n \in NewNotes => Published(n) = {} /\ (n = Summary \/ Published(Summary) /= {})
    PROVE  /\ PostedOnceUnderSummary'
           /\ Published(n)' = Published(n) \cup {lastId'}
           /\ \A m : m /= n => Published(m)' = Published(m)
<1>1. /\ lastId' \notin DOMAIN threads /\ lastId' \in Nat
      /\ DOMAIN threads' = DOMAIN threads \cup {lastId'}
      /\ threads'[lastId'].note = n /\ \A id \in DOMAIN threads : id < lastId'
      /\ \A id \in DOMAIN threads : threads'[id] = threads[id]
  BY Added
<1>2. /\ Published(n)' = Published(n) \cup {lastId'}
      /\ \A m : m /= n => Published(m)' = Published(m)
  BY <1>1 DEF Published
<1>3. PostedOnceUnderSummary'
  <2> SUFFICES ASSUME NEW m \in NewNotes, NEW id \in Published(m)'
               PROVE  /\ \A other \in Published(m)' : other = id
                      /\ \E above \in Published(Summary)' : above <= id
    BY DEF PostedOnceUnderSummary
  <2>1. CASE id = lastId'
    <3>1. m = n /\ Published(m)' = {lastId'}
      BY <1>1, <1>2, <2>1 DEF Published
    <3>2. \E above \in Published(Summary)' : above <= id
      <4>1. CASE n = Summary
        BY <1>1, <2>1, <3>1, <4>1
      <4>2. CASE n /= Summary
        <5>1. PICK above \in Published(Summary) : TRUE
          BY <3>1, <4>2
        <5>2. above \in DOMAIN threads /\ above \in Published(Summary)' /\ above <= id
          BY <1>1, <1>2, <2>1, <4>2, <5>1 DEF Published, TypeOK, Threads
        <5>3. QED
          BY <5>2
      <4>3. QED
        BY <4>1, <4>2
    <3>3. QED
      BY <2>1, <3>1, <3>2
  <2>2. CASE id /= lastId'
    <3>1. id \in Published(m) /\ m /= n
      BY <1>1, <1>2, <2>2 DEF Published
    <3>2. Published(m)' = Published(m) /\ Published(Summary) \subseteq Published(Summary)'
      BY <1>2, <3>1
    <3>3. QED
      BY <3>1, <3>2 DEF PostedOnceUnderSummary
  <2>3. QED
    BY <2>1, <2>2
<1>4. QED
  BY <1>2, <1>3

LEMMA PostSummaryInv == IInv /\ PostSummary => IInv'
<1> SUFFICES ASSUME IInv, PostSummary PROVE IInv'
  OBVIOUS
<1>0. /\ TypeOK /\ pc = "summary" /\ UNCHANGED <<page, pageItems, lastPage, posts, acts>>
      /\ posts = 0 /\ DOMAIN pageItems = {} /\ PostedOnceUnderSummary
      /\ \A id \in DOMAIN threads : threads[id].note \in OldNotes
  BY DEF IInv, PostSummary, PostedInv, PageInv, Clearing
<1>1. \A n \in NewNotes : Published(n) = {}
  BY <1>0, NotesDistinct DEF Published
<1>2. CASE UNCHANGED <<threads, lastId>> /\ Fails("done")
  <2>1. TypeOK' /\ PageInv' /\ FirstPageInv'
    BY <1>0, <1>2 DEF TypeOK, PageInv, FirstPageInv, Threads, Fails
  <2>2. PostedInv'
    BY <1>0, <1>2 DEF PostedInv, PostedOnceUnderSummary, Published, Fails
  <2>3. QED
    BY <2>1, <2>2 DEF IInv
<1>3. CASE AddThread(Summary) /\ (Succeeds("post") \/ Fails("done"))
  <2>1. /\ PostedOnceUnderSummary' /\ Published(Summary)' = {lastId'}
        /\ \A i \in DOMAIN Findings : Published(Findings[i])' = {}
    BY <1>0, <1>1, <1>3, NotesDistinct, PostedOnce
  <2>2. /\ lastId' = lastId + 1 /\ Threads(threads)'
        /\ \A ts : Threads(ts) => DOMAIN ts \subseteq 1..lastId'
    BY <1>0, <1>3, NotesDistinct, Added
  <2>3. TypeOK'
    <3>1. Threads(pageItems)' /\ page' \in 0..lastId' + 1 /\ lastId' \in Nat
      BY <1>0, <2>2 DEF TypeOK, Threads
    <3>2. intact' \in BOOLEAN /\ pc' \in {"post", "done"}
      BY <1>0, <1>3 DEF TypeOK, Succeeds, Fails
    <3>3. QED
      BY <1>0, <2>2, <3>1, <3>2 DEF TypeOK
  <2>4. PageInv'
    BY <1>0, <1>3 DEF PageInv, Succeeds, Fails
  <2>5. PostedInv'
    BY <1>0, <1>3, <2>1 DEF PostedInv, Clearing, Succeeds, Fails
  <2>6. FirstPageInv'
    <3> SUFFICES ASSUME intact', ClearComments, NEW id \in DOMAIN threads', id <= PageSize
                 PROVE  ~Forgotten(threads'[id])
      BY DEF FirstPageInv
    <3>1. intact
      BY <1>3 DEF Succeeds, Fails
    <3>2. threads'[lastId'].note = Summary /\ DOMAIN threads' = DOMAIN threads \cup {lastId'}
          /\ \A t \in DOMAIN threads : threads'[t] = threads[t]
      BY <1>0, <1>3, NotesDistinct, Added
    <3>3. QED
      BY <1>0, <3>1, <3>2 DEF IInv, FirstPageInv, Forgotten, Summary, Note
  <2>7. QED
    BY <2>3, <2>4, <2>5, <2>6 DEF IInv
<1>4. QED
  BY <1>2, <1>3 DEF PostSummary

LEMMA PostFindingInv == IInv /\ PostFinding => IInv'
<1> SUFFICES ASSUME IInv, PostFinding PROVE IInv'
  OBVIOUS
<1>a. PICK n : n = Findings[posts + 1]
  OBVIOUS
<1>0. /\ TypeOK /\ pc = "post" /\ pc' = "post" /\ UNCHANGED <<page, pageItems, lastPage, acts>>
      /\ posts + 1 \in DOMAIN Findings /\ posts' = posts + 1 /\ PostedOnceUnderSummary
      /\ DOMAIN pageItems = {} /\ Published(Summary) /= {}
      /\ \A i \in DOMAIN Findings : i > posts => Published(Findings[i]) = {}
  BY DEF IInv, PostFinding, PostedInv, PageInv, Succeeds, Fails
<1>1. /\ n \in NewNotes /\ n /= Summary /\ Published(n) = {} /\ posts' \in 0..OutOfDiff + InDiff
      /\ \A i \in DOMAIN Findings : i /= posts + 1 => Findings[i] /= n
  BY <1>a, <1>0, NotesDistinct, NotesAssumption DEF TypeOK
<1>2. intact' = intact \/ intact' = FALSE
  BY DEF PostFinding, Succeeds, Fails
<1>3. CASE UNCHANGED <<threads, lastId>> /\ intact' = FALSE
  <2>1. TypeOK' /\ PageInv' /\ FirstPageInv'
    BY <1>0, <1>1, <1>3 DEF TypeOK, PageInv, FirstPageInv, Threads
  <2>2. PostedInv'
    <3>1. \A i \in DOMAIN Findings : i > posts + 1 => i > posts
      BY <1>0, NotesDistinct, NotesAssumption DEF TypeOK
    <3>2. QED
      BY <1>0, <1>3, <3>1 DEF PostedInv, PostedOnceUnderSummary, Published, Clearing
  <2>3. QED
    BY <2>1, <2>2 DEF IInv
<1>4. CASE AddThread(n)
  <2>1. /\ PostedOnceUnderSummary' /\ Published(n)' = {lastId'}
        /\ \A m : m /= n => Published(m)' = Published(m)
    BY <1>0, <1>1, <1>4, PostedOnce
  <2>2. /\ lastId' = lastId + 1 /\ Threads(threads)'
        /\ \A ts : Threads(ts) => DOMAIN ts \subseteq 1..lastId'
    BY <1>0, <1>1, <1>4, Added
  <2>3. TypeOK'
    <3>1. Threads(pageItems)' /\ page' \in 0..lastId' + 1 /\ lastId' \in Nat
      BY <1>0, <2>2 DEF TypeOK, Threads
    <3>2. intact' \in BOOLEAN
      BY <1>0, <1>2 DEF TypeOK
    <3>3. QED
      BY <1>0, <1>1, <2>2, <3>1, <3>2 DEF TypeOK
  <2>4. PageInv'
    BY <1>0 DEF PageInv
  <2>5. PostedInv'
    <3>1. Published(Summary)' /= {}
      BY <1>0, <1>1, <2>1
    <3>2. \A i \in DOMAIN Findings : i > posts' => Published(Findings[i])' = {}
      <4>1. \A i \in DOMAIN Findings : i > posts' => i > posts /\ i /= posts + 1
        BY <1>0, NotesDistinct, NotesAssumption DEF TypeOK
      <4>2. QED
        BY <1>0, <1>1, <2>1, <4>1
    <3>3. intact' => \A i \in 1..posts' : Published(Findings[i])' /= {}
      <4> SUFFICES ASSUME intact', NEW i \in 1..posts' PROVE Published(Findings[i])' /= {}
        OBVIOUS
      <4>1. i \in DOMAIN Findings /\ (i /= posts + 1 => i \in 1..posts)
        BY <1>0, <1>1, NotesDistinct, NotesAssumption DEF TypeOK
      <4>2. CASE i = posts + 1
        <5>1. Findings[i] = n
          BY <1>a, <4>2
        <5>2. QED
          BY <2>1, <5>1
      <4>3. CASE i /= posts + 1
        <5>1. Published(Findings[i]) /= {}
          BY <1>0, <1>2, <4>1, <4>3 DEF IInv, PostedInv
        <5>2. QED
          BY <1>1, <2>1, <4>1, <4>3, <5>1
      <4>4. QED
        BY <4>2, <4>3
    <3>4. QED
      BY <1>0, <2>1, <3>1, <3>2, <3>3 DEF PostedInv, Clearing
  <2>6. FirstPageInv'
    <3> SUFFICES ASSUME intact', ClearComments, NEW id \in DOMAIN threads', id <= PageSize
                 PROVE  ~Forgotten(threads'[id])
      BY DEF FirstPageInv
    <3>1. intact
      BY <1>2
    <3>2. threads'[lastId'].note = n /\ DOMAIN threads' = DOMAIN threads \cup {lastId'}
          /\ \A t \in DOMAIN threads : threads'[t] = threads[t]
      BY <1>0, <1>1, <1>4, Added
    <3>3. n.kind /= "old"
      BY <1>a, <1>0 DEF Findings
    <3>4. QED
      BY <1>0, <3>1, <3>2, <3>3 DEF IInv, FirstPageInv, Forgotten
  <2>7. QED
    BY <2>3, <2>4, <2>5, <2>6 DEF IInv
<1>5. QED
  BY <1>a, <1>2, <1>3, <1>4 DEF PostFinding, Fails

\* People answer and resolve: notes stay what they are, and nothing is forgotten by it.
LEMMA AnswerInv ==
    ASSUME IInv, NEW one \in DOMAIN threads, Answer(one) \/ Resolve(one)
    PROVE  IInv'
<1>0. /\ TypeOK /\ UNCHANGED <<lastId, pc, page, pageItems, lastPage, posts, intact>>
      /\ acts' = acts + 1 /\ acts < MaxActs /\ acts \in Nat /\ MaxActs \in Nat
      /\ \/ threads' = [threads EXCEPT ![one].answered = TRUE]
         \/ threads' = [threads EXCEPT ![one].resolved = TRUE]
  BY NotesAssumption DEF IInv, TypeOK, Answer, Resolve, Acts
<1>1. /\ Threads(threads)' /\ DOMAIN threads' = DOMAIN threads
      /\ \A id \in DOMAIN threads :
            /\ threads'[id].note = threads[id].note
            /\ threads[id].answered => threads'[id].answered
            /\ threads[id].resolved => threads'[id].resolved
  <2>1. threads \in [DOMAIN threads -> Thread] /\ DOMAIN threads \subseteq 1..lastId
    BY <1>0 DEF TypeOK, Threads
  <2>2. threads[one] \in Thread /\ TRUE \in BOOLEAN
    BY <2>1
  <2>3. CASE threads' = [threads EXCEPT ![one].answered = TRUE]
    <3>1. threads' = [threads EXCEPT ![one] = [threads[one] EXCEPT !.answered = TRUE]]
      BY <2>3
    <3>2. [threads[one] EXCEPT !.answered = TRUE] \in Thread
      BY <2>2 DEF Thread
    <3>3. QED
      BY <1>0, <2>1, <2>2, <3>1, <3>2 DEF Threads, Thread
  <2>4. CASE threads' = [threads EXCEPT ![one].resolved = TRUE]
    <3>1. threads' = [threads EXCEPT ![one] = [threads[one] EXCEPT !.resolved = TRUE]]
      BY <2>4
    <3>2. [threads[one] EXCEPT !.resolved = TRUE] \in Thread
      BY <2>2 DEF Thread
    <3>3. QED
      BY <1>0, <2>1, <2>2, <3>1, <3>2 DEF Threads, Thread
  <2>5. QED
    BY <1>0, <2>3, <2>4
<1>2. TypeOK'
  BY <1>0, <1>1 DEF TypeOK, Threads
<1>3. PageInv'
  BY <1>0, <1>1 DEF IInv, PageInv
<1>4. PostedInv'
  <2>1. \A n : Published(n)' = Published(n)
    BY <1>1 DEF Published
  <2>2. PostedOnceUnderSummary'
    BY <2>1 DEF IInv, PostedInv, PostedOnceUnderSummary
  <2>3. QED
    BY <1>0, <1>1, <2>1, <2>2 DEF IInv, PostedInv
<1>5. FirstPageInv'
  <2>1. \A id \in DOMAIN threads : Forgotten(threads'[id]) => Forgotten(threads[id])
    BY <1>1 DEF Forgotten
  <2>2. QED
    BY <1>0, <1>1, <2>1 DEF IInv, FirstPageInv
<1> QED
  BY <1>2, <1>3, <1>4, <1>5 DEF IInv

LEMMA OpenThreadInv == IInv /\ OpenThread => IInv'
<1> SUFFICES ASSUME IInv, OpenThread PROVE IInv'
  OBVIOUS
<1>0. /\ TypeOK /\ UNCHANGED <<pc, page, pageItems, lastPage, posts, intact>>
      /\ acts' = acts + 1 /\ acts < MaxActs /\ acts \in Nat /\ MaxActs \in Nat
      /\ AddThread(Note("person")) /\ Note("person") \in OldNotes
  BY NotesAssumption DEF IInv, TypeOK, OpenThread, Acts, OldNotes
<1>1. /\ lastId' = lastId + 1 /\ Threads(threads)' /\ DOMAIN threads' = DOMAIN threads \cup {lastId'}
      /\ threads'[lastId'].note = Note("person")
      /\ \A id \in DOMAIN threads : threads'[id] = threads[id]
      /\ \A ts : Threads(ts) => DOMAIN ts \subseteq 1..lastId' /\ lastId' \notin DOMAIN ts
  BY <1>0, Added
<1>2. TypeOK'
  <2>1. Threads(pageItems)' /\ page' \in 0..lastId' + 1 /\ lastId' \in Nat /\ acts' \in 0..MaxActs
    BY <1>0, <1>1 DEF TypeOK, Threads
  <2>2. QED
    BY <1>0, <1>1, <2>1 DEF TypeOK
<1>3. PageInv'
  <2>1. lastId' \notin DOMAIN pageItems /\ (pc = "delete" /\ ~lastPage => page <= lastId')
    BY <1>0, <1>1 DEF IInv, TypeOK
  <2>2. QED
    BY <1>0, <1>1, <2>1 DEF IInv, PageInv
<1>4. PostedInv'
  <2>1. Note("person") \notin NewNotes
    BY <1>0, NotesDistinct
  <2>2. PostedOnceUnderSummary' /\ \A m : m /= Note("person") => Published(m)' = Published(m)
    BY <1>0, <2>1, PostedOnce DEF IInv, PostedInv
  <2>3. \A n \in NewNotes : Published(n)' = Published(n)
    BY <2>1, <2>2
  <2>4. \A i \in 1..posts : i \in DOMAIN Findings
    BY <1>0, NotesDistinct, NotesAssumption DEF TypeOK
  <2>5. QED
    BY <1>0, <1>1, <2>2, <2>3, <2>4, NotesDistinct DEF IInv, PostedInv
<1>5. FirstPageInv'
  BY <1>0, <1>1 DEF IInv, FirstPageInv, Forgotten, Note
<1> QED
  BY <1>2, <1>3, <1>4, <1>5 DEF IInv

LEMMA StutterInv == IInv /\ UNCHANGED vars => IInv'
<1> SUFFICES ASSUME IInv, UNCHANGED vars PROVE IInv'
  OBVIOUS
<1> USE DEF IInv, vars
<1>1. TypeOK' /\ PageInv' /\ FirstPageInv'
  BY DEF TypeOK, PageInv, FirstPageInv, Threads
<1>2. PostedInv'
  BY DEF PostedInv, PostedOnceUnderSummary, Published
<1> QED
  BY <1>1, <1>2

LEMMA NextInv == IInv /\ [Next]_vars => IInv'
BY RequestInv, ListPageInv, EndPageInv, SkipThreadInv, DeleteThreadInv, PostSummaryInv,
   PostFindingInv, AnswerInv, OpenThreadInv, StutterInv DEF Next, PublishStep, ClearStep,
   PostStep, PeopleStep, Done

LEMMA Invariant == Spec => []IInv
BY InitInv, NextInv, PTL DEF Spec

----------------------------------------------------------------------------
\* TypeOK: above all the page number never exceeds the number of threads there have been
\* by more than one, so the loop over pages cannot run away while the pages shift.
THEOREM TypeCorrect == Spec => []TypeOK
<1>1. IInv => TypeOK
  BY DEF IInv
<1>2. QED
  BY <1>1, Invariant, PTL

\* No note of a review is posted twice, and none without the summary it belongs to.
THEOREM PostedOnceUnderSummaryCorrect == Spec => []PostedOnceUnderSummary
<1>1. IInv => PostedOnceUnderSummary
  BY DEF IInv, PostedInv
<1>2. QED
  BY <1>1, Invariant, PTL

\* If no request fails the review is complete, and the first page is cleared of every
\* comment of an earlier review that nobody took up.
THEOREM WholeWhenIntactCorrect == Spec => []WholeWhenIntact
<1>1. IInv => WholeWhenIntact
  <2> SUFFICES ASSUME IInv, pc = "done", intact
               PROVE  /\ \A n \in NewNotes : Published(n) /= {}
                      /\ ClearComments => \A id \in DOMAIN threads :
                            threads[id].note.kind = "old" /\ id <= PageSize
                              => threads[id].answered \/ threads[id].resolved
    BY DEF WholeWhenIntact
  <2>1. \A n \in NewNotes : Published(n) /= {}
    BY NotesDistinct DEF IInv, PostedInv, NewNotes
  <2>2. ClearComments => \A id \in DOMAIN threads : id <= PageSize => ~Forgotten(threads[id])
    BY DEF IInv, FirstPageInv
  <2>3. QED
    BY <2>1, <2>2 DEF Forgotten
<1>2. QED
  BY <1>1, Invariant, PTL

\* Whatever people do between the listing and the deletion, only comments of an earlier
\* review are taken away.
THEOREM OnlyOwnCommentsGoCorrect == Spec => OnlyOwnCommentsGo
<1> DEFINE Kept == \A id \in DOMAIN threads : threads[id].note.kind /= "old" =>
                      id \in DOMAIN threads' /\ threads'[id].note = threads[id].note
<1>1. IInv /\ [Next]_vars => [Kept]_vars
  <2> SUFFICES ASSUME IInv, Next, NEW id \in DOMAIN threads, threads[id].note.kind /= "old"
               PROVE  id \in DOMAIN threads' /\ threads'[id].note = threads[id].note
    BY DEF Kept
  <2>1. CASE DeleteThread
    <3>1. id /= Item
      BY <2>1, ItemFirst, ClearableIsOld DEF DeleteThread, IInv
    <3>2. QED
      BY <2>1, <3>1 DEF DeleteThread, DeleteNote
  <2>2. CASE PublishStep /\ ~DeleteThread
    <3>1. UNCHANGED threads \/ \E n : AddThread(n)
      BY <2>2 DEF PublishStep, ClearStep, PostStep, FindMergeRequest, GetCurrentUser,
         ListPage, SkipThread, EndPage, GetMRDiffRefs, PostSummary, PostFinding,
         AllPosted
    <3>2. lastId + 1 \notin DOMAIN threads
      BY DEF IInv, TypeOK, Threads
    <3>3. QED
      BY <3>1, <3>2 DEF AddThread
  <2>3. CASE PeopleStep
    <3>1. CASE OpenThread
      <4>1. lastId + 1 \notin DOMAIN threads
        BY DEF IInv, TypeOK, Threads
      <4>2. QED
        BY <3>1, <4>1 DEF OpenThread, AddThread
    <3>2. CASE \E one \in DOMAIN threads : Answer(one) \/ Resolve(one)
      BY <3>2 DEF Answer, Resolve, IInv, TypeOK, Threads, Thread
    <3>3. QED
      BY <2>3, <3>1, <3>2 DEF PeopleStep
  <2>4. CASE Done
    BY <2>4 DEF Done, vars
  <2>5. QED
    BY <2>1, <2>2, <2>3, <2>4 DEF Next
<1>2. QED
  BY <1>1, Invariant, PTL DEF Spec, OnlyOwnCommentsGo
----------------------------------------------------------------------------
(* The publication implements PublicationContract *)

Posted == {"summary", "fallback", "inline"}
People == {"person", "system"}

\* The threads the contract tells apart, by the note they begin with.
LEMMA Kinds ==
    ASSUME TypeOK
    PROVE  /\ \A id \in DOMAIN threads :
                 /\ id \in 1..lastId
                 /\ threads[id].note \in OldNotes <=> threads[id].note.kind \in {"old"} \cup People
                 /\ threads[id].note \in NewNotes <=> threads[id].note.kind \in Posted
           /\ \A n \in NewNotes : n.finding \in 0..OutOfDiff + InDiff /\ n.kind \in Posted
<1>1. /\ DOMAIN threads \subseteq 1..lastId
      /\ \A id \in DOMAIN threads : threads[id].note \in OldNotes \cup NewNotes
  BY DEF TypeOK, Threads, Thread
<1>2. \A n \in OldNotes : n.kind \in {"old"} \cup People
  BY DEF OldNotes, Note, People
<1>3. \A n \in NewNotes : n.finding \in 0..OutOfDiff + InDiff /\ n.kind \in Posted
  <2>1. Summary.kind = "summary" /\ Summary.finding = 0
    BY DEF Summary, Note
  <2>2. \A i \in DOMAIN Findings : Findings[i].finding = i /\ Findings[i].kind \in {"fallback", "inline"}
    BY DEF Findings
  <2>3. 0 \in 0..OutOfDiff + InDiff /\ DOMAIN Findings \subseteq 0..OutOfDiff + InDiff
    BY NotesDistinct, NotesAssumption
  <2>4. QED
    BY <2>1, <2>2, <2>3 DEF NewNotes, Posted
<1>4. QED
  BY <1>1, <1>2, <1>3 DEF Posted, People

\* Steps that leave every first note where it is are no steps of the contract.
LEMMA SameNotes ==
    ASSUME DOMAIN threads' = DOMAIN threads, UNCHANGED lastId,
           \A id \in DOMAIN threads : threads'[id].note = threads[id].note
    PROVE  UNCHANGED Contract!vars
<1>1. \A kinds : KindIs(kinds)' = KindIs(kinds)
  BY DEF KindIs
<1>2. [id \in KindIs(Posted) |-> threads[id].note.finding]'
        = [id \in KindIs(Posted) |-> threads[id].note.finding]
  BY <1>1 DEF KindIs
<1>3. QED
  BY <1>1, <1>2 DEF Contract!vars, Posted

LEMMA ContractInit == Init => Contract!Init
<1> SUFFICES ASSUME Init PROVE Contract!Init
  OBVIOUS
<1>1. /\ TypeOK /\ lastId = Old /\ Old \in Nat /\ DOMAIN threads = 1..Old
      /\ \A id \in DOMAIN threads : threads[id].note \in OldNotes
  BY InitInv, NotesAssumption DEF IInv, Init
<1>2. \A id \in DOMAIN threads : threads[id].note.kind \in {"old"} \cup People
  BY <1>1, Kinds
<1>3. KindIs({"old"}) \subseteq 1..lastId /\ KindIs(People) = (1..lastId) \ KindIs({"old"})
      /\ KindIs(Posted) = {}
  BY <1>1, <1>2 DEF KindIs, People, Posted
<1>4. QED
  BY <1>1, <1>3 DEF Contract!Init, People, Posted

\* A deletion takes a comment of an earlier review, before anything is posted.
LEMMA ContractDelete ==
    IInv /\ DeleteThread => Contract!Clear \/ UNCHANGED Contract!vars
<1> SUFFICES ASSUME IInv, DeleteThread, ~UNCHANGED threads PROVE Contract!Clear \/ UNCHANGED Contract!vars
  BY SameNotes DEF DeleteThread
<1>0. /\ TypeOK /\ pc = "delete" /\ Item \in DOMAIN pageItems /\ Clearable(pageItems[Item])
      /\ UNCHANGED lastId /\ DeleteNote(Item)
      /\ \A id \in DOMAIN threads : threads[id].note \in OldNotes
  BY ItemFirst DEF IInv, DeleteThread, PostedInv, Clearing
<1>1. CASE Item \notin DOMAIN threads
  <2>1. DOMAIN threads' = DOMAIN threads /\ \A id \in DOMAIN threads : threads'[id] = threads[id]
    BY <1>0, <1>1, Deleted
  <2>2. QED
    BY <1>0, <2>1, SameNotes
<1>2. CASE Item \in DOMAIN threads
  <2>1. threads[Item].note.kind = "old"
    BY <1>0, <1>2, ClearableIsOld
  <2>2. /\ DOMAIN threads' \subseteq DOMAIN threads
        /\ \A id \in DOMAIN threads : id /= Item => id \in DOMAIN threads' /\ threads'[id] = threads[id]
        /\ Item \in DOMAIN threads' => threads'[Item].note.kind = "person"
    BY <1>0, Deleted DEF Note
  <2>3. KindIs({"old"})' = KindIs({"old"}) \ {Item} /\ Item \in KindIs({"old"})
    BY <1>2, <2>1, <2>2 DEF KindIs
  <2>4. KindIs(People)' \in {KindIs(People), KindIs(People) \cup {Item}}
    BY <1>2, <2>1, <2>2 DEF KindIs, People
  <2>5. KindIs(Posted) = {} /\ KindIs(Posted)' = {}
    <3>1. \A id \in DOMAIN threads : threads[id].note.kind \notin Posted
      BY <1>0, Kinds, NotesDistinct
    <3>2. QED
      BY <2>2, <3>1 DEF KindIs, Posted
  <2>6. [id \in KindIs(Posted) |-> threads[id].note.finding]'
          = [id \in KindIs(Posted) |-> threads[id].note.finding]
    BY <2>5
  <2>7. QED
    BY <1>0, <2>3, <2>4, <2>5, <2>6 DEF Contract!Clear, People, Posted
<1>3. QED
  BY <1>1, <1>2

\* A note of this run is a post of the contract.
LEMMA ContractPost ==
    ASSUME TypeOK, NEW n \in NewNotes, AddThread(n), NEW i, i = n.finding
    PROVE  Contract!Post(i)
<1>0. n.kind \in Posted /\ n \in OldNotes \cup NewNotes
  BY Kinds
<1>1. /\ lastId' = lastId + 1 /\ lastId' \notin DOMAIN threads
      /\ DOMAIN threads' = DOMAIN threads \cup {lastId'}
      /\ threads'[lastId'].note = n
      /\ \A id \in DOMAIN threads : threads'[id] = threads[id]
  BY <1>0, Added
<1>2. KindIs({"old"})' = KindIs({"old"}) /\ KindIs(People)' = KindIs(People)
  BY <1>0, <1>1 DEF KindIs, Posted, People
<1>3. KindIs(Posted)' = KindIs(Posted) \cup {lastId'}
  BY <1>0, <1>1 DEF KindIs
<1>4. \A id \in KindIs(Posted)' : threads'[id].note.finding =
          IF id = lastId' THEN n.finding ELSE threads[id].note.finding
  BY <1>1, <1>3 DEF KindIs
<1>5. QED
  BY <1>1, <1>2, <1>3, <1>4 DEF Contract!Post, People, Posted

LEMMA ContractPostSummary ==
    IInv /\ PostSummary => Contract!PostSummary \/ UNCHANGED Contract!vars
<1> SUFFICES ASSUME IInv, PostSummary, AddThread(Summary) PROVE Contract!PostSummary
  BY SameNotes DEF PostSummary
<1>1. TypeOK /\ \A id \in DOMAIN threads : threads[id].note \in OldNotes
  BY DEF IInv, PostedInv, PostSummary, Clearing
<1>2. KindIs(Posted) = {}
  BY <1>1, Kinds, NotesDistinct DEF KindIs
<1>3. Summary \in NewNotes /\ Summary.finding = 0
  BY NotesDistinct DEF Summary, Note
<1>4. Contract!Post(0)
  BY <1>1, <1>3, ContractPost
<1>5. QED
  BY <1>2, <1>4 DEF Contract!PostSummary, Posted

\* The finding that is posted comes after every note of the review that stands.
LEMMA ContractPostFinding ==
    IInv /\ PostFinding => Contract!PostFinding \/ UNCHANGED Contract!vars
<1> SUFFICES ASSUME IInv, PostFinding, NEW n, n = Findings[posts + 1], AddThread(n)
             PROVE  Contract!PostFinding
  BY SameNotes DEF PostFinding
<1>0. PICK i : i = posts + 1
  OBVIOUS
<1>1. /\ TypeOK /\ i \in DOMAIN Findings /\ Published(Summary) /= {} /\ posts \in Nat
      /\ \A j \in DOMAIN Findings : j > posts => Published(Findings[j]) = {}
  BY <1>0, NotesAssumption DEF IInv, TypeOK, PostFinding, PostedInv
<1>2. n \in NewNotes /\ n.finding = i /\ i \in 1..OutOfDiff + InDiff
  BY <1>0, <1>1, NotesDistinct DEF Findings
<1>3. Contract!Post(i)
  BY <1>1, <1>2, ContractPost
<1>4. KindIs(Posted) /= {}
  <2>1. PICK id \in DOMAIN threads : threads[id].note = Summary
    BY <1>1 DEF Published
  <2>2. QED
    BY <1>1, <2>1, Kinds, NotesDistinct DEF KindIs
<1>5. \A id \in KindIs(Posted) : threads[id].note.finding < i
  <2> SUFFICES ASSUME NEW id \in KindIs(Posted) PROVE threads[id].note.finding < i
    OBVIOUS
  <2>1. id \in DOMAIN threads /\ threads[id].note \in NewNotes
    BY <1>1, Kinds DEF KindIs
  <2>2. CASE threads[id].note = Summary
    BY <1>0, <1>1, <2>2 DEF Summary, Note
  <2>3. CASE \E j \in DOMAIN Findings : threads[id].note = Findings[j]
    <3>1. PICK j \in DOMAIN Findings : threads[id].note = Findings[j]
      BY <2>3
    <3>2. id \in Published(Findings[j])
      BY <2>1, <3>1 DEF Published
    <3>3. Findings[j].finding = j /\ j \in Nat /\ ~(j > posts)
      BY <1>1, <3>2, NotesDistinct, NotesAssumption DEF Findings
    <3>4. QED
      BY <1>0, <1>1, <3>1, <3>3
  <2>4. QED
    BY <2>1, <2>2, <2>3 DEF NewNotes
<1>6. QED
  BY <1>2, <1>3, <1>4, <1>5 DEF Contract!PostFinding, Contract!Post, Posted

LEMMA ContractPeople ==
    IInv /\ PeopleStep => Contract!OpenThread \/ UNCHANGED Contract!vars
<1> SUFFICES ASSUME IInv, PeopleStep PROVE Contract!OpenThread \/ UNCHANGED Contract!vars
  OBVIOUS
<1>0. TypeOK /\ threads \in [DOMAIN threads -> Thread]
  BY DEF IInv, TypeOK, Threads
<1>1. CASE OpenThread
  <2>0. AddThread(Note("person")) /\ Note("person") \in OldNotes
    BY <1>1 DEF OpenThread, OldNotes
  <2>1. /\ lastId' = lastId + 1 /\ lastId' \notin DOMAIN threads
        /\ DOMAIN threads' = DOMAIN threads \cup {lastId'}
        /\ threads'[lastId'].note = Note("person")
        /\ \A id \in DOMAIN threads : threads'[id] = threads[id]
    BY <1>0, <2>0, Added
  <2>2. KindIs({"old"})' = KindIs({"old"}) /\ KindIs(Posted)' = KindIs(Posted)
        /\ KindIs(People)' = KindIs(People) \cup {lastId'}
    <3>1. threads'[lastId'].note.kind = "person"
      BY <2>1 DEF Note
    <3>2. QED
      BY <2>1, <3>1 DEF KindIs, Posted, People
  <2>3. [id \in KindIs(Posted) |-> threads[id].note.finding]'
          = [id \in KindIs(Posted) |-> threads[id].note.finding]
    BY <2>1, <2>2 DEF KindIs
  <2>4. QED
    BY <2>1, <2>2, <2>3 DEF Contract!OpenThread, People, Posted
<1>2. CASE \E one \in DOMAIN threads : Answer(one) \/ Resolve(one)
  BY <1>0, <1>2, SameNotes DEF Answer, Resolve, Acts, Thread
<1>3. QED
  BY <1>1, <1>2 DEF PeopleStep

\* Every step of a publication, and of the people around it, is a step of
\* PublicationContract or changes nothing it speaks of.
THEOREM PublishImplementsContract == Spec => ImplementsContract
<1>1. IInv /\ [Next]_vars => [Contract!Next]_(Contract!vars)
  <2> SUFFICES ASSUME IInv, [Next]_vars PROVE Contract!Next \/ UNCHANGED Contract!vars
    OBVIOUS
  <2> USE DEF Contract!Next
  <2>1. CASE DeleteThread
    BY <2>1, ContractDelete
  <2>2. CASE PostSummary
    BY <2>2, ContractPostSummary
  <2>3. CASE PostFinding
    BY <2>3, ContractPostFinding
  <2>4. CASE PeopleStep
    BY <2>4, ContractPeople
  <2>5. CASE UNCHANGED <<threads, lastId>>
    BY <2>5, SameNotes
  <2>6. QED
    BY <2>1, <2>2, <2>3, <2>4, <2>5 DEF Next, PublishStep, ClearStep, PostStep, Done, vars,
       FindMergeRequest, GetCurrentUser, ListPage, SkipThread, EndPage, GetMRDiffRefs, AllPosted
<1>2. QED
  BY <1>1, ContractInit, Invariant, PTL DEF Spec, ImplementsContract, Contract!Spec

----------------------------------------------------------------------------
(* What follows from the contract *)

\* The contract's review, and what makes it stand in order with ids up to last.
Standing == [id \in KindIs(Posted) |-> threads[id].note.finding]

Ordered(r, last) ==
    /\ DOMAIN r \subseteq 1..last /\ \A id \in DOMAIN r : r[id] \in Nat
    /\ \A id \in DOMAIN r : \A later \in DOMAIN r : id < later => r[id] < r[later]
    /\ DOMAIN r /= {} => \E id \in DOMAIN r : r[id] = 0

OrderInv == lastId \in Nat /\ Ordered(Standing, lastId)

LEMMA PostedInOrder ==
    ASSUME NEW last \in Nat, NEW r, Ordered(r, last), NEW note \in Nat,
           DOMAIN r = {} => note = 0, \A id \in DOMAIN r : r[id] < note,
           NEW s, s = [id \in DOMAIN r \cup {last + 1} |-> IF id = last + 1 THEN note ELSE r[id]]
    PROVE  Ordered(s, last + 1)
<1>1. /\ DOMAIN s = DOMAIN r \cup {last + 1} /\ s[last + 1] = note
      /\ \A id \in DOMAIN r : id \in 1..last /\ s[id] = r[id] /\ r[id] \in Nat
  BY DEF Ordered
<1>2. DOMAIN s \subseteq 1..last + 1 /\ \A id \in DOMAIN s : s[id] \in Nat
  BY <1>1
<1>3. ASSUME NEW id \in DOMAIN s, NEW later \in DOMAIN s, id < later
      PROVE  s[id] < s[later]
  <2>1. id \in DOMAIN r
    BY <1>1, <1>2, <1>3
  <2>2. CASE later = last + 1
    BY <1>1, <2>1, <2>2
  <2>3. CASE later \in DOMAIN r
    BY <1>1, <1>3, <2>1, <2>3 DEF Ordered
  <2>4. QED
    BY <1>1, <2>2, <2>3
<1>4. \E id \in DOMAIN s : s[id] = 0
  <2>1. CASE DOMAIN r = {}
    BY <1>1, <2>1
  <2>2. CASE DOMAIN r /= {}
    BY <1>1, <2>2 DEF Ordered
  <2>3. QED
    BY <2>1, <2>2
<1>5. QED
  BY <1>2, <1>3, <1>4 DEF Ordered

LEMMA LaterIdsInOrder ==
    ASSUME NEW last \in Nat, NEW r, Ordered(r, last)
    PROVE  Ordered(r, last + 1)
BY DEF Ordered

LEMMA ContractInOrder == Contract!Spec => []OrderInv
<1>1. Contract!Init => OrderInv
  BY DEF Contract!Init, OrderInv, Ordered, Standing, Posted
<1>2. OrderInv /\ [Contract!Next]_(Contract!vars) => OrderInv'
  <2> SUFFICES ASSUME OrderInv, [Contract!Next]_(Contract!vars) PROVE OrderInv'
    OBVIOUS
  <2>0. lastId \in Nat /\ Ordered(Standing, lastId)
    BY DEF OrderInv
  <2>1. CASE Contract!Clear \/ UNCHANGED Contract!vars
    <3>1. Standing' = Standing /\ lastId' = lastId
      BY <2>1 DEF Contract!Clear, Contract!vars, Standing, Posted
    <3>2. QED
      BY <2>0, <3>1 DEF OrderInv
  <2>2. CASE Contract!OpenThread
    <3>1. Standing' = Standing /\ lastId' = lastId + 1
      BY <2>2 DEF Contract!OpenThread, Standing, Posted
    <3>2. QED
      BY <2>0, <3>1, LaterIdsInOrder DEF OrderInv
  <2>3. CASE Contract!PostSummary \/ Contract!PostFinding
    <3>1. PICK note \in Nat :
              /\ DOMAIN Standing = {} => note = 0
              /\ \A id \in DOMAIN Standing : Standing[id] < note
              /\ Contract!Post(note)
      <4>1. CASE Contract!PostSummary
        BY <4>1 DEF Contract!PostSummary, Contract!Post, Standing, Posted
      <4>2. CASE Contract!PostFinding
        <5>1. PICK i \in 1..OutOfDiff + InDiff :
                  (\A id \in DOMAIN Standing : Standing[id] < i) /\ Contract!Post(i)
          BY <4>2 DEF Contract!PostFinding, Contract!Post, Standing, Posted
        <5>2. i \in Nat /\ DOMAIN Standing /= {}
          BY <4>2, NotesAssumption DEF Contract!PostFinding, Standing, Posted
        <5>3. QED
          BY <5>1, <5>2 DEF Contract!Post
      <4>3. QED
        BY <2>3, <4>1, <4>2
    <3>2. /\ lastId' = lastId + 1
          /\ Standing' = [id \in DOMAIN Standing \cup {lastId + 1} |->
                            IF id = lastId + 1 THEN note ELSE Standing[id]]
      BY <3>1 DEF Contract!Post, Standing, Posted
    <3>3. Ordered(Standing', lastId + 1)
      BY <2>0, <3>1, <3>2, PostedInOrder
    <3>4. QED
      BY <2>0, <3>2, <3>3 DEF OrderInv
  <2>4. QED
    BY <2>1, <2>2, <2>3 DEF Contract!Next
<1>3. QED
  BY <1>1, <1>2, PTL DEF Contract!Spec

\* The notes of a review stand on the merge request in its order, the summary first and
\* none twice, whatever fails and whoever acts meanwhile.  It follows from the contract
\* alone, and holds of the publisher because that implements the contract.
THEOREM ReviewInOrder == Spec => []Contract!InOrder
<1>1. OrderInv => Contract!InOrder
  BY DEF OrderInv, Ordered, Standing, Posted, Contract!InOrder
<1>2. QED
  BY <1>1, PublishImplementsContract, ContractInOrder, PTL DEF ImplementsContract

----------------------------------------------------------------------------
(* A publication comes to its end *)

\* What is left of a publication: parts of it, requests for pages, and threads of the page
\* or findings.  A thread that people open may add a page, but they act at most MaxActs times.
Phase ==
    CASE pc = "find" -> 6
      [] pc = "me" -> 5
      [] pc \in {"list", "delete"} -> 4
      [] pc = "refs" -> 3
      [] pc = "summary" -> 2
      [] pc = "post" -> 1
      [] OTHER -> 0

PagesLeft ==
    IF pc \in {"list", "delete"}
      THEN 2 * (lastId + (MaxActs - acts) + 1 - page) + (IF pc = "list" THEN 1 ELSE 0)
      ELSE 0

ItemsLeft ==
    CASE pc = "delete" -> Cardinality(DOMAIN pageItems)
      [] pc = "post" -> OutOfDiff + InDiff - posts
      [] OTHER -> 0

Fewer ==
    \/ Phase' < Phase
    \/ Phase' = Phase /\ PagesLeft' < PagesLeft
    \/ Phase' = Phase /\ PagesLeft' = PagesLeft /\ ItemsLeft' < ItemsLeft

AsMany == Phase' = Phase /\ PagesLeft' = PagesLeft /\ ItemsLeft' = ItemsLeft

LEMMA ItemsFinite ==
    ASSUME TypeOK
    PROVE  IsFiniteSet(DOMAIN pageItems) /\ Cardinality(DOMAIN pageItems) \in Nat
<1>1. lastId \in Int /\ DOMAIN pageItems \in SUBSET (1..lastId)
  BY DEF TypeOK, Threads
<1>2. IsFiniteSet(1..lastId)
  BY <1>1, FS_Interval
<1>3. IsFiniteSet(DOMAIN pageItems)
  BY <1>1, <1>2, FS_Subset
<1>4. QED
  BY <1>3, FS_CardinalityType

LEMMA RestFewer ==
    ASSUME TypeOK, DOMAIN pageItems /= {}
    PROVE  Cardinality(DOMAIN Rest) = Cardinality(DOMAIN pageItems) - 1
<1>1. DOMAIN Rest = DOMAIN pageItems \ {Item} /\ Item \in DOMAIN pageItems
  BY RestTyped, ItemFirst
<1>2. QED
  BY <1>1, ItemsFinite, FS_RemoveElement

\* The page asked for is never beyond the last by more than one, so none of it is below zero.
LEMMA LeftTyped ==
    ASSUME TypeOK
    PROVE  Phase \in Nat /\ PagesLeft \in Nat /\ ItemsLeft \in Nat
<1>1. Phase \in Nat
  BY DEF Phase
<1>2. PagesLeft \in Nat
  <2>1. /\ lastId \in Nat /\ page \in Nat /\ page <= lastId + 1
        /\ acts \in Nat /\ MaxActs \in Nat /\ acts <= MaxActs
    BY NotesAssumption DEF TypeOK
  <2>2. 2 * (lastId + (MaxActs - acts) + 1 - page) \in Nat
    BY <2>1
  <2>3. QED
    BY <2>2 DEF PagesLeft
<1>3. ItemsLeft \in Nat
  <2>1. OutOfDiff + InDiff - posts \in Nat
    BY NotesAssumption DEF TypeOK
  <2>2. QED
    BY <2>1, ItemsFinite DEF ItemsLeft
<1>4. QED
  BY <1>1, <1>2, <1>3

\* These requests lead to a later part of the publication, whether they succeed or fail.
LEMMA RequestsFewer ==
    ASSUME TypeOK, TypeOK',
           FindMergeRequest \/ GetCurrentUser \/ GetMRDiffRefs \/ PostSummary \/ AllPosted
    PROVE  Fewer
<1>1. Phase' < Phase
  BY DEF FindMergeRequest, GetCurrentUser, GetMRDiffRefs, PostSummary, AllPosted,
     Succeeds, Fails, Phase
<1>2. QED
  BY <1>1 DEF Fewer

LEMMA PagesFewer ==
    ASSUME TypeOK, TypeOK', ListPage \/ EndPage
    PROVE  Fewer
<1>1. /\ lastId \in Nat /\ page \in Nat /\ acts \in Nat /\ MaxActs \in Nat
      /\ page' \in Nat /\ lastId' = lastId /\ acts' = acts
  BY NotesAssumption DEF TypeOK, ListPage, EndPage
<1>2. CASE ListPage
  <2>1. CASE pc' = "refs"
    BY <1>2, <2>1 DEF ListPage, Phase, Fewer
  <2>2. CASE pc' = "delete" /\ page' = page
    <3>1. Phase' = Phase
      BY <1>2, <2>2 DEF ListPage, Phase
    <3>2. PagesLeft' < PagesLeft
      BY <1>1, <1>2, <2>2 DEF ListPage, PagesLeft
    <3>3. QED
      BY <3>1, <3>2 DEF Fewer
  <2>3. QED
    BY <1>2, <2>1, <2>2 DEF ListPage, Succeeds, Fails
<1>3. CASE EndPage
  <2>1. CASE pc' = "refs"
    BY <1>3, <2>1 DEF EndPage, Phase, Fewer
  <2>2. CASE pc' = "list" /\ page' = page + 1
    <3>1. Phase' = Phase
      BY <1>3, <2>2 DEF EndPage, Phase
    <3>2. PagesLeft' < PagesLeft
      BY <1>1, <1>3, <2>2 DEF EndPage, PagesLeft
    <3>3. QED
      BY <3>1, <3>2 DEF Fewer
  <2>3. QED
    BY <1>3, <2>1, <2>2 DEF EndPage
<1>4. QED
  BY <1>2, <1>3

LEMMA ItemsFewer ==
    ASSUME TypeOK, TypeOK', SkipThread \/ DeleteThread \/ PostFinding
    PROVE  Fewer
<1>1. CASE SkipThread \/ DeleteThread
  <2>1. /\ pc = "delete" /\ pc' = "delete" /\ DOMAIN pageItems /= {} /\ pageItems' = Rest
        /\ page' = page /\ lastId' = lastId /\ acts' = acts
    BY <1>1 DEF SkipThread, DeleteThread, Succeeds, Fails
  <2>2. Phase' = Phase /\ PagesLeft' = PagesLeft
    BY <2>1 DEF Phase, PagesLeft
  <2>3. ItemsLeft' < ItemsLeft
    <3>1. ItemsLeft' = Cardinality(DOMAIN Rest) /\ ItemsLeft = Cardinality(DOMAIN pageItems)
      BY <2>1 DEF ItemsLeft
    <3>2. QED
      BY <2>1, <3>1, RestFewer, ItemsFinite
  <2>4. QED
    BY <2>2, <2>3 DEF Fewer
<1>2. CASE PostFinding
  <2>1. pc = "post" /\ pc' = "post" /\ posts' = posts + 1
    BY <1>2 DEF PostFinding, Succeeds, Fails
  <2>2. Phase' = Phase /\ PagesLeft' = PagesLeft
    BY <2>1 DEF Phase, PagesLeft
  <2>3. ItemsLeft' < ItemsLeft
    BY <2>1, NotesAssumption DEF ItemsLeft, TypeOK
  <2>4. QED
    BY <2>2, <2>3 DEF Fewer
<1>3. QED
  BY <1>1, <1>2

\* Opening a thread may add a page, and is one of the acts that are left.
LEMMA PeopleFewer ==
    ASSUME TypeOK, PeopleStep
    PROVE  Fewer \/ AsMany
<1>1. /\ lastId \in Nat /\ page \in Nat /\ acts \in Nat /\ MaxActs \in Nat
      /\ acts' = acts + 1 /\ lastId' \in {lastId, lastId + 1}
      /\ pc' = pc /\ page' = page /\ pageItems' = pageItems /\ posts' = posts
  BY NotesAssumption DEF TypeOK, PeopleStep, OpenThread, Answer, Resolve, Acts, AddThread
<1>2. Phase' = Phase /\ ItemsLeft' = ItemsLeft
  BY <1>1 DEF Phase, ItemsLeft
<1>3. PagesLeft' < PagesLeft \/ PagesLeft' = PagesLeft
  <2> DEFINE left == lastId + (MaxActs - acts) + 1 - page
             later == lastId' + (MaxActs - acts') + 1 - page'
  <2>1. left \in Int /\ (later = left - 1 \/ later = left)
    <3>1. left \in Int
      BY <1>1
    <3>2. CASE lastId' = lastId
      BY <1>1, <3>2
    <3>3. CASE lastId' = lastId + 1
      BY <1>1, <3>3
    <3>4. QED
      BY <1>1, <3>1, <3>2, <3>3
  <2>2. 2 * later < 2 * left \/ 2 * later = 2 * left
    BY <2>1
  <2>3. CASE pc \in {"list", "delete"}
    <3>1. PagesLeft = 2 * left + (IF pc = "list" THEN 1 ELSE 0)
      BY <2>3 DEF PagesLeft
    <3>2. PagesLeft' = 2 * later + (IF pc = "list" THEN 1 ELSE 0)
      BY <1>1, <2>3 DEF PagesLeft
    <3>3. QED
      BY <2>1, <2>2, <3>1, <3>2
  <2>4. QED
    BY <1>1, <2>3 DEF PagesLeft
<1>4. QED
  BY <1>2, <1>3 DEF Fewer, AsMany

\* Publishing comes to its end for every number of threads, findings and pages: each of its
\* own steps, a failed request too, leaves less to do, in the order of parts, pages and
\* items, none of which falls below zero; and what people do meanwhile never leaves more.
\* So no page is cleared for ever while the pages shift under the loop.
THEOREM PublicationProgresses ==
    Spec => /\ [](Phase \in Nat /\ PagesLeft \in Nat /\ ItemsLeft \in Nat)
            /\ [][(PublishStep => Fewer) /\ (PeopleStep => Fewer \/ AsMany)]_vars
<1>1. IInv => Phase \in Nat /\ PagesLeft \in Nat /\ ItemsLeft \in Nat
  BY LeftTyped DEF IInv
<1>2. IInv /\ IInv' /\ [Next]_vars =>
        [(PublishStep => Fewer) /\ (PeopleStep => Fewer \/ AsMany)]_vars
  BY RequestsFewer, PagesFewer, ItemsFewer, PeopleFewer
     DEF IInv, PublishStep, ClearStep, PostStep
<1>3. QED
  BY <1>1, <1>2, Invariant, PTL DEF Spec

=============================================================================
