------------------------- MODULE FindingPlacement -------------------------
(***************************************************************************)
(* Where a finding is shown (internal/shared/vcs/normalizer.go, mapper.go): *)
(* the section of one file in the diff is parsed line by line into numbered *)
(* lines, and a finding of the finalizer, whose line number is often wrong, *)
(* is moved to the code it quotes: once for the summary (Normalize), once   *)
(* for its inline comment (NormalizeDiff).                                  *)
(*                                                                          *)
(* A text is what is left of a line when the blanks around it are trimmed.  *)
(* The other files of the diff are known by their paths only: they hold no  *)
(* code that a finding quotes and no line it names.                         *)
(***************************************************************************)
EXTENDS Integers, Sequences, PathResolution

CONSTANTS Texts,      \* contents of lines, "" is a blank one
          This,       \* the path of the file whose section is parsed
          Findings,   \* bound: findings, each with the other files of its diff
          MaxRead,    \* bound: lines read from the section
          MaxGap      \* bound: unchanged lines left out before a hunk

\* Lines that are not lines of the file, by their content.
NoNewline == "no newline at end of file"
Notice    == "Binary files differ"

ASSUME PlacementAssumption ==
    /\ NoNewline \notin Texts /\ Notice \notin Texts
    /\ IsPath(This)
    /\ \A f \in Findings :
          /\ f.start \in Nat /\ f.code \in Seq(Texts)
          /\ IsPath(f.path) \/ f.path = <<"">>
          /\ f.code /= <<>> => \E k \in DOMAIN f.code : f.code[k] /= ""
          /\ \A other \in f.others : IsPath(other) /\ other /= This

ASSUME BoundsAssumption == MaxRead \in Nat /\ MaxGap \in Nat

VARIABLES
    pc, read,
    change,           \* git: the file is "modified", "added" or "deleted"
    prev,             \* git: the last line of the section
    ended,            \* git: sides of the file whose end was marked
    fileOld, fileNew, \* git: the next lines of the two versions of the file
    oldNum, newNum,   \* the parser's counters
    result,           \* its DiffLines
    skewed,           \* history: since the last hunk header a line was skipped or made up
    shown,            \* history: sides, numbers and texts of the file's lines in the section
    lagging,          \* history: sides and numbers the parser gave while skewed
    finding,          \* the finding that is placed
    placed, path,     \* the position and the file of its inline comment
    summary           \* its lines in the summary

git    == <<change, prev, ended, fileOld, fileNew>>
parser == <<oldNum, newNum, result, skewed, shown, lagging>>
report == <<finding, placed, path, summary>>
vars   == <<pc, read, git, parser, report>>

Origins == {"+", "-", " "}
Sides(o) == {side \in {"old", "new"} : /\ side = "old" => o /= "+"
                                       /\ side = "new" => o /= "-"}

NoPlace == [old |-> 0, new |-> 0, inDiff |-> FALSE]
NoFinding == [start |-> 0, code |-> <<>>, path |-> This, others |-> {}]

Init ==
    /\ pc = "parse" /\ read = 0
    /\ change \in {"modified", "added", "deleted"}
    /\ prev = "start" /\ ended = {}
    /\ fileOld = (IF change = "added" THEN 0 ELSE 1)
    /\ fileNew = (IF change = "deleted" THEN 0 ELSE 1)
    /\ oldNum = 0 /\ newNum = 0 /\ result = <<>>
    /\ skewed = TRUE /\ shown = {} /\ lagging = {}
    /\ finding = NoFinding
    /\ placed = NoPlace /\ path = <<>> /\ summary = [start |-> 0, end |-> 0]

----------------------------------------------------------------------------
(* parseDiffLines, on the lines of the section as git writes them.          *)
(* Its headers are skipped and change nothing.                              *)

Read == pc = "parse" /\ read < MaxRead /\ read' = read + 1 /\ UNCHANGED <<pc, change, report>>

DiffLine(text, o) == [content |-> text, origin |-> o,
                      oldNum |-> IF o = "+" THEN 0 ELSE oldNum,
                      newNum |-> IF o = "-" THEN 0 ELSE newNum]

\* Bug: a context line advances the new side only.
CountedNewSide(text, o) ==
    /\ result' = Append(result, DiffLine(text, o))
    /\ oldNum' = IF o = "-" THEN oldNum + 1 ELSE oldNum
    /\ newNum' = IF o = "-" THEN newNum ELSE newNum + 1

Counted(text, o) ==
    /\ result' = Append(result, DiffLine(text, o))
    /\ oldNum' = IF o = "+" THEN oldNum ELSE oldNum + 1
    /\ newNum' = IF o = "-" THEN newNum ELSE newNum + 1

\* The numbers the parser gives to a line that is no line of the file, or while skewed.
Lags(o) == lagging' = lagging \cup {<<side, IF side = "old" THEN oldNum ELSE newNum>> : side \in Sides(o)}

\* The line git shows here.
Shows(text, o) ==
    shown' = shown \cup {<<side, IF side = "old" THEN fileOld ELSE fileNew, text>> : side \in Sides(o)}

InFile(o) ==
    /\ fileOld' = IF o = "+" THEN fileOld ELSE fileOld + 1
    /\ fileNew' = IF o = "-" THEN fileNew ELSE fileNew + 1

\* Bug: a hunk header does not reset the counters of the parser.
HunkHeaderKeepsCounting(gap) ==
    /\ Read /\ read' < MaxRead
    /\ ended = {} /\ prev \notin {"hunk", "notice"}
    /\ prev /= "start" => change = "modified" /\ gap > 0
    /\ change /= "modified" => gap = 0
    /\ prev' = "hunk" /\ fileOld' = fileOld + gap /\ fileNew' = fileNew + gap
    /\ oldNum' = (IF oldNum = 0 THEN fileOld' ELSE oldNum)
    /\ newNum' = (IF newNum = 0 THEN fileNew' ELSE newNum)
    /\ skewed' = FALSE
    /\ UNCHANGED <<ended, result, shown, lagging>>

\* A file made or removed has one hunk, and the other side's number there is 0.
HunkHeader(gap) ==
    /\ Read /\ read' < MaxRead
    /\ ended = {} /\ prev \notin {"hunk", "notice"}
    /\ prev /= "start" => change = "modified" /\ gap > 0
    /\ change /= "modified" => gap = 0
    /\ prev' = "hunk" /\ fileOld' = fileOld + gap /\ fileNew' = fileNew + gap
    /\ oldNum' = fileOld' /\ newNum' = fileNew' /\ skewed' = FALSE
    /\ UNCHANGED <<ended, result, shown, lagging>>

MayFollow(o) ==
    /\ prev \in Origins \cup {"hunk", "marker"} /\ Sides(o) \cap ended = {}
    /\ (change = "added" => o = "+") /\ (change = "deleted" => o = "-")

BodyLine(text, o) ==
    /\ Read
    /\ MayFollow(o) /\ prev' = o
    /\ Counted(text, o) /\ InFile(o) /\ Shows(text, o)
    /\ IF skewed THEN Lags(o) ELSE UNCHANGED lagging
    /\ UNCHANGED <<ended, skewed>>

\* A deleted "-- x" or an added "++ x" reads like a file header: it is skipped.
HeaderLookalike(o) ==
    /\ Read
    /\ MayFollow(o) /\ prev' = o
    /\ InFile(o) /\ skewed' = TRUE
    /\ UNCHANGED <<ended, oldNum, newNum, result, shown, lagging>>

\* "\ No newline at end of file" is taken for a context line.
NoNewlineMarker ==
    /\ Read
    /\ prev \in Origins /\ ended' = ended \cup Sides(prev) /\ prev' = "marker"
    /\ Counted(NoNewline, " ") /\ Lags(" ") /\ skewed' = TRUE
    /\ UNCHANGED <<fileOld, fileNew, shown>>

\* So is what git writes instead of hunks.
NoticeLine ==
    /\ Read
    /\ prev = "start" /\ prev' = "notice"
    /\ Counted(Notice, " ") /\ Lags(" ")
    /\ UNCHANGED <<ended, fileOld, fileNew, skewed, shown>>

\* The section ends with a newline, after which strings.Split finds an empty line.
EndOfSection ==
    /\ pc = "parse" /\ prev /= "hunk"
    /\ pc' = "place"
    /\ Counted("", " ") /\ Lags(" ")
    /\ UNCHANGED <<read, git, skewed, shown, report>>

----------------------------------------------------------------------------
(* The search, in the lines ls *)

Num(l, side) == IF side = "new" THEN l.newNum ELSE l.oldNum
LineNum(l) == IF l.origin = "-" THEN l.oldNum ELSE l.newNum

\* Bug: the comparison starts at the second line.
WindowMatchTail(ls, i, code) ==
    /\ i + Len(code) - 1 <= Len(ls)
    /\ \A k \in 2..Len(code) : ls[i + k - 1].content = code[k]

WindowMatch(ls, i, code) ==
    /\ i + Len(code) - 1 <= Len(ls)
    /\ \A k \in DOMAIN code : ls[i + k - 1].content = code[k]

\* Only the first line with that number is looked at.
MatchAtLine(ls, code, n, side) ==
    \E i \in DOMAIN ls :
        /\ Num(ls[i], side) = n /\ \A j \in 1..i-1 : Num(ls[j], side) /= n
        /\ WindowMatch(ls, i, code)

Matches(ls, code) == {i \in DOMAIN ls : WindowMatch(ls, i, code)}

AbsDist(a, b) == IF a < b THEN b - a ELSE a - b

\* The match closest to line n, the first of those.
BestMatch(ls, code, n) ==
    LET Dist(i) == AbsDist(LineNum(ls[i]), n)
    IN  CHOOSE i \in Matches(ls, code) : \A j \in Matches(ls, code) :
            Dist(i) < Dist(j) \/ (Dist(i) = Dist(j) /\ i <= j)

Verified(ls, f) == \E side \in {"new", "old"} : MatchAtLine(ls, f.code, f.start, side)

\* Normalize: the lines shown in the summary.
Normalize(ls, f) ==
    IF f.code = <<>> \/ Verified(ls, f) \/ Matches(ls, f.code) = {}
      THEN [start |-> f.start, end |-> f.start]
      ELSE LET i == BestMatch(ls, f.code, f.start)
           IN  [start |-> LineNum(ls[i]), end |-> LineNum(ls[i + Len(f.code) - 1])]

\* As MapFindings made it: the new side, at the finding's own line.
AsGiven(f, inDiff) == [old |-> 0, new |-> f.start, inDiff |-> inDiff]

OnSide(n, side) == [old |-> IF side = "old" THEN n ELSE 0,
                    new |-> IF side = "new" THEN n ELSE 0, inDiff |-> TRUE]

\* Bug: a context line is placed by its old number.
InlineSideOld(l) == IF l.origin = "+" THEN "new" ELSE "old"

InlineSide(l) == IF l.origin = "-" THEN "old" ELSE "new"

\* NormalizeDiff: the side and line of the inline comment, and whether there is one.
NormalizeDiff(ls, f) ==
    CASE f.code = <<>> -> AsGiven(f, \E i \in DOMAIN ls : ls[i].newNum = f.start)
      [] f.code /= <<>> /\ MatchAtLine(ls, f.code, f.start, "new") -> OnSide(f.start, "new")
      [] f.code /= <<>> /\ Verified(ls, f) /\ ~MatchAtLine(ls, f.code, f.start, "new") ->
            OnSide(f.start, "old")
      [] f.code /= <<>> /\ ~Verified(ls, f) /\ Matches(ls, f.code) /= {} ->
            LET l == ls[BestMatch(ls, f.code, f.start)]
            IN  OnSide(Num(l, InlineSide(l)), InlineSide(l))
      [] OTHER -> AsGiven(f, FALSE)

\* Bug: findings without a line number are kept.
MappedAlways(f) == f.path /= <<"">>

\* MapFindings: a finding needs a file and a line number.
Mapped(f) == f.path /= <<"">> /\ f.start > 0

Files(f) == {This} \cup f.others

\* The files each finding may mean.
Meant == [f \in Findings |-> ResolveFileLines(Files(f), f.path)]

LinesOf(file) == IF file = This THEN result ELSE <<>>

\* publishReview, for one finding: both searches resolve its path, each for itself.  A
\* path that is not resolved stays, and nothing is found in its file.
Place(f) ==
    /\ pc = "place" /\ pc' = "done"
    /\ finding' = f
    /\ \E inSummary, inline \in (IF Meant[f] = {} THEN {f.path} ELSE Meant[f]) :
        /\ summary' = Normalize(LinesOf(inSummary), f)
        /\ placed' = IF Mapped(f) THEN NormalizeDiff(LinesOf(inline), f) ELSE NoPlace
        /\ path' = IF Mapped(f) THEN inline ELSE <<>>
    /\ UNCHANGED <<read, git, parser>>

----------------------------------------------------------------------------
SectionLine ==
    \/ \E gap \in 0..MaxGap : HunkHeader(gap)
    \/ \E o \in Origins : \E t \in Texts : BodyLine(t, o)
    \/ \E o \in {"+", "-"} : HeaderLookalike(o)
    \/ NoNewlineMarker \/ NoticeLine

PlaceAny == \E f \in Findings : Place(f)

Done == pc = "done" /\ UNCHANGED vars

Next == SectionLine \/ EndOfSection \/ PlaceAny \/ Done

Spec == Init /\ [][Next]_vars

----------------------------------------------------------------------------
(* Properties *)

Contents == Texts \cup {NoNewline, Notice, ""}
Lines == [content : Contents, origin : Origins, oldNum : Nat, newNum : Nat]

\* The ranges of the variables of git and of the parser.
TypeOK ==
    /\ pc \in {"parse", "place", "done"} /\ read \in 0..MaxRead
    /\ change \in {"modified", "added", "deleted"}
    /\ prev \in Origins \cup {"start", "hunk", "marker", "notice"}
    /\ ended \subseteq {"old", "new"}
    /\ fileOld \in Nat /\ fileNew \in Nat /\ oldNum \in Nat /\ newNum \in Nat
    /\ result \in Seq(Lines)
    /\ skewed \in BOOLEAN

\* Inside a hunk, up to the first line that is skipped or made up, the parser's
\* counters are the numbers the next lines have in the two versions of the file.
CountersFollowTheFile ==
    pc = "parse" /\ ~skewed => oldNum = fileOld /\ newNum = fileNew

\* A line number names at most one parsed line of its side, over all hunks and in
\* spite of the lines parseDiffLines skips or makes up: that is what allows
\* matchAtLine to look at the first line with the number only.
NumbersIdentify ==
    \A i, j \in DOMAIN result : \A side \in {"old", "new"} :
        i /= j /\ Num(result[i], side) > 0 => Num(result[i], side) /= Num(result[j], side)

\* Where the inline comment is.
Position == IF placed.new > 0 THEN <<"new", placed.new>> ELSE <<"old", placed.old>>

\* An inline comment on a quoted code stands on that code: the file has the first quoted
\* line at that number of that side.  Not covered: a number the parser gave after a line
\* it skipped ("--- x", "+++ x") or made up ("\ No newline at end of file") in the same
\* hunk.  There its count lags behind or runs ahead of the file, and the code does put
\* the comment on another line than the quoted one.
OnTheCode ==
    placed.inDiff /\ finding.code /= <<>> /\ Position \notin lagging =>
        <<Position[1], Position[2], Head(finding.code)>> \in shown

\* "Exactly one of oldLine or newLine must be non-zero: use oldLine for deleted lines ("-"),
\* newLine for added or context lines" (client.go:118-119, of PostDiffNote): the number is
\* that of a parsed line of such a kind, with one exception.  verifyDiffAtPosition takes the
\* code at the finding's own line number for a deleted line whenever an old number matches,
\* and so places a context line by its old number, against that sentence.
ExactlyOneSide ==
    placed.inDiff =>
        /\ placed.old = 0 <=> placed.new > 0
        /\ \E i \in DOMAIN result :
              /\ Num(result[i], Position[1]) = Position[2]
              /\ \/ Position[1] = InlineSide(result[i])
                 \/ finding.code /= <<>> /\ Position = <<"old", finding.start>> /\ result[i].origin = " "

\* The summary and the inline comment, which are computed apart, name the same line,
\* unless the path means several files of the diff: then each search takes any of them.
SummaryAgrees ==
    placed.inDiff /\ (\A a, b \in Meant[finding] : a = b) =>
        summary.start = placed.old + placed.new

InCommon(f, file) == CommonEnd(f.path, file)

\* The file of that path, else those that have the most segments of its end, else none.
Closest == [f \in Findings |->
    CASE f.path \in Files(f) -> {f.path}
      [] \A file \in Files(f) : InCommon(f, file) = 0 -> {f.path}
      [] OTHER -> {file \in Files(f) : \A g \in Files(f) : InCommon(f, g) <= InCommon(f, file)}]

\* An inline comment goes to the file itself or, when the diff has none of that path, to
\* one that has the most segments in common with the end of the path.  Not covered: a
\* path that begins with a slash, whose first name is taken away with the slash.
ResolvedLongest ==
    pc = "done" /\ Mapped(finding) /\ Head(finding.path) /= "" => path \in Closest[finding]
============================================================================
