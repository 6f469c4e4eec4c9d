----------------------------- MODULE ReviewDiff -----------------------------
(***************************************************************************)
(* The diff the agents read (internal/shared/diff): the text of git diff is *)
(* cut into files, each file is parsed, noise is set aside, and the rest is *)
(* written to .opencode-review/diff.md without the headers of git.          *)
(*                                                                          *)
(* Operators only.  A file of the diff is given by what git prints for it:  *)
(*   class   its kind of path, as it is read                                *)
(*   quoted  git puts the path in quotes;  spaced: there is " b/" in it     *)
(*   change  "modified", "added", "deleted" or "renamed"                    *)
(*   lines   the kinds of the lines from the first @@ on                    *)
(***************************************************************************)
EXTENDS Naturals, Sequences, FiniteSets, SequencesExt

\* In the order of fileCategory; "noise" is isNoise.
Classes == <<"code", "test", "build", "data", "doc", "noise">>

\* Lines of a header: "diff", "diffQuoted" and "diffSpaced" are "diff --git" lines, "---" and
\* "+++" the ones with the paths, the others named by their first words; "cut" and "cutPaths"
\* are "diff --git" lines that a cut in a line of code makes.
\* Lines of a hunk.  "++" and "--" are an added and a deleted line whose text begins
\* with "++ " or "-- ", so that they look like file headers; the text of "++i" and "--i"
\* begins with "++" or "--" and no blank; "mark" is an added line that contains the text
\* "diff --git ", "markPaths" one with two paths after it.
Added   == {"+", "++", "++i", "mark", "markPaths"}
Deleted == {"-", "--", "--i"}
Hunk    == {"@@", "context"} \cup Added \cup Deleted

\* What git diff may report of a file.
DiffFile == [class : ToSet(Classes), quoted : BOOLEAN, spaced : BOOLEAN,
             change : {"modified", "added", "deleted", "renamed"}, lines : Seq(Hunk)]

Line(file, is) == [file |-> file, is |-> is]

\* Of a set T of places: the one with k members up to it.  Of s: what it has at T, in order.
Nth(T, k) == CHOOSE t \in T : Cardinality({u \in T : u <= t}) = k
Only(s, T) == [k \in 1..Cardinality(T) |-> s[Nth(T, k)]]

SumOf(s) == FoldLeft(+, 0, s)

\* git diff --find-renames: the header lines of a file and its hunks.
GitHeader(f) ==
    LET mark == IF f.spaced THEN "diffSpaced" ELSE IF f.quoted THEN "diffQuoted" ELSE "diff"
        head == CASE f.change = "added"   -> <<mark, "newFile", "index">>
                  [] f.change = "deleted" -> <<mark, "deletedFile", "index">>
                  [] f.change = "renamed" -> <<mark, "similarity", "renameFrom", "renameTo", "index">>
                  [] OTHER -> <<mark, "index">>
    IN  head \o (IF f.lines = <<>> THEN <<>> ELSE <<"---", "+++">>)

Printed(i, f) ==
    LET text == GitHeader(f) \o f.lines IN [l \in DOMAIN text |-> Line(i, text[l])]

RawDiff(files) == FlattenSeq([i \in DOMAIN files |-> Printed(i, files[i])])

Marks == {"diff", "diffQuoted", "diffSpaced", "mark", "markPaths"}

\* The cut of a line that contains the marker: what precedes it, and what follows.
Before(l) == IF l.is \in {"mark", "markPaths"} THEN <<Line(l.file, "+")>> ELSE <<>>
From(l) ==
    CASE l.is = "mark" -> Line(l.file, "cut")
      [] l.is = "markPaths" -> Line(l.file, "cutPaths")
      [] OTHER -> l

\* splitDiffSections looks for the marker anywhere in a line, and a section ends where
\* the next one begins.
SplitDiffSections(lines) ==
    LET marks == {l \in DOMAIN lines : lines[l].is \in Marks}
        cut(k) ==
            LET first == Nth(marks, k)
                next  == IF k < Cardinality(marks) THEN Nth(marks, k + 1) ELSE Len(lines) + 1
            IN  <<From(lines[first])>> \o SubSeq(lines, first + 1, next - 1)
                    \o (IF next \in marks THEN Before(lines[next]) ELSE <<>>)
    IN  [k \in 1..Cardinality(marks) |-> cut(k)]

\* parseDiffHeader cuts at the first " b/": the path of a file, or a piece of it and more
\* when " b/" is in the path; 0 for the path in a line of code; none without " b/".
HeaderPath(l) ==
    CASE l.is \in {"diff", "diffSpaced"} -> <<l.file>>
      [] l.is = "cutPaths" -> <<0>>
      [] OTHER -> <<>>

Holds(section, is) == \E i \in DOMAIN section : section[i].is = is

Count(section, kinds) == Cardinality({i \in DOMAIN section : section[i].is \in kinds})

\* What the lines of a section say of its file; `misread`: `path` is not its whole path.
Parsed(section, added, deleted) ==
    [path    |-> IF Holds(section, "renameTo") THEN <<section[1].file>> ELSE HeaderPath(section[1]),
     misread |-> section[1].is = "diffSpaced" /\ ~Holds(section, "renameTo"),
     change  |-> CASE Holds(section, "renameTo") -> "renamed"
                   [] Holds(section, "newFile") -> "added"
                   [] Holds(section, "deletedFile") -> "deleted"
                   [] OTHER -> "modified",
     added   |-> Count(section, added),
     deleted |-> Count(section, deleted),
     diff    |-> section]

\* Bug: the "+++" header counts as an added line.
ParseOneFileHeadersToo(section) == Parsed(section, {"+", "+++"}, {"-", "---"})

\* parseOneFile: neither the headers are counted nor lines that begin like them, with a
\* blank after "+++" or "---" or without.
ParseOneFile(section) == Parsed(section, {"+"}, {"-"})

ParseFiles(lines) ==
    LET sections == SplitDiffSections(lines)
        parsed   == [i \in DOMAIN sections |-> ParseOneFile(sections[i])]
    IN  Only(parsed, {i \in DOMAIN parsed : parsed[i].path /= <<>>})

\* stripDiffHeaders goes by the beginning of a line, the blank included.
Headers == {"diff", "diffQuoted", "diffSpaced", "cut", "cutPaths", "index", "---", "+++",
            "newFile", "deletedFile", "similarity", "renameFrom", "renameTo"}

StripDiffHeaders(section) ==
    Only(section, {l \in DOMAIN section : section[l].is \notin Headers \cup {"++", "--"}})

\* The class of a parsed file.  A path in quotes ends with one and has no known suffix;
\* the path in a line of code may be anything.
ClassOf(files, f) ==
    IF f.path = <<0>> \/ files[f.path[1]].quoted THEN "code" ELSE files[f.path[1]].class

\* The parsed files of some classes.
OfClasses(files, parsed, classes) ==
    Only(parsed, {i \in DOMAIN parsed : ClassOf(files, parsed[i]) \in classes})

\* sortFiles is stable.
SortFiles(files, parsed) ==
    FlattenSeq([c \in 1..5 |-> OfClasses(files, parsed, {Classes[c]})])

Total(parsed, lines) == SumOf([i \in DOMAIN parsed |-> parsed[i][lines]])

\* Prepare and WriteContextFile.
ContextFile(files) ==
    LET parsed == ParseFiles(RawDiff(files))
        shown  == SortFiles(files, OfClasses(files, parsed, ToSet(Classes) \ {"noise"}))
        noise  == OfClasses(files, parsed, {"noise"})
    IN  [files    |-> [i \in DOMAIN shown |->
                          [path |-> shown[i].path[1], misread |-> shown[i].misread, change |-> shown[i].change,
                           added |-> shown[i].added, deleted |-> shown[i].deleted,
                           lines |-> StripDiffHeaders(shown[i].diff)]],
         filtered |-> [i \in DOMAIN noise |-> noise[i].path[1]],
         added    |-> Total(shown, "added"),
         deleted  |-> Total(shown, "deleted")]
============================================================================
