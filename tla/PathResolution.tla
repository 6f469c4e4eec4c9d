--------------------------- MODULE PathResolution ---------------------------
(***************************************************************************)
(* resolveFileLines (internal/shared/vcs/normalizer.go): which file of the  *)
(* diff the path in a finding means.  Agents leave out leading directories  *)
(* or add some.                                                             *)
(*                                                                          *)
(* Operators only.  A path is the sequence of its segments; a path that     *)
(* begins with a slash has "" as its first segment.                         *)
(***************************************************************************)
EXTENDS Naturals, SequencesExt

IsPath(path) == path \in Seq(STRING) /\ \E i \in DOMAIN path : path[i] /= ""

Clean(path) == IF Head(path) = "" THEN Tail(path) ELSE path

Without(path, leading) == SubSeq(path, leading + 1, Len(path))

\* The files that fit the path without its first segments.  As long as none is taken
\* away a file has to be longer: the path itself has been looked up before.
Fitting(files, path, leading) ==
    IF leading = 0 THEN {f \in files : IsStrictSuffix(path, f)}
                   ELSE {f \in files : IsSuffix(Without(path, leading), f)}

Counts(files, path) == {n \in 0..(Len(path) - 1) : Fitting(files, path, n) /= {}}

\* Bug: the path is shortened as far as possible.
FittingMostShortened(files, path) ==
    UNION {Fitting(files, path, n) : n \in {n \in Counts(files, path) : \A m \in Counts(files, path) : m <= n}}

\* As few segments are taken away as possible.
FittingLeastShortened(files, path) ==
    UNION {Fitting(files, path, n) : n \in {n \in Counts(files, path) : \A m \in Counts(files, path) : n <= m}}

\* The files that may be the answer: of several that fit, the map gives any.
ResolveFileLines(files, path) ==
    IF path \in files THEN {path} ELSE FittingLeastShortened(files, Clean(path))

----------------------------------------------------------------------------

\* How many segments two paths have in common at their end.
CommonEnd(a, b) ==
    CHOOSE n \in 0..Len(a) :
        /\ IsSuffix(Without(a, Len(a) - n), b)
        /\ n = Len(a) \/ ~IsSuffix(Without(a, Len(a) - n - 1), b)
============================================================================
