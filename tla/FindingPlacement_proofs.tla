---------------------- MODULE FindingPlacement_proofs ----------------------
(***************************************************************************)
(* Proofs about FindingPlacement, for sections of any length, any finding:   *)
(* the parser's counters follow the file, the numbers it gives identify its *)
(* lines, and the line a search chooses holds the quoted code, on one side, *)
(* for the summary as for the inline comment.                               *)
(* HistoryInv ties a parsed line to the line the file has at its number,    *)
(* or to a number that was given after a skipped or made-up line.           *)
(*                                                                          *)
(* The counters alone are not inductive: a new hunk keeps the numbers       *)
(* distinct only because every number given so far is below the counters    *)
(* and the counters never run ahead of the file before its end.             *)
(***************************************************************************)
EXTENDS FindingPlacement, SequenceTheorems, WellFoundedInduction, TLAPS

ParserTypes ==
    /\ pc \in {"parse", "place", "done"}
    /\ fileOld \in Nat /\ fileNew \in Nat /\ oldNum \in Nat /\ newNum \in Nat
    /\ result \in Seq(Lines)
    /\ skewed \in BOOLEAN

\* Every number given so far is below the counter of its side.
Below ==
    \A i \in DOMAIN result :
        /\ result[i].oldNum = 0 \/ result[i].oldNum < oldNum
        /\ result[i].newNum = 0 \/ result[i].newNum < newNum

\* Where another hunk may follow the counters are not ahead of the file.
NotAhead ==
    pc = "parse" /\ ended = {} /\ prev /= "notice" => oldNum <= fileOld /\ newNum <= fileNew

SkewedOutside == prev \in {"start", "notice"} => skewed = TRUE

ParserInv ==
    /\ ParserTypes /\ Below /\ NotAhead /\ SkewedOutside
    /\ CountersFollowTheFile /\ NumbersIdentify

LEMMA LinesNumbered ==
    ASSUME NEW s \in Seq(Lines), NEW i \in DOMAIN s
    PROVE  s[i] \in Lines /\ s[i].oldNum \in Nat /\ s[i].newNum \in Nat
<1>1. s[i] \in Lines
  OBVIOUS
<1>2. QED
  BY <1>1 DEF Lines

LEMMA HowManyLines ==
    ASSUME NEW s \in Seq(Lines)
    PROVE  Len(s) \in Nat /\ DOMAIN s = 1..Len(s)
OBVIOUS

\* A line that is counted keeps the numbers below the counters and distinct.
LEMMA CountedKeeps ==
    ASSUME ParserTypes, Below, NumbersIdentify,
           NEW text \in Contents, NEW o \in Origins, Counted(text, o)
    PROVE  /\ result' \in Seq(Lines) /\ oldNum' \in Nat /\ newNum' \in Nat
           /\ Below' /\ NumbersIdentify'
<1>1. /\ DiffLine(text, o) \in Lines
      /\ oldNum \in Nat /\ newNum \in Nat /\ oldNum' \in Nat /\ newNum' \in Nat
      /\ oldNum <= oldNum' /\ newNum <= newNum'
  BY DEF ParserTypes, Counted, DiffLine, Lines
<1>2. /\ result' \in Seq(Lines) /\ Len(result') = Len(result) + 1
      /\ DOMAIN result' = 1..(Len(result) + 1) /\ DOMAIN result = 1..Len(result)
      /\ Len(result) \in Nat
      /\ \A i \in DOMAIN result : result'[i] = result[i]
      /\ result'[Len(result) + 1] = DiffLine(text, o)
  BY <1>1 DEF Counted, ParserTypes
<1>n. \A i \in DOMAIN result : result[i].oldNum \in Nat /\ result[i].newNum \in Nat
  BY LinesNumbered DEF ParserTypes
<1>3. /\ DiffLine(text, o).oldNum = 0 \/ (DiffLine(text, o).oldNum = oldNum /\ oldNum' = oldNum + 1)
      /\ DiffLine(text, o).newNum = 0 \/ (DiffLine(text, o).newNum = newNum /\ newNum' = newNum + 1)
  BY DEF Counted, DiffLine, Origins
<1>4. Below'
  <2> SUFFICES ASSUME NEW i \in DOMAIN result'
               PROVE  /\ result'[i].oldNum = 0 \/ result'[i].oldNum < oldNum'
                      /\ result'[i].newNum = 0 \/ result'[i].newNum < newNum'
    BY DEF Below
  <2>1. CASE i \in DOMAIN result
    BY <2>1, <1>1, <1>2, <1>n DEF Below
  <2>2. CASE i = Len(result) + 1
    BY <2>2, <1>1, <1>2, <1>3
  <2>3. QED
    BY <2>1, <2>2, <1>2
<1>5. NumbersIdentify'
  <2> SUFFICES ASSUME NEW i \in DOMAIN result', NEW j \in DOMAIN result',
                      NEW side \in {"old", "new"}, i /= j, Num(result'[i], side) > 0
               PROVE  Num(result'[i], side) /= Num(result'[j], side)
    BY DEF NumbersIdentify, Num
  <2>1. CASE i \in DOMAIN result /\ j \in DOMAIN result
    BY <2>1, <1>2 DEF NumbersIdentify
  <2>2. CASE i = Len(result) + 1 /\ j \in DOMAIN result
    BY <2>2, <1>1, <1>2, <1>3, <1>n DEF Below, Num
  <2>3. CASE j = Len(result) + 1 /\ i \in DOMAIN result
    BY <2>3, <1>1, <1>2, <1>3, <1>n DEF Below, Num
  <2>4. QED
    BY <2>1, <2>2, <2>3, <1>2
<1>6. QED
  BY <1>1, <1>2, <1>4, <1>5

LEMMA ParserInvCorrect == Spec => []ParserInv
<1>1. Init => ParserInv
  BY DEF Init, ParserInv, ParserTypes, Below, NotAhead, SkewedOutside, CountersFollowTheFile, NumbersIdentify
<1>2. ParserInv /\ [Next]_vars => ParserInv'
  <2> SUFFICES ASSUME ParserInv, [Next]_vars PROVE ParserInv'
    OBVIOUS
  <2> USE DEF ParserInv
  <2>1. ASSUME NEW gap \in 0..MaxGap, HunkHeader(gap) PROVE ParserInv'
    <3>1. UNCHANGED <<pc, result>> /\ prev' = "hunk" /\ ended' = ended /\ ended = {} /\ pc = "parse"
      BY <2>1 DEF HunkHeader, Read
    <3>2. /\ prev /= "notice" /\ skewed' = FALSE
          /\ oldNum' = fileOld' /\ newNum' = fileNew'
          /\ fileOld' = fileOld + gap /\ fileNew' = fileNew + gap
      BY <2>1 DEF HunkHeader
    <3>3. oldNum <= oldNum' /\ newNum <= newNum' /\ ParserTypes'
      <4>1. gap \in Nat
        BY BoundsAssumption
      <4>2. oldNum <= fileOld /\ newNum <= fileNew
        BY <3>1, <3>2 DEF NotAhead
      <4>3. /\ fileOld \in Nat /\ fileNew \in Nat /\ oldNum \in Nat /\ newNum \in Nat
        BY DEF ParserTypes
      <4>4. /\ oldNum <= oldNum' /\ newNum <= newNum'
            /\ fileOld' \in Nat /\ fileNew' \in Nat /\ oldNum' \in Nat /\ newNum' \in Nat
        BY <4>1, <4>2, <4>3, <3>2
      <4>5. QED
        BY <4>4, <3>1, <3>2 DEF ParserTypes
    <3>4. Below'
      <4>1. \A i \in DOMAIN result : result[i].oldNum \in Nat /\ result[i].newNum \in Nat
        BY LinesNumbered DEF ParserTypes
      <4>2. oldNum \in Nat /\ newNum \in Nat /\ oldNum' \in Nat /\ newNum' \in Nat
        BY <3>3 DEF ParserTypes
      <4>3. QED
        BY <3>1, <3>3, <4>1, <4>2 DEF Below
    <3>5. NumbersIdentify'
      BY <3>1 DEF NumbersIdentify, Num
    <3>6. NotAhead' /\ SkewedOutside' /\ CountersFollowTheFile'
      <4>1. fileOld' \in Nat /\ fileNew' \in Nat
        BY <3>3 DEF ParserTypes
      <4>2. QED
        BY <4>1, <3>1, <3>2 DEF NotAhead, SkewedOutside, CountersFollowTheFile
    <3>7. QED
      BY <3>3, <3>4, <3>5, <3>6
  <2>2. ASSUME NEW o \in Origins, NEW t \in Texts, BodyLine(t, o) PROVE ParserInv'
    <3>1. /\ Counted(t, o) /\ InFile(o) /\ UNCHANGED <<pc, ended, skewed>>
          /\ prev' = o /\ pc = "parse" /\ prev /= "notice"
      BY <2>2 DEF BodyLine, Read, MayFollow, Origins
    <3>2. /\ result' \in Seq(Lines) /\ oldNum' \in Nat /\ newNum' \in Nat
          /\ Below' /\ NumbersIdentify'
      BY <3>1, CountedKeeps DEF Contents
    <3>3. ParserTypes'
      BY <3>1, <3>2 DEF ParserTypes, InFile
    <3>4. NotAhead' /\ CountersFollowTheFile'
      <4>1. /\ fileOld \in Nat /\ fileNew \in Nat /\ oldNum \in Nat /\ newNum \in Nat
        BY DEF ParserTypes
      <4>2. QED
        BY <4>1, <3>1 DEF NotAhead, CountersFollowTheFile, InFile, Counted
    <3>5. SkewedOutside'
      BY <3>1 DEF SkewedOutside, Origins
    <3>6. QED
      BY <3>2, <3>3, <3>4, <3>5
  <2>3. ASSUME NEW o \in {"+", "-"}, HeaderLookalike(o) PROVE ParserInv'
    <3>1. /\ InFile(o) /\ UNCHANGED <<pc, ended, oldNum, newNum, result>> /\ skewed' = TRUE
          /\ prev' = o /\ prev /= "notice"
      BY <2>3 DEF HeaderLookalike, Read, MayFollow, Origins
    <3>2. ParserTypes' /\ NotAhead' /\ SkewedOutside' /\ CountersFollowTheFile'
      BY <3>1 DEF ParserTypes, NotAhead, SkewedOutside, CountersFollowTheFile, InFile
    <3>3. Below' /\ NumbersIdentify'
      BY <3>1 DEF Below, NumbersIdentify, Num
    <3>4. QED
      BY <3>2, <3>3
  <2>4. ASSUME NoNewlineMarker \/ NoticeLine \/ EndOfSection PROVE ParserInv'
    <3>1. \E text \in Contents : Counted(text, " ")
      BY <2>4 DEF NoNewlineMarker, NoticeLine, EndOfSection, Contents
    <3>2. /\ result' \in Seq(Lines) /\ oldNum' \in Nat /\ newNum' \in Nat
          /\ Below' /\ NumbersIdentify'
      BY <3>1, CountedKeeps DEF Origins
    <3>3. /\ pc' \in {"parse", "place"} /\ skewed' \in BOOLEAN
          /\ fileOld' = fileOld /\ fileNew' = fileNew
      BY <2>4 DEF NoNewlineMarker, NoticeLine, EndOfSection, Read, git, ParserTypes
    <3>4. NotAhead'
      <4>1. CASE NoNewlineMarker
        <5>1. prev \in Origins /\ ended' = ended \cup Sides(prev)
          BY <4>1 DEF NoNewlineMarker
        <5>2. Sides(prev) /= {}
          <6>1. "old" \in Sides(prev) \/ "new" \in Sides(prev)
            BY <5>1 DEF Origins, Sides
          <6>2. QED
            BY <6>1
        <5>3. QED
          BY <5>1, <5>2 DEF NotAhead
      <4>2. CASE NoticeLine
        BY <4>2 DEF NoticeLine, NotAhead
      <4>3. CASE EndOfSection
        BY <4>3 DEF EndOfSection, NotAhead
      <4>4. QED
        BY <2>4, <4>1, <4>2, <4>3
    <3>5. CountersFollowTheFile' /\ SkewedOutside'
      BY <2>4 DEF NoNewlineMarker, NoticeLine, EndOfSection, CountersFollowTheFile,
                  SkewedOutside, git, ParserTypes
    <3>6. QED
      BY <3>2, <3>3, <3>4, <3>5 DEF ParserTypes
  <2>5. CASE PlaceAny
    <3>1. UNCHANGED <<git, parser>> /\ pc' = "done"
      BY <2>5 DEF PlaceAny, Place
    <3>2. QED
      BY <3>1 DEF git, parser, ParserTypes, Below, NotAhead, SkewedOutside, CountersFollowTheFile,
                  NumbersIdentify, Num
  <2>6. CASE UNCHANGED vars
    BY <2>6 DEF vars, git, parser, ParserTypes, Below, NotAhead, SkewedOutside, CountersFollowTheFile,
                NumbersIdentify, Num
  <2>7. QED
    BY <2>1, <2>2, <2>3, <2>4, <2>5, <2>6 DEF Next, SectionLine, Done
<1>3. QED
  BY <1>1, <1>2, PTL DEF Spec

\* The parser's counters are the file's own numbers until the first line of the hunk
\* that parseDiffLines skips or makes up.
THEOREM CountersCorrect == Spec => []CountersFollowTheFile
<1>1. ParserInv => CountersFollowTheFile
  BY DEF ParserInv
<1>2. QED
  BY <1>1, ParserInvCorrect, PTL

\* In a section of any length a line number identifies one parsed line of its side:
\* matchAtLine may stop at the first.
THEOREM NumbersIdentifyCorrect == Spec => []NumbersIdentify
<1>1. ParserInv => NumbersIdentify
  BY DEF ParserInv
<1>2. QED
  BY <1>1, ParserInvCorrect, PTL

----------------------------------------------------------------------------
(* The type invariant *)

\* The variables of git and of the parser keep to their ranges.
THEOREM TypeCorrect == Spec => []TypeOK
<1>1. Init => TypeOK
  BY BoundsAssumption DEF Init, TypeOK
<1>2. ParserInv /\ TypeOK /\ [Next]_vars /\ ParserInv' => TypeOK'
  <2> SUFFICES ASSUME ParserInv, TypeOK, [Next]_vars, ParserInv' PROVE TypeOK'
    OBVIOUS
  <2> USE DEF TypeOK
  <2>1. ParserTypes'
    BY DEF ParserInv
  <2>r. Read => read' \in 0..MaxRead /\ change' = change
    BY BoundsAssumption DEF Read
  <2>2. CASE \E gap \in 0..MaxGap : HunkHeader(gap)
    BY <2>1, <2>2, <2>r DEF HunkHeader, ParserTypes
  <2>3. CASE \E o \in Origins : \E t \in Texts : BodyLine(t, o)
    BY <2>1, <2>3, <2>r DEF BodyLine, ParserTypes
  <2>4. CASE \E o \in {"+", "-"} : HeaderLookalike(o)
    BY <2>1, <2>4, <2>r DEF HeaderLookalike, ParserTypes, Origins
  <2>5. CASE NoNewlineMarker
    <3>1. ended' \subseteq {"old", "new"}
      BY <2>5 DEF NoNewlineMarker, Sides
    <3> QED BY <2>1, <2>5, <2>r, <3>1 DEF NoNewlineMarker, ParserTypes
  <2>6. CASE NoticeLine
    BY <2>1, <2>6, <2>r DEF NoticeLine, ParserTypes
  <2>7. CASE EndOfSection \/ PlaceAny \/ UNCHANGED vars
    BY <2>1, <2>7 DEF EndOfSection, PlaceAny, Place, vars, git, ParserTypes
  <2> QED BY <2>2, <2>3, <2>4, <2>5, <2>6, <2>7 DEF Next, SectionLine, Done
<1> QED BY <1>1, <1>2, ParserInvCorrect, PTL DEF Spec

----------------------------------------------------------------------------
(* The placement *)

\* A set of numbers that is not empty has a least one.
LEMMA NatMin ==
    ASSUME NEW T, T \subseteq Nat, T /= {}
    PROVE  \E m \in T : \A k \in T : m <= k
<1>1. PICK m \in T : \A k \in T : ~(<<k, m>> \in OpToRel(<, Nat))
  BY NatLessThanWellFounded, WFMin
<1>2. \A k \in T : ~(k < m)
  <2> SUFFICES ASSUME NEW k \in T, k < m PROVE FALSE
    OBVIOUS
  <2>1. k \in Nat /\ m \in Nat
    OBVIOUS
  <2>2. <<k, m>> \in OpToRel(<, Nat)
    BY <2>1, Zenon DEF OpToRel
  <2> QED BY <1>1, <2>2
<1> QED BY <1>2

\* Where there is a match BestMatch is one.
LEMMA BestMatchMatches ==
    ASSUME NEW ls \in Seq(Lines), NEW code, NEW n \in Nat, Matches(ls, code) /= {}
    PROVE  BestMatch(ls, code, n) \in Matches(ls, code)
<1> DEFINE M == Matches(ls, code)
           dist(i) == AbsDist(LineNum(ls[i]), n)
<1>1. M \subseteq Nat /\ M \subseteq DOMAIN ls
  BY DEF Matches
<1>2. \A i \in M : dist(i) \in Nat
  BY <1>1, LinesNumbered DEF LineNum, AbsDist
<1> HIDE DEF M, dist
<1>3. PICK d \in {dist(i) : i \in M} : \A e \in {dist(i) : i \in M} : d <= e
  <2>1. {dist(i) : i \in M} \subseteq Nat /\ {dist(i) : i \in M} /= {}
    BY <1>2 DEF M
  <2> QED BY <2>1, NatMin
<1>4. PICK m \in {i \in M : dist(i) = d} : \A k \in {i \in M : dist(i) = d} : m <= k
  <2>1. {i \in M : dist(i) = d} \subseteq Nat /\ {i \in M : dist(i) = d} /= {}
    BY <1>1, <1>3
  <2> QED BY <2>1, NatMin
<1>5. \A j \in M : dist(m) < dist(j) \/ (dist(m) = dist(j) /\ m <= j)
  <2> SUFFICES ASSUME NEW j \in M, ~(dist(m) < dist(j)) PROVE dist(m) = dist(j) /\ m <= j
    OBVIOUS
  <2>1. dist(m) <= dist(j) /\ dist(m) \in Nat /\ dist(j) \in Nat
    BY <1>2, <1>3, <1>4
  <2>2. dist(j) = d
    BY <2>1, <1>4
  <2> QED BY <2>2, <1>4
<1>6. \E i \in M : \A j \in M : dist(i) < dist(j) \/ (dist(i) = dist(j) /\ i <= j)
  BY <1>4, <1>5
<1> QED BY <1>6, Zenon DEF BestMatch, M, dist
\* How a finding can get an inline comment, in the lines ls.
AsQuoted(ls, f, p) ==
    \/ f.code = <<>> /\ p = AsGiven(f, TRUE) /\ \E i \in DOMAIN ls : ls[i].newNum = f.start
    \/ /\ f.code /= <<>>
       /\ \E side \in {"old", "new"} : MatchAtLine(ls, f.code, f.start, side) /\ p = OnSide(f.start, side)
    \/ /\ f.code /= <<>> /\ ~Verified(ls, f)
       /\ \E b \in Matches(ls, f.code) :
             /\ b = BestMatch(ls, f.code, f.start)
             /\ p = OnSide(Num(ls[b], InlineSide(ls[b])), InlineSide(ls[b]))

LEMMA InlineIs ==
    ASSUME NEW ls \in Seq(Lines), NEW f \in Findings, NormalizeDiff(ls, f).inDiff
    PROVE  AsQuoted(ls, f, NormalizeDiff(ls, f))
<1>1. f.start \in Nat
  BY PlacementAssumption
<1>2. CASE f.code = <<>>
  <2>1. NormalizeDiff(ls, f) = AsGiven(f, \E i \in DOMAIN ls : ls[i].newNum = f.start)
    BY <1>2 DEF NormalizeDiff
  <2>2. \E i \in DOMAIN ls : ls[i].newNum = f.start
    BY <2>1 DEF AsGiven
  <2> QED BY <1>2, <2>1, <2>2 DEF AsQuoted, AsGiven
<1>3. CASE f.code /= <<>> /\ MatchAtLine(ls, f.code, f.start, "new")
  <2>1. Verified(ls, f)
    BY <1>3 DEF Verified
  <2>2. NormalizeDiff(ls, f) = OnSide(f.start, "new")
    BY <1>3, <2>1 DEF NormalizeDiff
  <2> QED BY <1>3, <2>2 DEF AsQuoted
<1>4. CASE f.code /= <<>> /\ Verified(ls, f) /\ ~MatchAtLine(ls, f.code, f.start, "new")
  BY <1>4 DEF NormalizeDiff, AsQuoted, Verified
<1>5. CASE f.code /= <<>> /\ ~Verified(ls, f) /\ Matches(ls, f.code) /= {}
  <2>1. BestMatch(ls, f.code, f.start) \in Matches(ls, f.code)
    BY <1>1, <1>5, BestMatchMatches
  <2>2. ~MatchAtLine(ls, f.code, f.start, "new")
    BY <1>5 DEF Verified
  <2>3. NormalizeDiff(ls, f) = LET l == ls[BestMatch(ls, f.code, f.start)]
                              IN  OnSide(Num(l, InlineSide(l)), InlineSide(l))
    BY <1>5, <2>2 DEF NormalizeDiff
  <2> QED BY <1>5, <2>1, <2>3 DEF AsQuoted
<1>6. CASE f.code /= <<>> /\ ~Verified(ls, f) /\ Matches(ls, f.code) = {}
  <2>1. ~MatchAtLine(ls, f.code, f.start, "new")
    BY <1>6 DEF Verified
  <2>2. NormalizeDiff(ls, f) = AsGiven(f, FALSE)
    BY <1>6, <2>1 DEF NormalizeDiff
  <2> QED BY <2>2 DEF AsGiven
<1> QED BY <1>2, <1>3, <1>4, <1>5, <1>6

\* Without lines there is no inline comment.
LEMMA NothingInNoLines ==
    ASSUME NEW f \in Findings PROVE ~NormalizeDiff(<<>>, f).inDiff
<1>1. \A side, n : ~MatchAtLine(<<>>, f.code, n, side)
  BY DEF MatchAtLine
<1>2. Matches(<<>>, f.code) = {} /\ ~Verified(<<>>, f)
  BY <1>1 DEF Matches, Verified
<1>3. NormalizeDiff(<<>>, f) = AsGiven(f, FALSE)
  <2>1. CASE f.code = <<>>
    <3>1. (\E i \in DOMAIN <<>> : <<>>[i].newNum = f.start) = FALSE
      OBVIOUS
    <3> QED BY <2>1, <3>1 DEF NormalizeDiff
  <2>2. CASE f.code /= <<>>
    BY <2>2, <1>1, <1>2 DEF NormalizeDiff
  <2> QED BY <2>1, <2>2
<1> QED BY <1>3 DEF AsGiven

\* A quoted code has a first line, and one that is not blank.
LEMMA FirstLine ==
    ASSUME NEW T, NEW blank, NEW c \in Seq(T), c /= <<>>, NEW k \in DOMAIN c, c[k] /= blank
    PROVE  /\ Len(c) \in Nat \ {0} /\ Head(c) = c[1] /\ c[1] \in T
           /\ Len(c) = 1 => c[1] /= blank
<1>1. Len(c) \in Nat \ {0} /\ DOMAIN c = 1..Len(c)
  BY EmptySeq, LenProperties
<1>2. 1 \in 1..Len(c)
  BY <1>1
<1>3. Head(c) = c[1] /\ c[1] \in T
  BY <1>1, <1>2, ElementOfSeq
<1>4. ASSUME Len(c) = 1 PROVE c[1] /= blank
  <2>1. k \in 1..1
    BY <1>1, <1>4
  <2>2. k = 1
    BY <2>1
  <2> QED BY <2>2
<1> QED BY <1>1, <1>3, <1>4

LEMMA CodeHasLines ==
    ASSUME NEW f \in Findings, f.code /= <<>>
    PROVE  /\ Len(f.code) \in Nat \ {0} /\ Head(f.code) = f.code[1] /\ f.code[1] \in Texts
           /\ Len(f.code) = 1 => f.code[1] /= ""
<1>1. f.code \in Seq(Texts) /\ \E k \in DOMAIN f.code : f.code[k] /= ""
  BY PlacementAssumption
<1>2. PICK k \in DOMAIN f.code : f.code[k] /= ""
  BY <1>1
<1> QED BY <1>1, <1>2, FirstLine

LEMMA NoRoomForTwo ==
    ASSUME NEW n \in Nat \ {0}, NEW m \in Nat, m + n - 1 <= m
    PROVE  n = 1
OBVIOUS

\* A match begins with the first quoted line.
LEMMA MatchBegins ==
    ASSUME NEW ls, NEW i \in Nat, NEW f \in Findings, f.code /= <<>>, WindowMatch(ls, i, f.code)
    PROVE  ls[i].content = Head(f.code)
<1>1. Len(f.code) \in Nat \ {0} /\ Head(f.code) = f.code[1] /\ f.code \in Seq(Texts)
  BY CodeHasLines, PlacementAssumption
<1>2. 1 \in DOMAIN f.code
  BY <1>1
<1>3. ls[i + 1 - 1].content = f.code[1] /\ i + 1 - 1 = i
  BY <1>2 DEF WindowMatch
<1> QED BY <1>1, <1>3
----------------------------------------------------------------------------
(* Numbers of lines that can be quoted *)

\* A side that the file has is numbered from 1 on, in git's count and in the parser's.
Positive ==
    /\ change /= "added" => fileOld > 0
    /\ change /= "deleted" => fileNew > 0
    /\ prev \in Origins \cup {"hunk", "marker"} =>
          (change /= "added" => oldNum > 0) /\ (change /= "deleted" => newNum > 0)

\* A line that may be quoted has a number on the side of its inline comment; the one
\* that is made up at the end of the section is blank, and nothing follows it.
Numbered(l) == Num(l, InlineSide(l)) > 0

CodeNumbered ==
    \A i \in DOMAIN result : result[i].content \in Texts =>
        Numbered(result[i]) \/ (pc /= "parse" /\ i = Len(result) /\ result[i].content = "")

LEMMA CountedAppends ==
    ASSUME ParserTypes, NEW text \in Contents, NEW o \in Origins, Counted(text, o)
    PROVE  /\ \A i \in DOMAIN result' : i \in DOMAIN result \/ i = Len(result')
           /\ \A i \in DOMAIN result : result'[i] = result[i]
           /\ result'[Len(result')] = DiffLine(text, o)
<1>1. DiffLine(text, o) \in Lines
  BY DEF ParserTypes, DiffLine, Lines
<1>2. result \in Seq(Lines) /\ result' = Append(result, DiffLine(text, o))
  BY DEF Counted, ParserTypes
<1> QED BY <1>1, <1>2

LEMMA CountedNumbered ==
    ASSUME ParserTypes, CodeNumbered, pc = "parse",
           NEW text \in Contents, NEW o \in Origins, Counted(text, o),
           \/ pc' = pc /\ (text \in Texts => Numbered(DiffLine(text, o)))
           \/ pc' = "place" /\ text = ""
    PROVE  CodeNumbered'
<1>1. /\ \A i \in DOMAIN result' : i \in DOMAIN result \/ i = Len(result')
      /\ \A i \in DOMAIN result : result'[i] = result[i]
      /\ result'[Len(result')] = DiffLine(text, o)
  BY CountedAppends
<1>2. DiffLine(text, o).content = text
  BY DEF DiffLine
<1> SUFFICES ASSUME NEW i \in DOMAIN result', result'[i].content \in Texts
             PROVE  \/ Numbered(result'[i])
                    \/ pc' /= "parse" /\ i = Len(result') /\ result'[i].content = ""
  BY DEF CodeNumbered, Numbered, Num, InlineSide
<1>3. CASE i \in DOMAIN result
  BY <1>3, <1>1 DEF CodeNumbered
<1>4. CASE i = Len(result')
  BY <1>4, <1>1, <1>2
<1> QED BY <1>1, <1>3, <1>4

NumberedInv == Positive /\ CodeNumbered

LEMMA NumberedNext ==
    TypeOK /\ ParserInv /\ NumberedInv /\ [Next]_vars => NumberedInv'
<1> SUFFICES ASSUME TypeOK, ParserInv, NumberedInv, [Next]_vars PROVE NumberedInv'
  OBVIOUS
<1> USE DEF NumberedInv
<1>t. /\ ParserTypes /\ Positive /\ CodeNumbered
      /\ fileOld \in Nat /\ fileNew \in Nat /\ oldNum \in Nat /\ newNum \in Nat
  BY DEF ParserInv, TypeOK
<1>1. ASSUME NEW gap \in 0..MaxGap, HunkHeader(gap) PROVE NumberedInv'
  <2>1. gap \in Nat
    BY BoundsAssumption
  <2>2. /\ UNCHANGED <<pc, change, result>> /\ prev' = "hunk"
        /\ fileOld' = fileOld + gap /\ fileNew' = fileNew + gap
        /\ oldNum' = fileOld' /\ newNum' = fileNew'
    BY <1>1 DEF HunkHeader, Read
  <2>3. Positive'
    BY <2>1, <2>2, <1>t DEF Positive
  <2> QED BY <2>2, <2>3, <1>t DEF CodeNumbered, Numbered, Num, InlineSide
<1>2. ASSUME NEW o \in Origins, NEW t \in Texts, BodyLine(t, o) PROVE NumberedInv'
  <2>1. /\ pc = "parse" /\ UNCHANGED <<pc, change>> /\ prev' = o
        /\ prev \in Origins \cup {"hunk", "marker"}
        /\ change = "added" => o = "+"
        /\ change = "deleted" => o = "-"
        /\ Counted(t, o) /\ InFile(o)
    BY <1>2 DEF BodyLine, Read, MayFollow
  <2>2. Positive'
    <3>1. fileOld <= fileOld' /\ fileNew <= fileNew' /\ fileOld' \in Nat /\ fileNew' \in Nat
      BY <2>1, <1>t DEF InFile
    <3>2. oldNum <= oldNum' /\ newNum <= newNum' /\ oldNum' \in Nat /\ newNum' \in Nat
      BY <2>1, <1>t DEF Counted
    <3> QED BY <2>1, <3>1, <3>2, <1>t DEF Positive
  <2>3. Numbered(DiffLine(t, o))
    BY <2>1, <1>t DEF Positive, Numbered, Num, InlineSide, DiffLine, Origins
  <2> QED BY <2>1, <2>2, <2>3, <1>t, CountedNumbered DEF Contents, Origins
<1>3. ASSUME NEW o \in {"+", "-"}, HeaderLookalike(o) PROVE NumberedInv'
  <2>1. /\ UNCHANGED <<pc, change, oldNum, newNum, result>> /\ prev' = o
        /\ prev \in Origins \cup {"hunk", "marker"} /\ InFile(o)
    BY <1>3 DEF HeaderLookalike, Read, MayFollow
  <2>2. fileOld <= fileOld' /\ fileNew <= fileNew' /\ fileOld' \in Nat /\ fileNew' \in Nat
    BY <2>1, <1>t DEF InFile
  <2>3. Positive'
    BY <2>1, <2>2, <1>t DEF Positive
  <2> QED BY <2>1, <2>3, <1>t DEF CodeNumbered, Numbered, Num, InlineSide
<1>4. CASE NoNewlineMarker
  <2>1. /\ pc = "parse" /\ UNCHANGED <<pc, change, fileOld, fileNew>>
        /\ prev \in Origins /\ prev' = "marker" /\ Counted(NoNewline, " ")
    BY <1>4 DEF NoNewlineMarker, Read
  <2>2. oldNum' > 0 /\ newNum' > 0
    <3>1. oldNum' = oldNum + 1 /\ newNum' = newNum + 1
      BY <2>1 DEF Counted
    <3>2. oldNum \in Nat /\ newNum \in Nat
      BY <1>t
    <3> QED BY <3>1, <3>2
  <2>3. Positive'
    BY <2>1, <2>2, <1>t DEF Positive
  <2>4. NoNewline \notin Texts
    BY PlacementAssumption
  <2>5. CodeNumbered'
    BY <2>1, <2>4, <1>t, CountedNumbered DEF Contents, Origins
  <2> QED BY <2>3, <2>5
<1>5. CASE NoticeLine
  <2>1. /\ pc = "parse" /\ UNCHANGED <<pc, change, fileOld, fileNew>>
        /\ prev' = "notice" /\ Counted(Notice, " ")
    BY <1>5 DEF NoticeLine, Read
  <2>2. Notice \notin Texts
    BY PlacementAssumption
  <2>3. Positive'
    BY <2>1, <1>t DEF Positive, Origins
  <2>4. CodeNumbered'
    BY <2>1, <2>2, <1>t, CountedNumbered DEF Contents, Origins
  <2> QED BY <2>3, <2>4
<1>6. CASE EndOfSection
  <2>1. pc = "parse" /\ pc' = "place" /\ Counted("", " ") /\ UNCHANGED git
    BY <1>6 DEF EndOfSection
  <2>2. oldNum' > 0 /\ newNum' > 0
    <3>1. oldNum' = oldNum + 1 /\ newNum' = newNum + 1
      BY <2>1 DEF Counted
    <3>2. oldNum \in Nat /\ newNum \in Nat
      BY <1>t
    <3> QED BY <3>1, <3>2
  <2>3. Positive'
    BY <2>1, <2>2, <1>t DEF Positive, git
  <2>4. CodeNumbered'
    BY <2>1, <1>t, CountedNumbered DEF Contents, Origins
  <2> QED BY <2>3, <2>4
<1>7. CASE PlaceAny \/ UNCHANGED vars
  <2>1. UNCHANGED <<change, prev, fileOld, fileNew, oldNum, newNum, result>>
    BY <1>7 DEF PlaceAny, Place, vars, git, parser
  <2>2. pc' = "parse" => pc = "parse"
    BY <1>7 DEF PlaceAny, Place, vars
  <2> QED BY <2>1, <2>2, <1>t DEF Positive, CodeNumbered, Numbered, Num, InlineSide
<1> QED BY <1>1, <1>2, <1>3, <1>4, <1>5, <1>6, <1>7 DEF Next, SectionLine, Done
----------------------------------------------------------------------------
(* The file's own lines *)

\* Lines have numbers on their own sides only.
Sided ==
    \A i \in DOMAIN result : /\ result[i].origin \in Origins
                             /\ result[i].origin = "+" => result[i].oldNum = 0
                             /\ result[i].origin = "-" => result[i].newNum = 0

\* A number that does not lag is that of the line in the file.
Tracked ==
    \A i \in DOMAIN result : \A side \in {"old", "new"} :
        /\ Num(result[i], side) > 0
        /\ <<side, Num(result[i], side)>> \notin lagging
        => <<side, Num(result[i], side), result[i].content>> \in shown

HistoryInv == Sided /\ Tracked

\* What a line that is counted needs: its numbers lag, or they are the file's.
LEMMA CountedTracked ==
    ASSUME ParserTypes, HistoryInv, NEW text \in Contents, NEW o \in Origins, Counted(text, o),
           lagging \subseteq lagging', shown \subseteq shown',
           \/ Lags(o)
           \/ oldNum = fileOld /\ newNum = fileNew /\ Shows(text, o)
    PROVE  HistoryInv'
<1> DEFINE l == DiffLine(text, o)
<1>1. /\ \A i \in DOMAIN result' : i \in DOMAIN result \/ i = Len(result')
      /\ \A i \in DOMAIN result : result'[i] = result[i]
      /\ result'[Len(result')] = l
  BY CountedAppends
<1>2. /\ l.origin = o /\ l.content = text
      /\ o = "+" => l.oldNum = 0
      /\ o /= "+" => l.oldNum = oldNum
      /\ o = "-" => l.newNum = 0
      /\ o /= "-" => l.newNum = newNum
  BY DEF DiffLine
<1> HIDE DEF l
<1>3. ASSUME NEW side \in {"old", "new"}, Num(l, side) > 0
      PROVE  side \in Sides(o) /\ Num(l, side) = IF side = "old" THEN oldNum ELSE newNum
  <2>1. CASE side = "old"
    <3>1. l.oldNum > 0
      BY <1>3, <2>1 DEF Num
    <3>2. o /= "+"
      BY <1>2, <3>1
    <3> QED BY <1>2, <2>1, <3>2 DEF Num, Sides
  <2>2. CASE side = "new"
    <3>1. l.newNum > 0
      BY <1>3, <2>2 DEF Num
    <3>2. o /= "-"
      BY <1>2, <3>1
    <3> QED BY <1>2, <2>2, <3>2 DEF Num, Sides
  <2> QED BY <2>1, <2>2
<1>4. ASSUME NEW side \in {"old", "new"}, Num(l, side) > 0, <<side, Num(l, side)>> \notin lagging'
      PROVE  <<side, Num(l, side), l.content>> \in shown'
  <2>1. side \in Sides(o) /\ Num(l, side) = IF side = "old" THEN oldNum ELSE newNum
    BY <1>3, <1>4
  <2>2. CASE Lags(o)
    <3>1. <<side, IF side = "old" THEN oldNum ELSE newNum>> \in lagging'
      BY <2>1, <2>2 DEF Lags
    <3> QED BY <3>1, <2>1, <1>4
  <2>3. CASE oldNum = fileOld /\ newNum = fileNew /\ Shows(text, o)
    <3>1. <<side, IF side = "old" THEN fileOld ELSE fileNew, text>> \in shown'
      BY <2>1, <2>3 DEF Shows
    <3>2. Num(l, side) = IF side = "old" THEN fileOld ELSE fileNew
      BY <2>1, <2>3
    <3> QED BY <3>1, <3>2, <1>2
  <2> QED BY <2>2, <2>3
<1>5. Sided'
  BY <1>1, <1>2 DEF HistoryInv, Sided
<1>6. Tracked'
  <2> SUFFICES ASSUME NEW i \in DOMAIN result', NEW side \in {"old", "new"},
                      Num(result'[i], side) > 0, <<side, Num(result'[i], side)>> \notin lagging'
               PROVE  <<side, Num(result'[i], side), result'[i].content>> \in shown'
    BY DEF Tracked, Num
  <2>1. CASE i \in DOMAIN result
    <3>1. <<side, Num(result[i], side)>> \notin lagging
      BY <2>1, <1>1
    <3>2. <<side, Num(result[i], side), result[i].content>> \in shown
      BY <2>1, <3>1, <1>1 DEF HistoryInv, Tracked
    <3> QED BY <2>1, <3>2, <1>1
  <2>2. CASE i = Len(result')
    BY <2>2, <1>1, <1>4
  <2> QED BY <2>1, <2>2, <1>1
<1> QED BY <1>5, <1>6 DEF HistoryInv

LEMMA HistoryNext ==
    ParserInv /\ HistoryInv /\ [Next]_vars => HistoryInv'
<1> SUFFICES ASSUME ParserInv, HistoryInv, [Next]_vars PROVE HistoryInv'
  OBVIOUS
<1>t. ParserTypes /\ CountersFollowTheFile
  BY DEF ParserInv
<1>1. ASSUME UNCHANGED <<result, shown, lagging>> PROVE HistoryInv'
  BY <1>1 DEF HistoryInv, Sided, Tracked, Num
<1>2. CASE \E o \in Origins : \E t \in Texts : BodyLine(t, o)
  <2>1. PICK o \in Origins, t \in Texts : BodyLine(t, o)
    BY <1>2
  <2>2. Counted(t, o) /\ Shows(t, o) /\ pc = "parse" /\ (IF skewed THEN Lags(o) ELSE UNCHANGED lagging)
    BY <2>1 DEF BodyLine, Read
  <2>3. lagging \subseteq lagging' /\ shown \subseteq shown'
    BY <2>2 DEF Shows, Lags
  <2>4. Lags(o) \/ (oldNum = fileOld /\ newNum = fileNew /\ Shows(t, o))
    BY <2>2, <1>t DEF CountersFollowTheFile
  <2> QED BY <2>2, <2>3, <2>4, <1>t, CountedTracked DEF Contents
<1>3. CASE NoNewlineMarker \/ NoticeLine \/ EndOfSection
  <2>1. PICK text \in Contents : Counted(text, " ") /\ Lags(" ") /\ UNCHANGED shown
    BY <1>3 DEF NoNewlineMarker, NoticeLine, EndOfSection, Contents
  <2>2. lagging \subseteq lagging' /\ shown \subseteq shown'
    BY <2>1 DEF Lags
  <2> QED BY <2>1, <2>2, <1>t, CountedTracked DEF Origins
<1>4. CASE (\E gap \in 0..MaxGap : HunkHeader(gap)) \/ (\E o \in {"+", "-"} : HeaderLookalike(o))
  BY <1>1, <1>4 DEF HunkHeader, HeaderLookalike
<1>5. CASE PlaceAny \/ UNCHANGED vars
  BY <1>1, <1>5 DEF PlaceAny, Place, vars, parser
<1> QED BY <1>2, <1>3, <1>4, <1>5 DEF Next, SectionLine, Done
----------------------------------------------------------------------------
(* Where findings end up *)

\* What Place makes of a finding that gets an inline comment.
LEMMA PlaceIs ==
    ASSUME ParserTypes, NEW f \in Findings, Place(f), placed'.inDiff
    PROVE  /\ finding' = f /\ f.start \in Nat \ {0} /\ result' = result
           /\ placed' = NormalizeDiff(result, f) /\ AsQuoted(result, f, placed')
           /\ (\A a, b \in Meant[f] : a = b) => summary' = Normalize(result, f)
<1>1. PICK inSummary, inline \in (IF Meant[f] = {} THEN {f.path} ELSE Meant[f]) :
        /\ summary' = Normalize(LinesOf(inSummary), f)
        /\ placed' = IF Mapped(f) THEN NormalizeDiff(LinesOf(inline), f) ELSE NoPlace
  BY DEF Place
<1>2. finding' = f /\ result' = result
  BY DEF Place, parser
<1>3. Mapped(f) /\ placed' = NormalizeDiff(LinesOf(inline), f)
  BY <1>1 DEF NoPlace
<1>4. inline = This
  BY <1>3, NothingInNoLines DEF LinesOf
<1>5. placed' = NormalizeDiff(result, f)
  BY <1>3, <1>4 DEF LinesOf
<1>6. AsQuoted(result, f, placed')
  BY <1>5, InlineIs DEF ParserTypes
<1>7. ASSUME \A a, b \in Meant[f] : a = b PROVE summary' = Normalize(result, f)
  <2>1. inSummary = inline
    BY <1>1, <1>7
  <2> QED BY <2>1, <1>1, <1>4 DEF LinesOf
<1>8. f.start \in Nat \ {0}
  <2>1. f.start \in Nat
    BY PlacementAssumption
  <2>2. f.start > 0
    BY <1>3, Zenon DEF Mapped
  <2> QED BY <2>1, <2>2
<1> QED BY <1>2, <1>5, <1>6, <1>7, <1>8

\* The line of the match whose first number a comment is given.
LEMMA PlacedAtMatch ==
    ASSUME ParserInv, NEW f \in Findings, Place(f), placed'.inDiff, f.code /= <<>>
    PROVE  \E j \in DOMAIN result, side \in {"old", "new"} :
             /\ WindowMatch(result, j, f.code) /\ placed' = OnSide(Num(result[j], side), side)
             /\ \/ side = InlineSide(result[j])
                \/ Num(result[j], side) = f.start
<1>1. AsQuoted(result, f, placed')
  BY PlaceIs DEF ParserInv
<1>2. CASE \E side \in {"old", "new"} :
             MatchAtLine(result, f.code, f.start, side) /\ placed' = OnSide(f.start, side)
  <2>1. PICK side \in {"old", "new"} :
          MatchAtLine(result, f.code, f.start, side) /\ placed' = OnSide(f.start, side)
    BY <1>2
  <2>2. PICK j \in DOMAIN result : Num(result[j], side) = f.start /\ WindowMatch(result, j, f.code)
    BY <2>1 DEF MatchAtLine
  <2> QED BY <2>1, <2>2
<1>3. CASE \E b \in Matches(result, f.code) :
             placed' = OnSide(Num(result[b], InlineSide(result[b])), InlineSide(result[b]))
  <2>1. PICK b \in Matches(result, f.code) :
          placed' = OnSide(Num(result[b], InlineSide(result[b])), InlineSide(result[b]))
    BY <1>3
  <2>2. b \in DOMAIN result /\ WindowMatch(result, b, f.code)
    BY DEF Matches
  <2>3. InlineSide(result[b]) \in {"old", "new"}
    BY DEF InlineSide
  <2> QED BY <2>1, <2>2, <2>3
<1> QED BY <1>1, <1>2, <1>3 DEF AsQuoted

LEMMA PlacedOnOneSide ==
    ASSUME ParserInv, NumberedInv, NEW f \in Findings, Place(f), placed'.inDiff
    PROVE  /\ placed'.old = 0 <=> placed'.new > 0
           /\ (\A a, b \in Meant[f] : a = b) => summary'.start = placed'.old + placed'.new
<1>1. /\ f.start \in Nat \ {0} /\ AsQuoted(result, f, placed') /\ result \in Seq(Lines)
      /\ (\A a, b \in Meant[f] : a = b) => summary' = Normalize(result, f)
  BY PlaceIs DEF ParserInv, ParserTypes
<1>2. CASE f.code = <<>> /\ placed' = AsGiven(f, TRUE)
  BY <1>1, <1>2 DEF AsGiven, Normalize
<1>3. CASE f.code /= <<>> /\ \E side \in {"old", "new"} :
             MatchAtLine(result, f.code, f.start, side) /\ placed' = OnSide(f.start, side)
  <2>1. Verified(result, f)
    BY <1>3 DEF Verified
  <2>2. Normalize(result, f).start = f.start
    BY <2>1 DEF Normalize
  <2>3. PICK side \in {"old", "new"} : placed' = OnSide(f.start, side)
    BY <1>3
  <2>4. CASE side = "old"
    BY <1>1, <2>2, <2>3, <2>4 DEF OnSide
  <2>5. CASE side = "new"
    BY <1>1, <2>2, <2>3, <2>5 DEF OnSide
  <2> QED BY <2>4, <2>5
<1>4. CASE /\ f.code /= <<>> /\ ~Verified(result, f)
           /\ \E b \in Matches(result, f.code) :
                 /\ b = BestMatch(result, f.code, f.start)
                 /\ placed' = OnSide(Num(result[b], InlineSide(result[b])), InlineSide(result[b]))
  <2>1. PICK b \in Matches(result, f.code) :
          /\ b = BestMatch(result, f.code, f.start)
          /\ placed' = OnSide(Num(result[b], InlineSide(result[b])), InlineSide(result[b]))
    BY <1>4
  <2>2. b \in DOMAIN result /\ WindowMatch(result, b, f.code)
    BY DEF Matches
  <2>3. Normalize(result, f).start = LineNum(result[b])
    BY <1>4, <2>1 DEF Normalize
  <2>4. LineNum(result[b]) = Num(result[b], InlineSide(result[b]))
    BY DEF LineNum, Num, InlineSide
  <2>5. LineNum(result[b]) \in Nat
    BY <1>1, <2>2, LinesNumbered DEF LineNum
  <2>6. Numbered(result[b])
    <3>1. /\ Len(f.code) \in Nat \ {0} /\ Head(f.code) = f.code[1] /\ f.code[1] \in Texts
          /\ Len(f.code) = 1 => f.code[1] /= ""
      BY <1>4, CodeHasLines
    <3>2. result[b].content = f.code[1] /\ f.code[1] \in Texts
      <4>1. b \in Nat
        BY <1>1, <2>2
      <4> QED BY <1>4, <2>2, <3>1, <4>1, MatchBegins
    <3>3. ~(b = Len(result) /\ result[b].content = "")
      <4> SUFFICES ASSUME b = Len(result), f.code[1] = "" PROVE FALSE
        BY <3>2
      <4>1. b + Len(f.code) - 1 <= Len(result)
        BY <2>2 DEF WindowMatch
      <4>2. Len(result) \in Nat
        BY <1>1, HowManyLines
      <4>3. Len(f.code) = 1
        BY <3>1, <4>1, <4>2, NoRoomForTwo
      <4> QED BY <3>1, <4>3
    <3> QED BY <2>2, <3>2, <3>3 DEF NumberedInv, CodeNumbered
  <2>7. Num(result[b], InlineSide(result[b])) > 0
    BY <2>6 DEF Numbered
  <2>8. CASE InlineSide(result[b]) = "old"
    BY <1>1, <2>1, <2>3, <2>4, <2>5, <2>7, <2>8 DEF OnSide
  <2>9. CASE InlineSide(result[b]) = "new"
    BY <1>1, <2>1, <2>3, <2>4, <2>5, <2>7, <2>9 DEF OnSide
  <2> QED BY <2>8, <2>9 DEF InlineSide
<1> QED BY <1>1, <1>2, <1>3, <1>4 DEF AsQuoted

\* The position of a comment on one side.
LEMMA PositionIs ==
    ASSUME NEW n \in Nat, NEW side \in {"old", "new"}, placed' = OnSide(n, side),
           placed'.old = 0 <=> placed'.new > 0
    PROVE  Position' = <<side, n>> /\ n > 0
<1>1. CASE side = "old"
  BY <1>1 DEF OnSide, Position
<1>2. CASE side = "new"
  BY <1>2 DEF OnSide, Position
<1> QED BY <1>1, <1>2

LEMMA PlacedOnTheCode ==
    ASSUME ParserInv, NumberedInv, HistoryInv, NEW f \in Findings, Place(f), placed'.inDiff
    PROVE  OnTheCode' /\ ExactlyOneSide'
<1>1. /\ finding' = f /\ result' = result /\ shown' = shown /\ lagging' = lagging
      /\ result \in Seq(Lines) /\ f.start \in Nat \ {0} /\ AsQuoted(result, f, placed')
  BY PlaceIs DEF Place, parser, ParserInv, ParserTypes
<1>2. placed'.old = 0 <=> placed'.new > 0
  BY PlacedOnOneSide
<1>3. CASE f.code = <<>>
  <2>1. placed' = AsGiven(f, TRUE)
    BY <1>1, <1>3 DEF AsQuoted
  <2>2. PICK i \in DOMAIN result : result[i].newNum = f.start
    BY <1>1, <1>3 DEF AsQuoted
  <2>3. Position' = <<"new", f.start>>
    BY <2>1, <1>1 DEF AsGiven, Position
  <2>4. InlineSide(result[i]) = "new" /\ Num(result[i], "new") = f.start
    BY <2>2, <1>1 DEF HistoryInv, Sided, InlineSide, Num
  <2>5. ExactlyOneSide'
    BY <1>1, <1>2, <2>3, <2>4 DEF ExactlyOneSide, Num, InlineSide
  <2> QED BY <1>1, <1>3, <2>5 DEF OnTheCode
<1>4. CASE f.code /= <<>>
  <2>1. PICK j \in DOMAIN result, side \in {"old", "new"} :
          /\ WindowMatch(result, j, f.code) /\ placed' = OnSide(Num(result[j], side), side)
          /\ \/ side = InlineSide(result[j])
             \/ Num(result[j], side) = f.start
    BY <1>4, PlacedAtMatch
  <2> DEFINE n == Num(result[j], side)
  <2>2. n \in Nat /\ j \in Nat
    BY <1>1, LinesNumbered DEF Num
  <2>3. Position' = <<side, n>> /\ n > 0
    BY <1>2, <2>1, <2>2, PositionIs
  <2>4. result[j].content = Head(f.code)
    BY <1>4, <2>1, <2>2, MatchBegins
  <2>5. OnTheCode'
    <3>1. <<side, n>> \notin lagging => <<side, n, Head(f.code)>> \in shown
      BY <2>3, <2>4 DEF HistoryInv, Tracked
    <3>2. Position'[1] = side /\ Position'[2] = n
      BY <2>3
    <3> HIDE DEF n
    <3> QED BY <1>1, <2>3, <3>1, <3>2 DEF OnTheCode
  <2>6. side = InlineSide(result[j]) \/ (<<side, n>> = <<"old", f.start>> /\ result[j].origin = " ")
    <3>1. /\ result[j].origin \in Origins
          /\ result[j].origin = "+" => result[j].oldNum = 0
          /\ result[j].origin = "-" => result[j].newNum = 0
      BY DEF HistoryInv, Sided
    <3>2. CASE side = "old"
      <4>1. n = result[j].oldNum /\ n > 0
        BY <2>3, <3>2 DEF Num
      <4>2. result[j].origin /= "+"
        BY <3>1, <4>1
      <4>3. CASE result[j].origin = "-"
        BY <3>2, <4>3 DEF InlineSide
      <4>4. CASE result[j].origin = " "
        <5>1. n = f.start
          BY <2>1, <3>2, <4>4 DEF InlineSide
        <5> QED BY <3>2, <4>4, <5>1
      <4> QED BY <3>1, <4>2, <4>3, <4>4 DEF Origins
    <3>3. CASE side = "new"
      <4>1. result[j].newNum > 0
        BY <2>3, <3>3 DEF Num
      <4>2. result[j].origin /= "-"
        BY <3>1, <4>1
      <4> QED BY <3>3, <4>2 DEF InlineSide
    <3> QED BY <3>2, <3>3
  <2>7. ExactlyOneSide'
    <3>1. Position'[1] = side /\ Position'[2] = n
      BY <2>3
    <3>2. \E i \in DOMAIN result : /\ Num(result[i], Position'[1]) = Position'[2]
                                   /\ \/ Position'[1] = InlineSide(result[i])
                                      \/ f.code /= <<>> /\ Position' = <<"old", f.start>> /\ result[i].origin = " "
      BY <1>4, <2>3, <2>6, <3>1
    <3> HIDE DEF n
    <3> QED BY <1>1, <1>2, <3>2 DEF ExactlyOneSide, Num, InlineSide
  <2> QED BY <2>5, <2>7
<1> QED BY <1>3, <1>4

ReportInv == (pc /= "done" => placed = NoPlace) /\ OnTheCode /\ ExactlyOneSide /\ SummaryAgrees

LEMMA ReportNext ==
    ParserInv /\ NumberedInv /\ HistoryInv /\ ReportInv /\ [Next]_vars => ReportInv'
<1> SUFFICES ASSUME ParserInv, NumberedInv, HistoryInv, ReportInv, [Next]_vars PROVE ReportInv'
  OBVIOUS
<1>1. CASE PlaceAny
  <2>1. PICK f \in Findings : Place(f)
    BY <1>1 DEF PlaceAny
  <2>2. pc' = "done" /\ finding' = f /\ result' = result
    BY <2>1 DEF Place, parser
  <2>3. OnTheCode' /\ ExactlyOneSide'
    <3>1. CASE placed'.inDiff
      BY <2>1, <3>1, PlacedOnTheCode
    <3>2. CASE ~placed'.inDiff
      BY <3>2 DEF OnTheCode, ExactlyOneSide
    <3> QED BY <3>1, <3>2
  <2>5. SummaryAgrees'
    BY <2>1, <2>2, PlacedOnOneSide DEF SummaryAgrees
  <2> QED BY <2>2, <2>3, <2>5 DEF ReportInv
<1>2. CASE SectionLine \/ EndOfSection
  <2>1. pc = "parse" /\ UNCHANGED report /\ pc' \in {"parse", "place"}
    BY <1>2 DEF SectionLine, EndOfSection, HunkHeader, BodyLine, HeaderLookalike, NoNewlineMarker,
                NoticeLine, Read
  <2>2. placed' = NoPlace
    BY <2>1 DEF ReportInv, report
  <2> QED BY <2>1, <2>2 DEF ReportInv, NoPlace, OnTheCode, ExactlyOneSide, SummaryAgrees
<1>3. CASE UNCHANGED vars
  BY <1>3 DEF vars, report, parser, ReportInv, OnTheCode, ExactlyOneSide, SummaryAgrees, Position, Num,
              InlineSide
<1> QED BY <1>1, <1>2, <1>3 DEF Next, Done

LEMMA ReportInvCorrect == Spec => []ReportInv
<1>1. Init => ReportInv /\ NumberedInv /\ HistoryInv
  BY DEF Init, HistoryInv, Sided, Tracked, ReportInv, NoPlace, OnTheCode, ExactlyOneSide, SummaryAgrees, NumberedInv, Positive,
         CodeNumbered, Origins
<1> QED BY <1>1, NumberedNext, HistoryNext, ReportNext, TypeCorrect, ParserInvCorrect, PTL DEF Spec

\* An inline comment on a quoted code stands on that code in the file, in a section of any
\* length, unless the parser's number lags there.
THEOREM OnTheCodeCorrect == Spec => []OnTheCode
<1>1. ReportInv => OnTheCode
  BY DEF ReportInv
<1> QED BY <1>1, ReportInvCorrect, PTL

\* It names exactly one side, that of the line, also where one side is numbered 0 and at
\* the line made up at the end of the section; a context line may be named by its old
\* number only where the finding itself gave that number.
THEOREM ExactlyOneSideCorrect == Spec => []ExactlyOneSide
<1>1. ReportInv => ExactlyOneSide
  BY DEF ReportInv
<1> QED BY <1>1, ReportInvCorrect, PTL

\* And the summary names the same line.
THEOREM SummaryAgreesCorrect == Spec => []SummaryAgrees
<1>1. ReportInv => SummaryAgrees
  BY DEF ReportInv
<1> QED BY <1>1, ReportInvCorrect, PTL
----------------------------------------------------------------------------
(* The file of the inline comment *)

\* A suffix, read from its end.
LEMMA SuffixIs ==
    ASSUME NEW S, NEW a \in Seq(S), NEW b \in Seq(S)
    PROVE  IsSuffix(a, b) <=> /\ Len(a) <= Len(b)
                              /\ \A k \in 1..Len(a) : a[Len(a) - k + 1] = b[Len(b) - k + 1]
<1> DEFINE ra == Reverse(a)
           rb == Reverse(b)
<1>1. Len(a) \in Nat /\ Len(b) \in Nat
  BY LenProperties
<1>2. /\ ra \in Seq(S) /\ Len(ra) = Len(a) /\ rb \in Seq(S) /\ Len(rb) = Len(b)
      /\ \A k \in 1..Len(a) : ra[k] = a[Len(a) - k + 1]
      /\ \A k \in 1..Len(b) : rb[k] = b[Len(b) - k + 1]
  BY <1>1 DEF Reverse
<1>3. IsSuffix(a, b) <=> Len(ra) <= Len(rb) /\ SubSeq(ra, 1, Len(ra)) = SubSeq(rb, 1, Len(ra))
  BY DEF IsSuffix, IsPrefix
<1> HIDE DEF ra, rb
<1>4. ASSUME Len(a) <= Len(b)
      PROVE  SubSeq(ra, 1, Len(a)) = SubSeq(rb, 1, Len(a)) <=> \A k \in 1..Len(a) : ra[k] = rb[k]
  <2>1. /\ Len(SubSeq(ra, 1, Len(a))) = Len(a) /\ Len(SubSeq(rb, 1, Len(a))) = Len(a)
        /\ SubSeq(ra, 1, Len(a)) \in Seq(S) /\ SubSeq(rb, 1, Len(a)) \in Seq(S)
        /\ \A k \in 1..Len(a) : SubSeq(ra, 1, Len(a))[k] = ra[k] /\ SubSeq(rb, 1, Len(a))[k] = rb[k]
    BY <1>1, <1>2, <1>4
  <2> QED BY <1>1, <2>1
<1>5. ASSUME Len(a) <= Len(b), NEW k \in 1..Len(a)
      PROVE  ra[k] = a[Len(a) - k + 1] /\ rb[k] = b[Len(b) - k + 1]
  BY <1>1, <1>2, <1>5
<1>6. CASE Len(a) <= Len(b)
  <2>1. IsSuffix(a, b) <=> \A k \in 1..Len(a) : ra[k] = rb[k]
    BY <1>2, <1>3, <1>4, <1>6
  <2> QED BY <1>5, <1>6, <2>1
<1>7. CASE ~(Len(a) <= Len(b))
  BY <1>2, <1>3, <1>7
<1> QED BY <1>6, <1>7

\* The last n segments of p end g.
Ends(p, n, g) == n <= Len(g) /\ \A k \in 1..n : p[Len(p) - k + 1] = g[Len(g) - k + 1]

\* The suffixes that Without cuts off are these ends.
LEMMA EndsIs ==
    ASSUME NEW S, NEW p \in Seq(S), NEW g \in Seq(S), NEW n \in 0..Len(p)
    PROVE  IsSuffix(Without(p, Len(p) - n), g) <=> Ends(p, n, g)
<1> DEFINE w == Without(p, Len(p) - n)
<1>1. Len(p) \in Nat /\ n \in Nat /\ n <= Len(p)
  BY LenProperties
<1>2. w \in Seq(S) /\ Len(w) = n /\ \A k \in 1..n : w[k] = p[Len(p) - n + k]
  BY <1>1 DEF Without
<1> HIDE DEF w
<1>3. ASSUME NEW k \in 1..n PROVE w[Len(w) - k + 1] = p[Len(p) - k + 1]
  <2>1. n - k + 1 \in 1..n /\ Len(p) - n + (n - k + 1) = Len(p) - k + 1
    BY <1>1
  <2> QED BY <1>2, <2>1
<1>4. IsSuffix(w, g) <=> Len(w) <= Len(g) /\ \A k \in 1..Len(w) : w[Len(w) - k + 1] = g[Len(g) - k + 1]
  <2>1. w \in Seq(S)
    BY <1>2
  <2> QED BY <2>1, SuffixIs
<1>5. IsSuffix(w, g) <=> Ends(p, n, g)
  <2>1. Len(w) = n
    BY <1>2
  <2> QED BY <1>3, <1>4, <2>1 DEF Ends
<1> QED BY <1>5 DEF w

\* A set of numbers with a bound has a greatest one.
LEMMA NatMax ==
    ASSUME NEW b \in Nat, NEW T, T \subseteq 0..b, T /= {}
    PROVE  \E m \in T : \A k \in T : k <= m
<1> DEFINE R == {b - k : k \in T}
<1>1. R \subseteq Nat /\ R /= {}
  <2>1. ASSUME NEW k \in T PROVE b - k \in R /\ b - k \in Nat
    OBVIOUS
  <2> QED BY <2>1
<1>2. PICK r \in R : \A q \in R : r <= q
  BY <1>1, NatMin
<1>3. PICK m \in T : r = b - m
  OBVIOUS
<1>4. ASSUME NEW k \in T PROVE k <= m
  <2>1. r <= b - k
    BY <1>2
  <2>2. k \in 0..b /\ m \in 0..b
    OBVIOUS
  <2> QED BY <1>3, <2>1, <2>2
<1> QED BY <1>4

\* CommonEnd is the number of segments the two paths have in common at their end.
LEMMA CommonEndIs ==
    ASSUME NEW S, NEW p \in Seq(S), NEW g \in Seq(S)
    PROVE  /\ CommonEnd(p, g) \in 0..Len(p)
           /\ \A n \in 0..Len(p) : Ends(p, n, g) <=> n <= CommonEnd(p, g)
<1> DEFINE T == {n \in 0..Len(p) : Ends(p, n, g)}
           Is(n) == /\ IsSuffix(Without(p, Len(p) - n), g)
                    /\ n = Len(p) \/ ~IsSuffix(Without(p, Len(p) - n - 1), g)
<1>1. Len(p) \in Nat /\ Len(g) \in Nat
  BY LenProperties
<1>2. \A n \in 0..Len(p) : \A m \in 0..n : Ends(p, n, g) => Ends(p, m, g)
  BY <1>1 DEF Ends
<1>3. ASSUME NEW n \in 0..Len(p)
      PROVE  Is(n) <=> Ends(p, n, g) /\ (n = Len(p) \/ ~Ends(p, n + 1, g))
  <2>1. IsSuffix(Without(p, Len(p) - n), g) <=> Ends(p, n, g)
    BY EndsIs
  <2>2. ASSUME n /= Len(p)
        PROVE  IsSuffix(Without(p, Len(p) - n - 1), g) <=> Ends(p, n + 1, g)
    <3>1. PICK m \in 0..Len(p) : m = n + 1
      BY <1>1, <2>2
    <3>2. Len(p) - m = Len(p) - n - 1
      BY <1>1, <3>1
    <3>3. IsSuffix(Without(p, Len(p) - m), g) <=> Ends(p, m, g)
      BY EndsIs
    <3> QED BY <3>1, <3>2, <3>3
  <2> QED BY <2>1, <2>2
<1>4. \E n \in 0..Len(p) : Is(n)
  <2>1. Ends(p, 0, g)
    BY <1>1 DEF Ends
  <2>2. T \subseteq 0..Len(p) /\ T /= {}
    BY <1>1, <2>1
  <2>3. PICK m \in T : \A k \in T : k <= m
    BY <1>1, <2>2, NatMax
  <2>4. m = Len(p) \/ ~Ends(p, m + 1, g)
    <3> SUFFICES ASSUME m /= Len(p), Ends(p, m + 1, g) PROVE FALSE
      OBVIOUS
    <3>1. PICK k \in 0..Len(p) : k = m + 1
      BY <1>1
    <3>2. k \in T
      BY <3>1
    <3> QED BY <1>1, <2>3, <3>1, <3>2
  <2> QED BY <1>3, <2>4
<1>5. CommonEnd(p, g) = CHOOSE n \in 0..Len(p) : Is(n)
  BY DEF CommonEnd
<1> HIDE DEF Is
<1>6. PICK c \in 0..Len(p) : c = CommonEnd(p, g) /\ Is(c)
  BY <1>4, <1>5
<1>7. ASSUME NEW n \in 0..Len(p) PROVE Ends(p, n, g) <=> n <= c
  <2>1. Ends(p, c, g) /\ (c = Len(p) \/ ~Ends(p, c + 1, g))
    BY <1>3, <1>6
  <2>2. CASE n <= c
    BY <1>2, <2>1, <2>2
  <2>3. CASE c < n
    <3>1. c + 1 \in 0..n /\ c /= Len(p)
      BY <1>1, <2>3
    <3> QED BY <1>2, <2>1, <2>3, <3>1
  <2> QED BY <1>1, <2>2, <2>3
<1> QED BY <1>6, <1>7

\* The files that fit are those with enough of the end in common.
LEMMA FittingIs ==
    ASSUME NEW S, NEW p \in Seq(S), NEW files \in SUBSET Seq(S), p \notin files,
           NEW n \in 0..(Len(p) - 1)
    PROVE  Fitting(files, p, n) = {g \in files : Len(p) - n <= CommonEnd(p, g)}
<1>1. Len(p) \in Nat
  BY LenProperties
<1>2. PICK m \in 0..Len(p) : m = Len(p) - n /\ Len(p) - m = n
  BY <1>1
<1>3. Fitting(files, p, n) = {g \in files : IsSuffix(Without(p, n), g)}
  <2>1. n = 0 => Without(p, n) = p
    BY <1>1 DEF Without
  <2> QED BY <2>1 DEF Fitting, IsStrictSuffix
<1>4. ASSUME NEW g \in files PROVE IsSuffix(Without(p, n), g) <=> m <= CommonEnd(p, g)
  <2>1. IsSuffix(Without(p, Len(p) - m), g) <=> Ends(p, m, g)
    BY EndsIs
  <2>2. Ends(p, m, g) <=> m <= CommonEnd(p, g)
    BY CommonEndIs
  <2> QED BY <1>2, <2>1, <2>2
<1> QED BY <1>2, <1>3, <1>4

\* A path that no file has: the files with the longest common end, none if no file has any.
LEMMA LeastShortenedIs ==
    ASSUME NEW S, NEW p \in Seq(S), p /= <<>>, NEW files \in SUBSET Seq(S), p \notin files
    PROVE  LET R == FittingLeastShortened(files, p)
           IN  /\ R = {} => \A g \in files : CommonEnd(p, g) = 0
               /\ \A f \in R : /\ f \in files /\ CommonEnd(p, f) /= 0
                               /\ \A g \in files : CommonEnd(p, g) <= CommonEnd(p, f)
<1> DEFINE C(g) == CommonEnd(p, g)
           N == Counts(files, p)
           R == FittingLeastShortened(files, p)
<1>1. Len(p) \in Nat /\ \A g \in files : C(g) \in 0..Len(p)
  BY LenProperties, CommonEndIs
<1>2. N = {n \in 0..(Len(p) - 1) : \E g \in files : Len(p) - n <= C(g)}
  BY FittingIs DEF Counts
<1>3. R = UNION {Fitting(files, p, n) : n \in {n \in N : \A m \in N : n <= m}}
  BY DEF FittingLeastShortened
<1> HIDE DEF C, N, R
<1>4. \A g \in files : C(g) /= 0 => Len(p) - C(g) \in N
  BY <1>1, <1>2
<1>5. ASSUME R = {}, NEW g \in files, C(g) /= 0 PROVE FALSE
  <2>1. N \subseteq Nat /\ N /= {}
    BY <1>2, <1>4, <1>5
  <2>2. PICK n \in N : \A m \in N : n <= m
    BY <2>1, NatMin
  <2>3. PICK f \in files : Len(p) - n <= C(f)
    BY <1>2
  <2>4. f \in Fitting(files, p, n)
    BY <1>2, <2>3, FittingIs DEF C
  <2> QED BY <1>3, <1>5, <2>2, <2>4
<1>6. ASSUME NEW f \in R, NEW g \in files
      PROVE  f \in files /\ C(f) /= 0 /\ C(g) <= C(f)
  <2>1. PICK n \in N : f \in Fitting(files, p, n) /\ \A m \in N : n <= m
    BY <1>3
  <2>2. n \in 0..(Len(p) - 1) /\ f \in files /\ Len(p) - n <= C(f)
    BY <1>2, <2>1, FittingIs DEF C
  <2>3. C(g) /= 0 => n <= Len(p) - C(g)
    BY <1>4, <2>1
  <2>4. C(f) \in 0..Len(p) /\ C(g) \in 0..Len(p)
    BY <1>1, <2>2
  <2> QED BY <1>1, <2>2, <2>3, <2>4
<1>7. \A f \in R : f \in files
  <2> SUFFICES ASSUME NEW f \in R PROVE f \in files
    OBVIOUS
  <2>1. PICK n \in N : f \in Fitting(files, p, n)
    BY <1>3
  <2> QED BY <1>2, <2>1, FittingIs
<1> QED BY <1>5, <1>6, <1>7 DEF C, R

\* A path has a segment.
LEMMA PathNotEmpty ==
    ASSUME NEW q, IsPath(q)
    PROVE  q \in Seq(STRING) /\ q /= <<>>
<1>1. q \in Seq(STRING) /\ \E i \in DOMAIN q : TRUE
  BY DEF IsPath
<1>2. DOMAIN q = 1..Len(q) /\ Len(q) \in Nat
  BY <1>1, LenProperties
<1>3. Len(q) /= 0
  BY <1>1, <1>2
<1>4. Len(<<>>) = 0
  OBVIOUS
<1> QED BY <1>1, <1>3, <1>4, Zenon

LEMMA HeadOfOne == ASSUME NEW e PROVE Head(<<e>>) = e
OBVIOUS

\* Every file that a path may mean is one of the closest.
LEMMA MeantAreClosest ==
    ASSUME NEW f \in Findings, Head(f.path) /= "",
           NEW path_ \in (IF Meant[f] = {} THEN {f.path} ELSE Meant[f])
    PROVE  path_ \in Closest[f]
<1> DEFINE p == f.path
           files == Files(f)
<1>1. p \in Seq(STRING) /\ p /= <<>> /\ files \in SUBSET Seq(STRING)
  <2>1. IsPath(p) /\ \A g \in files : IsPath(g)
    <3>1. Head(<<"">>) = ""
      BY HeadOfOne
    <3>2. f.path /= <<"">>
      BY <3>1
    <3>3. IsPath(f.path)
      BY <3>2, PlacementAssumption
    <3>4. \A g \in f.others : IsPath(g)
      BY PlacementAssumption
    <3> QED BY <3>3, <3>4, PlacementAssumption DEF Files
  <2>2. \A q : IsPath(q) => q \in Seq(STRING) /\ q /= <<>>
    BY PathNotEmpty
  <2> HIDE DEF p, files
  <2> QED BY <2>1, <2>2
<1>2. Clean(p) = p
  BY DEF Clean
<1>3. Meant[f] = IF p \in files THEN {p} ELSE FittingLeastShortened(files, p)
  BY <1>2 DEF Meant, ResolveFileLines
<1>4. Closest[f] = CASE p \in files -> {p}
                     [] \A g \in files : CommonEnd(p, g) = 0 -> {p}
                     [] OTHER -> {g \in files : \A h \in files : CommonEnd(p, h) <= CommonEnd(p, g)}
  BY DEF Closest, InCommon
<1> HIDE DEF p, files
<1>5. CASE p \in files
  BY <1>3, <1>4, <1>5 DEF p
<1>6. CASE p \notin files
  <2> DEFINE R == FittingLeastShortened(files, p)
  <2>1. /\ R = {} => \A g \in files : CommonEnd(p, g) = 0
        /\ \A h \in R : /\ h \in files /\ CommonEnd(p, h) /= 0
                        /\ \A g \in files : CommonEnd(p, g) <= CommonEnd(p, h)
    BY <1>1, <1>6, LeastShortenedIs
  <2>2. Meant[f] = R
    BY <1>3, <1>6
  <2> HIDE DEF R
  <2>3. CASE R = {}
    BY <1>4, <1>6, <2>1, <2>2, <2>3 DEF p
  <2>4. CASE R /= {}
    <3>1. path_ \in R
      BY <2>2, <2>4
    <3>2. ~\A g \in files : CommonEnd(p, g) = 0
      BY <2>1, <3>1
    <3> QED BY <1>4, <1>6, <2>1, <3>1, <3>2
  <2> QED BY <2>3, <2>4
<1> QED BY <1>5, <1>6

\* An inline comment goes to the file the path names, or to one with the longest common
\* end, whatever files the diff has.
THEOREM ResolvedLongestCorrect == Spec => []ResolvedLongest
<1>1. Init => ResolvedLongest
  BY DEF Init, ResolvedLongest
<1>2. ResolvedLongest /\ [Next]_vars => ResolvedLongest'
  <2> SUFFICES ASSUME ResolvedLongest, [Next]_vars, pc' = "done", Mapped(finding'),
                      Head(finding'.path) /= ""
               PROVE  path' \in Closest[finding']
    BY DEF ResolvedLongest, Closest, InCommon, Files, Mapped
  <2>1. CASE PlaceAny
    <3>1. PICK f \in Findings : Place(f)
      BY <2>1 DEF PlaceAny
    <3>2. finding' = f /\ \E inline \in (IF Meant[f] = {} THEN {f.path} ELSE Meant[f]) :
                              path' = IF Mapped(f) THEN inline ELSE <<>>
      BY <3>1 DEF Place
    <3> QED BY <3>2, MeantAreClosest
  <2>2. CASE UNCHANGED vars
    BY <2>2 DEF vars, report, ResolvedLongest
  <2>3. CASE SectionLine \/ EndOfSection
    BY <2>3 DEF SectionLine, EndOfSection, HunkHeader, BodyLine, HeaderLookalike, NoNewlineMarker,
                NoticeLine, Read
  <2> QED BY <2>1, <2>2, <2>3 DEF Next, Done
<1> QED BY <1>1, <1>2, PTL DEF Spec
=============================================================================
