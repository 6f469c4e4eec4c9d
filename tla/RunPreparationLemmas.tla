------------------------ MODULE RunPreparationLemmas ------------------------
(***************************************************************************)
(* What the operators of RunPreparation return: the setting and the file     *)
(* that are used, against the documented priorities, the model chain, the    *)
(* permissions of a sub-agent, the files of a workspace, one write after the *)
(* other, and the diff, from what git prints to diff.md.                     *)
(***************************************************************************)
EXTENDS RunPreparation, FiniteSetTheorems, SequenceTheorems, NaturalsInduction,
        WellFoundedInduction, TLAPS

----------------------------------------------------------------------------
(* Least elements and induction up to a bound *)

\* A set of numbers that is not empty has a least one.
LEMMA LeastOf ==
    ASSUME NEW S \in SUBSET Nat, S /= {}
    PROVE  \E m \in S : \A n \in S : m <= n
<1>1. PICK m \in S : \A n \in S : ~(<<n, m>> \in OpToRel(<, Nat))
  BY NatLessThanWellFounded, WFMin
<1>2. \A n \in S : m <= n
  <2> SUFFICES ASSUME NEW n \in S, ~(m <= n) PROVE FALSE
    OBVIOUS
  <2>1. <<n, m>> \in Nat \X Nat /\ <<n, m>>[1] < <<n, m>>[2]
    OBVIOUS
  <2>2. <<n, m>> \in OpToRel(<, Nat)
    BY <2>1, Zenon DEF OpToRel
  <2> QED BY <1>1, <2>2
<1> QED BY <1>2

\* S holds 0 and the successor of each of its members below the bound.
LEMMA UpToBound ==
    ASSUME NEW S, NEW bound \in Nat, 0 \in S, \A n \in 0..bound - 1 : n \in S => n + 1 \in S
    PROVE  0..bound \subseteq S
<1> SUFFICES ASSUME (0..bound) \ S /= {} PROVE FALSE
  OBVIOUS
<1>0. (0..bound) \ S \in SUBSET Nat
  OBVIOUS
<1>1. PICK m \in (0..bound) \ S : \A n \in (0..bound) \ S : m <= n
  BY <1>0, LeastOf
<1>2. m - 1 \in 0..bound - 1 /\ m - 1 \in S /\ (m - 1) + 1 = m
  BY <1>1
<1>3. PICK k \in 0..bound - 1 : k \in S /\ k + 1 = m
  BY <1>2
<1>4. k + 1 \in S
  BY <1>3
<1> QED BY <1>1, <1>3, <1>4

\* Min, where the least element is known.
LEMMA MinIs ==
    ASSUME NEW S \in SUBSET Nat, NEW m \in S, \A n \in S : m <= n
    PROVE  Min(S) = m
<1>1. Min(S) \in S /\ \A y \in S : Min(S) =< y
  BY Zenon DEF Min
<1>2. Min(S) \in Nat /\ m \in Nat /\ m <= Min(S) /\ Min(S) <= m
  BY <1>1
<1> QED BY <1>2

----------------------------------------------------------------------------
(* Scalars *)

\* Which setting is read how.
LEMMA SettingIs ==
    ASSUME NEW s
    PROVE  /\ s.role = "branch" => Setting(s) = ReviewerBranch(s)
           /\ s.role = "warriorBranch" => Setting(s) = WarriorBranch(s)
           /\ s.role = "mr" => Setting(s) = MRIID(s)
           /\ s.role = "plain" => Setting(s) = Overridden(s)
<1>1. s.role = "branch" => Setting(s) = ReviewerBranch(s)
  BY Zenon DEF Setting
<1>2. s.role = "warriorBranch" => Setting(s) = WarriorBranch(s)
  BY Zenon DEF Setting
<1>3. s.role = "mr" => Setting(s) = MRIID(s)
  BY Zenon DEF Setting
<1>4. s.role = "plain" => Setting(s) = Overridden(s)
  BY Zenon DEF Setting
<1> QED BY <1>1, <1>2, <1>3, <1>4

\* The source of the value is number m of the ranking: it offers one and none before does.
LEMMA SettingFrom ==
    ASSUME NEW s, IsScalar(s), Decodes(s)
    PROVE  \/ \E m \in 1..6 :
                 /\ Setting(s).from = ScalarRank[m] /\ Offers(s, ScalarRank[m])
                 /\ \A n \in 1..6 : n < m => ~Offers(s, ScalarRank[n])
           \/ Setting(s).from = "none" /\ \A n \in 1..6 : ~Offers(s, ScalarRank[n])
<1> USE SettingIs DEF IsScalar, Decodes, Offers, ScalarRank, Parses, Given, Nothing, Environment,
                      Overridden, Loaded
<1>1. CASE s.role = "plain"
  BY <1>1 DEF Kinds, Raw
<1>2. CASE s.role = "branch"
  BY <1>2 DEF ReviewerBranch, Kinds, Raw
<1>3. CASE s.role = "warriorBranch"
  BY <1>3 DEF WarriorBranch, Kinds, Raw
<1>4. CASE s.role = "mr"
  BY <1>4 DEF MRIID, Kinds, Raw
<1> QED BY <1>1, <1>2, <1>3, <1>4 DEF Roles

\* The first source of a ranking that is one of S.
LEMMA FirstOfRankIs ==
    ASSUME NEW rank, NEW S, NEW m \in DOMAIN rank, DOMAIN rank \in SUBSET Nat, rank[m] \in S,
           \A n \in DOMAIN rank : n < m => rank[n] \notin S
    PROVE  FirstOfRank(rank, S) = rank[m]
<1> DEFINE those == {i \in DOMAIN rank : rank[i] \in S}
<1>1. those \in SUBSET Nat /\ m \in those /\ \A n \in those : m <= n
  OBVIOUS
<1>2. Min(those) = m
  BY <1>1, MinIs
<1> QED BY <1>1, <1>2 DEF FirstOfRank

\* A scalar comes from the first source that offers it, for each role and kind.
LEMMA SettingRanked ==
    ASSUME NEW s, IsScalar(s), Decodes(s)
    PROVE  Setting(s).from = FirstOfRank(ScalarRank, {source \in ToSet(ScalarRank) : Offers(s, source)})
<1> DEFINE offering == {source \in ToSet(ScalarRank) : Offers(s, source)}
<1>1. /\ DOMAIN ScalarRank = 1..6 /\ DOMAIN ScalarRank \in SUBSET Nat
      /\ \A n \in 1..6 : ScalarRank[n] \in offering <=> Offers(s, ScalarRank[n])
  BY DEF ScalarRank, ToSet
<1>2. CASE \E m \in 1..6 : /\ Setting(s).from = ScalarRank[m] /\ Offers(s, ScalarRank[m])
                           /\ \A n \in 1..6 : n < m => ~Offers(s, ScalarRank[n])
  <2>1. PICK m \in 1..6 : /\ Setting(s).from = ScalarRank[m] /\ Offers(s, ScalarRank[m])
                           /\ \A n \in 1..6 : n < m => ~Offers(s, ScalarRank[n])
    BY <1>2
  <2>2. FirstOfRank(ScalarRank, offering) = ScalarRank[m]
    BY <2>1, <1>1, FirstOfRankIs
  <2> QED BY <2>1, <2>2
<1>3. CASE Setting(s).from = "none" /\ \A n \in 1..6 : ~Offers(s, ScalarRank[n])
  BY <1>1, <1>3 DEF FirstOfRank
<1> QED BY <1>2, <1>3, SettingFrom

----------------------------------------------------------------------------
(* Files *)

IsSet(v) == v.is /= "unset" /\ (v.from \in {"inline", "envInline"} => v.is /= "empty")

\* FirstSet takes the first source that is set ...
LEMMA FirstSetIs ==
    ASSUME NEW vs, NEW m \in DOMAIN vs, DOMAIN vs \in SUBSET Nat, IsSet(vs[m]),
           \A n \in DOMAIN vs : n < m => ~IsSet(vs[n])
    PROVE  FirstSet(vs) = vs[m]
<1> DEFINE set == {i \in DOMAIN vs : /\ vs[i].is /= "unset"
                                     /\ vs[i].from \in {"inline", "envInline"} => vs[i].is /= "empty"}
<1>1. set \in SUBSET Nat /\ m \in set /\ \A n \in set : m <= n
  BY DEF IsSet
<1>2. Min(set) = m
  BY <1>1, MinIs
<1> QED BY <1>1, <1>2 DEF FirstSet

\* ... and nothing when none is.
LEMMA NoneSet ==
    ASSUME NEW vs, \A n \in DOMAIN vs : ~IsSet(vs[n])
    PROVE  FirstSet(vs) = Nothing
BY DEF FirstSet, IsSet

\* A sequence of at most four sources.
LEMMA FirstSetOf ==
    ASSUME NEW a, NEW b, NEW c, NEW d
    PROVE  /\ FirstSet(<<a>>) = IF IsSet(a) THEN a ELSE Nothing
           /\ FirstSet(<<a, b>>) = IF IsSet(a) THEN a ELSE IF IsSet(b) THEN b ELSE Nothing
           /\ FirstSet(<<a, b, c, d>>) = IF IsSet(a) THEN a ELSE IF IsSet(b) THEN b
                                         ELSE IF IsSet(c) THEN c ELSE IF IsSet(d) THEN d ELSE Nothing
<1>1. FirstSet(<<a>>) = IF IsSet(a) THEN a ELSE Nothing
  <2> DEFINE vs == <<a>>
  <2>1. DOMAIN vs = 1..1 /\ vs[1] = a /\ DOMAIN vs \in SUBSET Nat
    OBVIOUS
  <2>2. CASE IsSet(a)
    <3>1. FirstSet(vs) = vs[1]
      <4> HIDE DEF vs
      <4> QED BY <2>1, <2>2, FirstSetIs
    <3> QED BY <3>1, <2>2
  <2>3. CASE ~IsSet(a)
    <3>1. FirstSet(vs) = Nothing
      <4> HIDE DEF vs
      <4> QED BY <2>1, <2>3, NoneSet
    <3> QED BY <3>1, <2>3
  <2> QED BY <2>2, <2>3
<1>2. FirstSet(<<a, b>>) = IF IsSet(a) THEN a ELSE IF IsSet(b) THEN b ELSE Nothing
  <2> DEFINE vs == <<a, b>>
  <2>1. DOMAIN vs = 1..2 /\ vs[1] = a /\ vs[2] = b /\ DOMAIN vs \in SUBSET Nat
    OBVIOUS
  <2> HIDE DEF vs
  <2>2. IsSet(a) => FirstSet(vs) = vs[1]
    BY <2>1, FirstSetIs
  <2>3. ~IsSet(a) /\ IsSet(b) => FirstSet(vs) = vs[2]
    BY <2>1, FirstSetIs
  <2>4. ~IsSet(a) /\ ~IsSet(b) => FirstSet(vs) = Nothing
    BY <2>1, NoneSet
  <2>5. FirstSet(vs) = IF IsSet(a) THEN a ELSE IF IsSet(b) THEN b ELSE Nothing
    BY <2>1, <2>2, <2>3, <2>4
  <2> QED BY <2>5 DEF vs
<1>3. FirstSet(<<a, b, c, d>>) = IF IsSet(a) THEN a ELSE IF IsSet(b) THEN b
                                 ELSE IF IsSet(c) THEN c ELSE IF IsSet(d) THEN d ELSE Nothing
  <2> DEFINE vs == <<a, b, c, d>>
  <2>1. /\ DOMAIN vs = 1..4 /\ vs[1] = a /\ vs[2] = b /\ vs[3] = c /\ vs[4] = d
        /\ DOMAIN vs \in SUBSET Nat
    OBVIOUS
  <2> HIDE DEF vs
  <2>2. IsSet(a) => FirstSet(vs) = vs[1]
    BY <2>1, FirstSetIs
  <2>3. ~IsSet(a) /\ IsSet(b) => FirstSet(vs) = vs[2]
    BY <2>1, FirstSetIs
  <2>4. ~IsSet(a) /\ ~IsSet(b) /\ IsSet(c) => FirstSet(vs) = vs[3]
    BY <2>1, FirstSetIs
  <2>5. ~IsSet(a) /\ ~IsSet(b) /\ ~IsSet(c) /\ IsSet(d) => FirstSet(vs) = vs[4]
    BY <2>1, FirstSetIs
  <2>6. ~IsSet(a) /\ ~IsSet(b) /\ ~IsSet(c) /\ ~IsSet(d) => FirstSet(vs) = Nothing
    BY <2>1, NoneSet
  <2>7. FirstSet(vs) = IF IsSet(a) THEN a ELSE IF IsSet(b) THEN b
                       ELSE IF IsSet(c) THEN c ELSE IF IsSet(d) THEN d ELSE Nothing
    BY <2>1, <2>2, <2>3, <2>4, <2>5, <2>6
  <2> QED BY <2>7 DEF vs
<1> QED BY <1>1, <1>2, <1>3
\* Which value a loader uses.
LEMMA UsedIs ==
    ASSUME NEW v
    PROVE  /\ Used("text", v) = IF v.is \in {"unset", "empty", "blank"} THEN Given("default", "good") ELSE v
           /\ Used("own", v) = IF v.is = "unset" THEN Given("default", "good") ELSE v
           /\ Used("provider", v) = IF v.is = "empty" THEN Nothing ELSE v
           /\ Used("messages", v) = v /\ Used("agents", v) = v
<1>1. v.is \in {"unset", "empty", "blank"} => Used("text", v) = Given("default", "good")
  BY Zenon DEF Used
<1>2. v.is \notin {"unset", "empty", "blank"} => Used("text", v) = v
  BY Zenon DEF Used
<1>3. v.is = "unset" => Used("own", v) = Given("default", "good")
  BY Zenon DEF Used
<1>4. v.is /= "unset" => Used("own", v) = v
  BY Zenon DEF Used
<1>5. v.is = "empty" => Used("provider", v) = Nothing
  BY Zenon DEF Used
<1>6. v.is /= "empty" => Used("provider", v) = v
  BY Zenon DEF Used
<1>7. Used("messages", v) = v /\ Used("agents", v) = v
  BY Zenon DEF Used
<1> QED BY <1>1, <1>2, <1>3, <1>4, <1>5, <1>6, <1>7

\* Two lists of sources, one after the other.
LEMMA Joined ==
    ASSUME NEW a, NEW b, NEW c, NEW d
    PROVE  <<a, b>> \o <<>> = <<a, b>> /\ <<a, b>> \o <<c, d>> = <<a, b, c, d>>
<1>1. /\ <<a, b>> \in Seq({a, b, c, d}) /\ <<c, d>> \in Seq({a, b, c, d})
      /\ <<>> \in Seq({a, b, c, d}) /\ <<a, b, c, d>> \in Seq({a, b, c, d})
  OBVIOUS
<1>2. /\ Len(<<a, b>>) = 2 /\ Len(<<c, d>>) = 2 /\ Len(<<a, b>> \o <<c, d>>) = 4
      /\ Len(<<a, b, c, d>>) = 4 /\ Len(<<a, b>> \o <<>>) = 2
  OBVIOUS
<1> DEFINE four == <<a, b>> \o <<c, d>>
<1>3. four \in [1..4 -> {a, b, c, d}] /\ <<a, b, c, d>> \in [1..4 -> {a, b, c, d}]
  <2>1. four \in Seq({a, b, c, d}) /\ Len(four) = 4
    BY <1>1, <1>2
  <2> HIDE DEF four
  <2>2. four \in [1..4 -> {a, b, c, d}]
    BY <2>1, LenProperties
  <2>3. <<a, b, c, d>> \in [1..4 -> {a, b, c, d}]
    OBVIOUS
  <2> QED BY <2>2, <2>3
<1>4. four[1] = a /\ four[2] = b /\ four[3] = c /\ four[4] = d
  BY <1>1, <1>2
<1>5. four = <<a, b, c, d>>
  <2> HIDE DEF four
  <2>1. \A i \in 1..4 : four[i] = <<a, b, c, d>>[i]
    BY <1>4
  <2> QED BY <1>3, <2>1
<1>6. <<a, b>> \o <<>> = <<a, b>>
  BY <1>1
<1> QED BY <1>5, <1>6

\* What is read for the setting s.
ReadFor(s) == IF s.kind = "own" THEN ResolveOwn(s, dir) ELSE Resolve(s, dir)

\* The sources that are looked at, in their order, by kind and config directory.
LEMMA ReadForIs ==
    ASSUME NEW s
    PROVE  /\ s.kind = "own" /\ Active(dir) =>
                  ReadFor(s) = IF IsSet(Given("dir", s.dir)) THEN Given("dir", s.dir) ELSE Nothing
           /\ s.kind = "own" /\ ~Active(dir) =>
                  ReadFor(s) = IF IsSet(Given("env", s.env)) THEN Given("env", s.env) ELSE Nothing
           /\ s.kind /= "own" /\ Active(dir) =>
                  LET c == WithDir(s, dir)
                  IN  ReadFor(s) = IF IsSet(c.inline) THEN c.inline ELSE IF IsSet(c.path) THEN c.path ELSE Nothing
           /\ s.kind /= "own" /\ ~Active(dir) =>
                  LET c == WithDir(s, dir)
                  IN  ReadFor(s) = IF IsSet(c.inline) THEN c.inline ELSE IF IsSet(c.path) THEN c.path
                                   ELSE IF IsSet(Given("env", s.env)) THEN Given("env", s.env)
                                   ELSE IF IsSet(Given("envInline", s.envInline)) THEN Given("envInline", s.envInline)
                                   ELSE Nothing
<1> DEFINE c == WithDir(s, dir)
           e == Given("env", s.env)
           f == Given("envInline", s.envInline)
           d == Given("dir", s.dir)
<1>1. /\ <<c.inline, c.path>> \o <<>> = <<c.inline, c.path>>
      /\ <<c.inline, c.path>> \o <<e, f>> = <<c.inline, c.path, e, f>>
  BY Joined
<1>2. s.kind = "own" /\ Active(dir) => ReadFor(s) = FirstSet(<<d>>)
  BY DEF ReadFor, ResolveOwn
<1>3. s.kind = "own" /\ ~Active(dir) => ReadFor(s) = FirstSet(<<e>>)
  BY DEF ReadFor, ResolveOwn
<1>4. s.kind /= "own" /\ Active(dir) => ReadFor(s) = FirstSet(<<c.inline, c.path>>)
  BY <1>1 DEF ReadFor, Resolve
<1>5. s.kind /= "own" /\ ~Active(dir) => ReadFor(s) = FirstSet(<<c.inline, c.path, e, f>>)
  BY <1>1 DEF ReadFor, Resolve
<1> HIDE DEF c, e, f, d
<1>6. /\ s.kind = "own" /\ Active(dir) => ReadFor(s) = IF IsSet(d) THEN d ELSE Nothing
      /\ s.kind = "own" /\ ~Active(dir) => ReadFor(s) = IF IsSet(e) THEN e ELSE Nothing
      /\ s.kind /= "own" /\ Active(dir) =>
            ReadFor(s) = IF IsSet(c.inline) THEN c.inline ELSE IF IsSet(c.path) THEN c.path ELSE Nothing
      /\ s.kind /= "own" /\ ~Active(dir) =>
            ReadFor(s) = IF IsSet(c.inline) THEN c.inline ELSE IF IsSet(c.path) THEN c.path
                         ELSE IF IsSet(e) THEN e ELSE IF IsSet(f) THEN f ELSE Nothing
  <2>1. FirstSet(<<d>>) = IF IsSet(d) THEN d ELSE Nothing
    BY FirstSetOf
  <2>2. FirstSet(<<e>>) = IF IsSet(e) THEN e ELSE Nothing
    BY FirstSetOf
  <2>3. FirstSet(<<c.inline, c.path>>) =
            IF IsSet(c.inline) THEN c.inline ELSE IF IsSet(c.path) THEN c.path ELSE Nothing
    BY FirstSetOf
  <2>4. FirstSet(<<c.inline, c.path, e, f>>) =
            IF IsSet(c.inline) THEN c.inline ELSE IF IsSet(c.path) THEN c.path
            ELSE IF IsSet(e) THEN e ELSE IF IsSet(f) THEN f ELSE Nothing
    BY FirstSetOf
  <2> QED BY <1>2, <1>3, <1>4, <1>5, <2>1, <2>2, <2>3, <2>4
<1> QED BY <1>6 DEF c, e, f, d

\* What is read is what the first source of the ranking offers.
LEMMA ReadFrom ==
    ASSUME NEW s, IsFile(s)
    PROVE  \/ \E m \in 1..5 :
                 /\ ReadFor(s) = Given(FileRank[m], s[FileRank[m]]) /\ FileOffers(s, FileRank[m])
                 /\ \A n \in 1..5 : n < m => ~FileOffers(s, FileRank[n])
           \/ ReadFor(s) = Nothing /\ \A n \in 1..5 : ~FileOffers(s, FileRank[n])
<1> USE DEF IsFile, FileOffers, FileRank, Content, Given, Nothing, IsSet
<1>1. CASE s.kind = "own" /\ Active(dir)
  BY <1>1, ReadForIs
<1>2. CASE s.kind = "own" /\ ~Active(dir)
  BY <1>2, ReadForIs
<1>3. CASE s.kind /= "own" /\ Active(dir)
  BY <1>3, ReadForIs DEF WithDir
<1>4. CASE s.kind /= "own" /\ ~Active(dir)
  <2> DEFINE v(name) == Given(name, s[name])
  <2>1. WithDir(s, dir) = [inline |-> v("inline"), path |-> v("path")]
    BY <1>4 DEF WithDir
  <2>2. ReadFor(s) = IF IsSet(v("inline")) THEN v("inline") ELSE IF IsSet(v("path")) THEN v("path")
                     ELSE IF IsSet(v("env")) THEN v("env")
                     ELSE IF IsSet(v("envInline")) THEN v("envInline") ELSE Nothing
    BY <1>4, <2>1, ReadForIs DEF Given
  <2>3. /\ ~FileOffers(s, "dir")
        /\ FileOffers(s, "inline") <=> IsSet(v("inline"))
        /\ FileOffers(s, "path") <=> IsSet(v("path"))
        /\ FileOffers(s, "env") <=> IsSet(v("env"))
        /\ FileOffers(s, "envInline") <=> IsSet(v("envInline"))
    BY <1>4
  <2>4. /\ FileRank[1] = "dir" /\ FileRank[2] = "inline" /\ FileRank[3] = "path"
        /\ FileRank[4] = "env" /\ FileRank[5] = "envInline"
    OBVIOUS
  <2> HIDE DEF v, IsFile, FileOffers, FileRank, Content, Given, Nothing, IsSet
  <2>5. CASE FileOffers(s, "inline")
    BY <2>2, <2>3, <2>4, <2>5 DEF v
  <2>6. CASE ~FileOffers(s, "inline") /\ FileOffers(s, "path")
    BY <2>2, <2>3, <2>4, <2>6 DEF v
  <2>7. CASE ~FileOffers(s, "inline") /\ ~FileOffers(s, "path") /\ FileOffers(s, "env")
    BY <2>2, <2>3, <2>4, <2>7 DEF v
  <2>8. CASE /\ ~FileOffers(s, "inline") /\ ~FileOffers(s, "path") /\ ~FileOffers(s, "env")
             /\ FileOffers(s, "envInline")
    BY <2>2, <2>3, <2>4, <2>8 DEF v
  <2>9. CASE /\ ~FileOffers(s, "inline") /\ ~FileOffers(s, "path") /\ ~FileOffers(s, "env")
             /\ ~FileOffers(s, "envInline")
    BY <2>2, <2>3, <2>4, <2>9
  <2> QED BY <2>5, <2>6, <2>7, <2>8, <2>9
<1> QED BY <1>1, <1>2, <1>3, <1>4

FirstFile(s) == FirstOfRank(FileRank, {source \in ToSet(FileRank) : FileOffers(s, source)})

\* What is read comes from the first source that offers it.
LEMMA ReadRanked ==
    ASSUME NEW s, IsFile(s)
    PROVE  ReadFor(s) = Given(FirstFile(s), Content(s, FirstFile(s)))
<1> DEFINE offering == {source \in ToSet(FileRank) : FileOffers(s, source)}
<1>1. /\ DOMAIN FileRank = 1..5 /\ DOMAIN FileRank \in SUBSET Nat
      /\ \A n \in 1..5 : FileRank[n] /= "none" /\ (FileRank[n] \in offering <=> FileOffers(s, FileRank[n]))
  BY DEF FileRank, ToSet
<1>2. CASE \E m \in 1..5 : /\ ReadFor(s) = Given(FileRank[m], s[FileRank[m]]) /\ FileOffers(s, FileRank[m])
                           /\ \A n \in 1..5 : n < m => ~FileOffers(s, FileRank[n])
  <2>1. PICK m \in 1..5 : /\ ReadFor(s) = Given(FileRank[m], s[FileRank[m]]) /\ FileOffers(s, FileRank[m])
                           /\ \A n \in 1..5 : n < m => ~FileOffers(s, FileRank[n])
    BY <1>2
  <2>2. FirstFile(s) = FileRank[m]
    BY <2>1, <1>1, FirstOfRankIs DEF FirstFile
  <2> QED BY <2>1, <2>2, <1>1 DEF Content
<1>3. CASE ReadFor(s) = Nothing /\ \A n \in 1..5 : ~FileOffers(s, FileRank[n])
  BY <1>1, <1>3 DEF FirstFile, FirstOfRank, Content, Nothing
<1> QED BY <1>2, <1>3, ReadFrom

\* What the loader uses unless it refuses it.
LEMMA EffectiveRanked ==
    ASSUME NEW s, IsFile(s), Effective(s, dir).is /= "refused"
    PROVE  LET first == FirstFile(s)
               is    == Content(s, first)
           IN  /\ is \notin {"unreadable", "bad"} \/ (is = "bad" /\ s.kind \in {"text", "messages", "own"})
               /\ \/ Effective(s, dir) = Given(first, is)
                  \/ is \in {"unset", "empty", "blank"} /\ Effective(s, dir).from \in {"default", "none"}
<1> DEFINE v == ReadFor(s)
<1>1. ~Refused(s.kind, v) /\ Effective(s, dir) = Used(s.kind, v)
  BY DEF Effective, ReadFor, Given
<1>2. v = Given(FirstFile(s), Content(s, FirstFile(s)))
  BY ReadRanked
<1>3. s.kind \in FileKinds
  BY DEF IsFile
<1> HIDE DEF v
<1> QED BY <1>1, <1>2, <1>3, UsedIs DEF Refused, Given, Nothing, FileKinds

----------------------------------------------------------------------------
(* The model chain *)

\* The chain of the first n fallbacks, given the one of the fallbacks before.
Longer(fallbacks, before, n) ==
    IF fallbacks[n] = NoModel \/ fallbacks[n] \in ToSet(before) THEN before
    ELSE Append(before, fallbacks[n])

\* WithoutRepeats computes it from the first fallback to the last.
LEMMA ChainOf ==
    ASSUME NEW primary, NEW fallbacks, Len(fallbacks) \in Nat
    PROVE  \E chainOf : /\ WithoutRepeats(primary, fallbacks) = chainOf[Len(fallbacks)]
                        /\ chainOf[0] = <<primary>>
                        /\ \A n \in 1..Len(fallbacks) : chainOf[n] = Longer(fallbacks, chainOf[n - 1], n)
<1> DEFINE last == Len(fallbacks)
           Upto(g, m) == g = [n \in 0..m |->
                                IF n = 0 THEN <<primary>>
                                ELSE IF fallbacks[n] = NoModel \/ fallbacks[n] \in ToSet(g[n - 1])
                                  THEN g[n - 1]
                                ELSE Append(g[n - 1], fallbacks[n])]
           S == {m \in 0..last : \E g : Upto(g, m)}
<1>0. last \in Nat
  OBVIOUS
<1> HIDE DEF last
<1>1. 0 \in S
  <2> DEFINE g == [n \in 0..0 |-> <<primary>>]
  <2>1. g = [n \in 0..0 |->
                IF n = 0 THEN <<primary>>
                ELSE IF fallbacks[n] = NoModel \/ fallbacks[n] \in ToSet(g[n - 1]) THEN g[n - 1]
                ELSE Append(g[n - 1], fallbacks[n])]
    <3>1. \A n \in 0..0 : n = 0
      OBVIOUS
    <3> QED BY <3>1
  <2> HIDE DEF g
  <2>2. Upto(g, 0) /\ 0 \in 0..last
    BY <2>1, <1>0
  <2> HIDE DEF Upto
  <2> QED BY <2>2
<1>2. ASSUME NEW m \in 0..last - 1, m \in S PROVE m + 1 \in S
  <2>1. PICK g : Upto(g, m)
    BY <1>2
  <2>0. \A n \in 0..m : g[n] = IF n = 0 THEN <<primary>> ELSE Longer(fallbacks, g[n - 1], n)
    <3> DEFINE e == [n \in 0..m |->
                        IF n = 0 THEN <<primary>>
                        ELSE IF fallbacks[n] = NoModel \/ fallbacks[n] \in ToSet(g[n - 1]) THEN g[n - 1]
                        ELSE Append(g[n - 1], fallbacks[n])]
    <3>1. g = e
      BY <2>1
    <3>2. \A n \in 0..m : e[n] = IF n = 0 THEN <<primary>> ELSE Longer(fallbacks, g[n - 1], n)
      BY DEF Longer
    <3> HIDE DEF e
    <3> QED BY <3>1, <3>2
  <2> DEFINE h == [n \in 0..m + 1 |-> IF n = m + 1 THEN Longer(fallbacks, g[m], m + 1) ELSE g[n]]
  <2>2. \A n \in 0..m : h[n] = g[n]
    BY <1>0
  <2>3. h[m + 1] = Longer(fallbacks, h[m], m + 1) /\ (m + 1) - 1 = m /\ m + 1 /= 0
    BY <1>0, <2>2
  <2>4. h[0] = <<primary>>
    <3> HIDE DEF h
    <3> QED BY <2>0, <2>2, <1>0
  <2>5. \A n \in 1..m : h[n] = Longer(fallbacks, h[n - 1], n)
    <3>1. \A n \in 1..m : g[n] = Longer(fallbacks, g[n - 1], n)
      <4>1. \A n \in 1..m : n \in 0..m /\ n /= 0
        BY <1>0
      <4> HIDE DEF h
      <4> QED BY <2>0, <4>1
    <3>2. \A n \in 1..m : n \in 0..m /\ n - 1 \in 0..m
      BY <1>0
    <3> HIDE DEF h, Upto
    <3> QED BY <3>1, <3>2, <2>2
  <2>6. \A n \in 0..m + 1 : h[n] = IF n = 0 THEN <<primary>>
                                   ELSE IF fallbacks[n] = NoModel \/ fallbacks[n] \in ToSet(h[n - 1])
                                     THEN h[n - 1]
                                   ELSE Append(h[n - 1], fallbacks[n])
    <3> SUFFICES ASSUME NEW n \in 0..m + 1
                 PROVE  h[n] = IF n = 0 THEN <<primary>> ELSE Longer(fallbacks, h[n - 1], n)
      BY DEF Longer
    <3>1. n = 0 \/ n \in 1..m \/ n = m + 1
      BY <1>0
    <3> HIDE DEF h, Upto
    <3> QED BY <3>1, <2>3, <2>4, <2>5
  <2>7. h = [n \in 0..m + 1 |-> h[n]]
    OBVIOUS
  <2>8. Upto(h, m + 1)
    <3> HIDE DEF h
    <3> QED BY <2>6, <2>7
  <2>9. m + 1 \in 0..last
    BY <1>0
  <2> HIDE DEF h, Upto
  <2> QED BY <2>8, <2>9
<1>3. last \in S
  <2> HIDE DEF S
  <2>1. 0..last \subseteq S
    BY <1>0, <1>1, <1>2, UpToBound
  <2> QED BY <2>1, <1>0
<1> DEFINE chainOf[n \in 0..last] ==
                IF n = 0 THEN <<primary>>
                ELSE IF fallbacks[n] = NoModel \/ fallbacks[n] \in ToSet(chainOf[n - 1])
                  THEN chainOf[n - 1]
                ELSE Append(chainOf[n - 1], fallbacks[n])
<1>4. chainOf = [n \in 0..last |->
                    IF n = 0 THEN <<primary>>
                    ELSE IF fallbacks[n] = NoModel \/ fallbacks[n] \in ToSet(chainOf[n - 1])
                      THEN chainOf[n - 1]
                    ELSE Append(chainOf[n - 1], fallbacks[n])]
  BY <1>3
<1>5. WithoutRepeats(primary, fallbacks) = chainOf[last]
  BY DEF WithoutRepeats, last
<1> HIDE DEF chainOf
<1>6. chainOf[0] = <<primary>> /\ \A n \in 1..last : chainOf[n] = Longer(fallbacks, chainOf[n - 1], n)
  <2> DEFINE e == [n \in 0..last |->
                      IF n = 0 THEN <<primary>>
                      ELSE IF fallbacks[n] = NoModel \/ fallbacks[n] \in ToSet(chainOf[n - 1])
                        THEN chainOf[n - 1]
                      ELSE Append(chainOf[n - 1], fallbacks[n])]
  <2>1. chainOf = e
    BY <1>4
  <2>2. \A n \in 0..last : e[n] = IF n = 0 THEN <<primary>> ELSE Longer(fallbacks, chainOf[n - 1], n)
    BY DEF Longer
  <2>3. 0 \in 0..last /\ \A n \in 1..last : n \in 0..last /\ n /= 0
    BY <1>0
  <2> HIDE DEF e
  <2> QED BY <2>1, <2>2, <2>3
<1> QED BY <1>5, <1>6 DEF last

\* A chain of the first n fallbacks: each model once, the primary one first, and all that
\* are not blank.
SoundChain(T, primary, fallbacks, c, n) ==
    /\ c \in Seq(T) /\ 1 \in DOMAIN c /\ c[1] = primary
    /\ \A i, j \in DOMAIN c : c[i] = c[j] => i = j
    /\ \A i \in 1..n : fallbacks[i] /= NoModel => \E j \in DOMAIN c : c[j] = fallbacks[i]

\* The chain before the first fallback ...
LEMMA SoundFirst ==
    ASSUME NEW T, NEW primary \in T, NEW fallbacks PROVE SoundChain(T, primary, fallbacks, <<primary>>, 0)
<1> DEFINE c == <<primary>>
<1>1. c \in Seq(T) /\ DOMAIN c = 1..1 /\ c[1] = primary
  <2>1. c \in Seq(T)
    OBVIOUS
  <2>2. DOMAIN c = 1..1
    OBVIOUS
  <2> QED BY <2>1, <2>2
<1>2. \A i, j \in 1..1 : i = j
  OBVIOUS
<1>3. \A i : i \notin 1..0
  OBVIOUS
<1> HIDE DEF c
<1>4. SoundChain(T, primary, fallbacks, c, 0)
  BY <1>1, <1>2, <1>3 DEF SoundChain
<1> QED BY <1>4 DEF c

\* Appending an element to a sequence.
LEMMA Appended ==
    ASSUME NEW T, NEW c \in Seq(T), NEW e \in T
    PROVE  /\ Append(c, e) \in Seq(T) /\ Len(Append(c, e)) = Len(c) + 1
           /\ Append(c, e)[Len(c) + 1] = e /\ \A j \in 1..Len(c) : Append(c, e)[j] = c[j]
BY AppendProperties, LenProperties

\* ... and after one more.
LEMMA SoundLonger ==
    ASSUME NEW T, NEW primary \in T, NEW fallbacks \in Seq(T), NEW n \in 1..Len(fallbacks), NEW c,
           SoundChain(T, primary, fallbacks, c, n - 1)
    PROVE  SoundChain(T, primary, fallbacks, Longer(fallbacks, c, n), n)
<1>1. /\ c \in Seq(T) /\ 1 \in DOMAIN c /\ c[1] = primary
      /\ \A i, j \in DOMAIN c : c[i] = c[j] => i = j
      /\ \A i \in 1..n - 1 : fallbacks[i] /= NoModel => \E j \in DOMAIN c : c[j] = fallbacks[i]
  BY DEF SoundChain
<1>2. Len(fallbacks) \in Nat /\ fallbacks[n] \in T /\ \A i \in 1..n : i = n \/ i \in 1..n - 1
  BY LenProperties
<1>3. CASE fallbacks[n] = NoModel \/ fallbacks[n] \in ToSet(c)
  <2>1. Longer(fallbacks, c, n) = c
    BY <1>3 DEF Longer
  <2>2. fallbacks[n] /= NoModel => \E j \in DOMAIN c : c[j] = fallbacks[n]
    BY <1>3 DEF ToSet
  <2>3. SoundChain(T, primary, fallbacks, c, n)
    BY <1>1, <1>2, <2>2 DEF SoundChain
  <2> QED BY <2>1, <2>3
<1>4. CASE fallbacks[n] /= NoModel /\ fallbacks[n] \notin ToSet(c)
  <2> DEFINE d == Append(c, fallbacks[n])
  <2>1. Longer(fallbacks, c, n) = d
    BY <1>4 DEF Longer
  <2>2. \A j \in DOMAIN c : c[j] /= fallbacks[n]
    BY <1>4 DEF ToSet
  <2>3. Len(c) \in Nat /\ DOMAIN c = 1..Len(c)
    BY <1>1, LenProperties
  <2>4. /\ d \in Seq(T) /\ DOMAIN d = 1..Len(c) + 1
        /\ d[Len(c) + 1] = fallbacks[n] /\ \A j \in DOMAIN c : d[j] = c[j]
    <3>1. /\ d \in Seq(T) /\ Len(d) = Len(c) + 1
          /\ d[Len(c) + 1] = fallbacks[n] /\ \A j \in 1..Len(c) : d[j] = c[j]
      <4>1. c \in Seq(T) /\ fallbacks[n] \in T
        BY <1>1, <1>2
      <4> QED BY <4>1, Appended
    <3> HIDE DEF d
    <3>2. DOMAIN d = 1..Len(d)
      BY <3>1, LenProperties
    <3> QED BY <2>3, <3>1, <3>2
  <2> HIDE DEF d
  <2>5. \A j \in DOMAIN d : j = Len(c) + 1 \/ j \in DOMAIN c
    BY <2>3, <2>4
  <2>6. \A i, j \in DOMAIN d : d[i] = d[j] => i = j
    BY <1>1, <2>2, <2>4, <2>5
  <2>7. Len(c) + 1 \in DOMAIN d /\ 1 \in DOMAIN d /\ \A j \in DOMAIN c : j \in DOMAIN d
    BY <2>3, <2>4
  <2>8. \A i \in 1..n : fallbacks[i] /= NoModel => \E j \in DOMAIN d : d[j] = fallbacks[i]
    <3> SUFFICES ASSUME NEW i \in 1..n, fallbacks[i] /= NoModel
                 PROVE  \E j \in DOMAIN d : d[j] = fallbacks[i]
      OBVIOUS
    <3>1. CASE i = n
      BY <2>4, <2>7, <3>1
    <3>2. CASE i \in 1..n - 1
      <4>1. PICK j \in DOMAIN c : c[j] = fallbacks[i]
        BY <1>1, <3>2
      <4> QED BY <2>4, <2>7, <4>1
    <3> QED BY <1>2, <3>1, <3>2
  <2>9. SoundChain(T, primary, fallbacks, d, n)
    BY <1>1, <2>4, <2>6, <2>7, <2>8 DEF SoundChain
  <2> QED BY <2>1, <2>9
<1> QED BY <1>3, <1>4

\* So the whole chain is sound: there is no least fallback after which it is not.
LEMMA WithoutRepeatsIs ==
    ASSUME NEW T, NEW primary \in T, NEW fallbacks \in Seq(T)
    PROVE  SoundChain(T, primary, fallbacks, WithoutRepeats(primary, fallbacks), Len(fallbacks))
<1> DEFINE last == Len(fallbacks)
<1>0. last \in Nat
  BY LenProperties
<1>1. PICK chainOf : /\ WithoutRepeats(primary, fallbacks) = chainOf[last]
                     /\ chainOf[0] = <<primary>>
                     /\ \A n \in 1..last : chainOf[n] = Longer(fallbacks, chainOf[n - 1], n)
  BY <1>0, ChainOf
<1> DEFINE S == {n \in 0..last : SoundChain(T, primary, fallbacks, chainOf[n], n)}
<1>2. 0 \in S
  <2>1. SoundChain(T, primary, fallbacks, chainOf[0], 0)
    BY <1>1, SoundFirst
  <2> HIDE DEF last
  <2>2. 0 \in 0..last
    BY <1>0
  <2> QED BY <2>1, <2>2
<1>3. ASSUME NEW m \in 0..last - 1, m \in S PROVE m + 1 \in S
  <2>1. m + 1 \in 1..last /\ m + 1 \in 0..last /\ (m + 1) - 1 = m
    BY <1>0
  <2>2. PICK n \in 1..last : n = m + 1 /\ n - 1 = m
    BY <2>1
  <2>3. SoundChain(T, primary, fallbacks, Longer(fallbacks, chainOf[n - 1], n), n)
    BY <1>3, <2>2, SoundLonger
  <2> QED BY <1>1, <2>1, <2>2, <2>3
<1>4. 0..last \subseteq S
  <2> HIDE DEF S, last
  <2> QED BY <1>0, <1>2, <1>3, UpToBound
<1>5. last \in S
  <2> HIDE DEF S, last
  <2> QED BY <1>0, <1>4
<1> QED BY <1>1, <1>5

\* The chain `chosen` for the models m: each once, the primary first, every fallback there.
SoundModels(chosen, m) ==
    /\ \A i, j \in DOMAIN chosen : chosen[i] = chosen[j] => i = j
    /\ \A i \in DOMAIN m.fallbacks :
          Trimmed(m.fallbacks[i]) /= NoModel => \E j \in DOMAIN chosen : chosen[j] = Trimmed(m.fallbacks[i])
    /\ \/ chosen[1] = Trimmed(IF m.model /= NoModel THEN m.model ELSE m.provider)
       \/ m.model = OnlyBlanks

\* What trimming does to a name.
LEMMA TrimmedIs ==
    ASSUME NEW m \in ModelNames
    PROVE  /\ Trimmed(m) \in ModelNames /\ Trimmed(m).name = m.name /\ Trimmed(NoModel) = NoModel
           /\ Trimmed(m) = NoModel => m = NoModel \/ m = OnlyBlanks
<1>1. m = [name |-> m.name, blanks |-> m.blanks] /\ m.name \in STRING /\ m.blanks \in BOOLEAN
  BY DEF ModelNames
<1>2. Trimmed(m) = [name |-> m.name, blanks |-> FALSE] /\ Trimmed(m).name = m.name
  BY DEF Trimmed
<1>3. Trimmed(m) \in ModelNames
  BY <1>1, <1>2 DEF ModelNames
<1>4. Trimmed(m) = NoModel => m = NoModel \/ m = OnlyBlanks
  <2>1. Trimmed(m) = NoModel => m.name = "nothing"
    BY <1>2 DEF NoModel
  <2>2. m.blanks = TRUE \/ m.blanks = FALSE
    BY <1>1
  <2> QED BY <1>1, <2>1, <2>2 DEF NoModel, OnlyBlanks
<1>5. Trimmed(NoModel) = NoModel
  BY DEF Trimmed, NoModel
<1> QED BY <1>2, <1>3, <1>4, <1>5

\* A chain that is not refused.
LEMMA ModelChainIs ==
    ASSUME NEW m \in [model : ModelNames, fallbacks : Seq(ModelNames), provider : ModelNames],
           NEW chosen, chosen = ModelChain(m.model, m.fallbacks, m.provider),
           chosen /= <<>>, chosen /= RefusedChain
    PROVE  SoundModels(chosen, m)
<1> DEFINE f == m.fallbacks
           given == [i \in DOMAIN f |-> Trimmed(f[i])]
           primary == IF Trimmed(m.model) /= NoModel THEN Trimmed(m.model) ELSE Trimmed(m.provider)
<1>0. m.model \in ModelNames /\ m.provider \in ModelNames /\ f \in Seq(ModelNames)
  OBVIOUS
<1>1. chosen = WithoutRepeats(primary, given)
  BY DEF ModelChain
<1>2. /\ primary \in ModelNames /\ given \in Seq(ModelNames)
      /\ DOMAIN f = 1..Len(f) /\ DOMAIN given = 1..Len(given) /\ DOMAIN given = DOMAIN f
  <2>1. primary \in ModelNames
    <3> HIDE DEF f
    <3> QED BY <1>0, TrimmedIs
  <2>2. Len(f) \in Nat /\ DOMAIN f = 1..Len(f) /\ \A i \in DOMAIN f : f[i] \in ModelNames
    BY <1>0, LenProperties, ElementOfSeq
  <2> HIDE DEF f
  <2>3. given \in [1..Len(f) -> ModelNames]
    BY <2>2, TrimmedIs
  <2>4. given \in Seq(ModelNames) /\ DOMAIN given = DOMAIN f
    BY <2>2, <2>3
  <2> HIDE DEF given
  <2>5. DOMAIN given = 1..Len(given)
    BY <2>4, LenProperties
  <2> QED BY <2>1, <2>2, <2>4, <2>5
<1>3. \A i \in DOMAIN f : given[i] = Trimmed(f[i])
  OBVIOUS
<1>4. SoundChain(ModelNames, primary, given, chosen, Len(given))
  <2> HIDE DEF primary, given
  <2> QED BY <1>1, <1>2, WithoutRepeatsIs
<1>5. \/ primary = Trimmed(IF m.model /= NoModel THEN m.model ELSE m.provider)
      \/ m.model = OnlyBlanks
  BY <1>0, TrimmedIs
<1> HIDE DEF primary, given
<1>6. /\ \A i, j \in DOMAIN chosen : chosen[i] = chosen[j] => i = j
      /\ chosen[1] = primary
      /\ \A i \in DOMAIN f : given[i] /= NoModel => \E j \in DOMAIN chosen : chosen[j] = given[i]
  BY <1>2, <1>4 DEF SoundChain
<1>7. \A i \in DOMAIN f :
         Trimmed(f[i]) /= NoModel => \E j \in DOMAIN chosen : chosen[j] = Trimmed(f[i])
  BY <1>3, <1>6
<1>8. \/ chosen[1] = Trimmed(IF m.model /= NoModel THEN m.model ELSE m.provider)
      \/ m.model = OnlyBlanks
  BY <1>5, <1>6
<1> QED BY <1>6, <1>7, <1>8 DEF SoundModels

----------------------------------------------------------------------------
(* Sub-agents *)

\* The entries that deny the tools, one for each of them and no other.
LEMMA EntriesAre ==
    ASSUME NEW tools
    PROVE  /\ Entries(tools) \in Seq([tool : TerminalTools, value : {"false"}])
           /\ \A t \in TerminalTools \cap tools : \E i \in DOMAIN Entries(tools) : Entries(tools)[i].tool = t
           /\ \A i \in DOMAIN Entries(tools) : Entries(tools)[i].value = "false"
<1> DEFINE T == [tool : TerminalTools, value : {"false"}]
           a == Permission("submit_review", "false")
           b == Permission("submit_final_review", "false")
<1>1. a \in T /\ b \in T /\ a.tool = "submit_review" /\ b.tool = "submit_final_review"
  BY DEF Permission, TerminalTools
<1>2. \A e \in T : e.value = "false"
  OBVIOUS
<1>3. Entries(tools) = (IF "submit_review" \in tools THEN <<a>> ELSE <<>>)
                       \o (IF "submit_final_review" \in tools THEN <<b>> ELSE <<>>)
  BY DEF Entries
<1> HIDE DEF T, a, b
<1>4. Entries(tools) \in Seq(T)
  BY <1>1, <1>3
<1>5. "submit_review" \in tools => 1 \in DOMAIN Entries(tools) /\ Entries(tools)[1] = a
  BY <1>1, <1>3
<1>6. "submit_final_review" \in tools => \E i \in DOMAIN Entries(tools) : Entries(tools)[i] = b
  <2>1. CASE "submit_final_review" \in tools /\ "submit_review" \in tools
    BY <1>1, <1>3, <2>1
  <2>2. CASE "submit_final_review" \in tools /\ "submit_review" \notin tools
    BY <1>1, <1>3, <2>2
  <2> QED BY <2>1, <2>2
<1>7. \A i \in DOMAIN Entries(tools) : Entries(tools)[i] \in T
  BY <1>4, ElementOfSeq, LenProperties
<1> QED BY <1>1, <1>2, <1>4, <1>5, <1>6, <1>7 DEF TerminalTools, T

\* The entries of u are those of s and of t.
MadeOf(u, s, t) ==
    /\ \A i \in DOMAIN u : (\E j \in DOMAIN s : u[i] = s[j]) \/ (\E j \in DOMAIN t : u[i] = t[j])
    /\ \A j \in DOMAIN s : \E i \in DOMAIN u : u[i] = s[j]
    /\ \A j \in DOMAIN t : \E i \in DOMAIN u : u[i] = t[j]

\* The elements of two sequences, one after the other.
LEMMA Concatenated ==
    ASSUME NEW S, NEW T, NEW s \in Seq(S), NEW t \in Seq(T)
    PROVE  MadeOf(s \o t, s, t)
<1>1. s \in Seq(S \cup T) /\ t \in Seq(S \cup T)
  BY SeqMonotonic
<1>2. /\ Len(s) \in Nat /\ DOMAIN s = 1..Len(s) /\ Len(t) \in Nat /\ DOMAIN t = 1..Len(t)
      /\ DOMAIN (s \o t) = 1..Len(s) + Len(t)
      /\ \A i \in 1..Len(s) + Len(t) : (s \o t)[i] = IF i <= Len(s) THEN s[i] ELSE t[i - Len(s)]
  BY <1>1, LenProperties, ConcatProperties
<1> DEFINE u == s \o t
<1> HIDE DEF u
<1>3. ASSUME NEW i \in DOMAIN u PROVE (\E j \in DOMAIN s : u[i] = s[j]) \/ (\E j \in DOMAIN t : u[i] = t[j])
  <2>1. i \in 1..Len(s) \/ i - Len(s) \in 1..Len(t)
    BY <1>2 DEF u
  <2> QED BY <1>2, <2>1 DEF u
<1>4. ASSUME NEW j \in DOMAIN s PROVE \E i \in DOMAIN u : u[i] = s[j]
  BY <1>2 DEF u
<1>5. ASSUME NEW j \in DOMAIN t PROVE \E i \in DOMAIN u : u[i] = t[j]
  <2>1. PICK i \in 1..Len(s) + Len(t) : i = Len(s) + j /\ ~(i <= Len(s)) /\ i - Len(s) = j
    BY <1>2
  <2> QED BY <1>2, <2>1 DEF u
<1> QED BY <1>3, <1>4, <1>5 DEF u, MadeOf

DeniedIn(entries, tool) ==
    /\ Names(entries, tool)
    /\ \A i \in DOMAIN entries : entries[i].tool = tool => entries[i].value = "false"

\* In a concatenation the tool is denied when one part names it and none allows it.
LEMMA DeniedInBoth ==
    ASSUME NEW S, NEW T, NEW s \in Seq(S), NEW t \in Seq(T), NEW tool,
           Names(s, tool) \/ Names(t, tool),
           \A i \in DOMAIN s : s[i].tool = tool => s[i].value = "false",
           \A i \in DOMAIN t : t[i].tool = tool => t[i].value = "false"
    PROVE  DeniedIn(s \o t, tool)
<1> DEFINE u == s \o t
<1>1. MadeOf(u, s, t)
  BY Concatenated
<1> HIDE DEF u
<1>2. Names(u, tool)
  BY <1>1 DEF Names, MadeOf
<1>3. \A i \in DOMAIN u : u[i].tool = tool => u[i].value = "false"
  BY <1>1 DEF MadeOf
<1> QED BY <1>2, <1>3 DEF DeniedIn, u

\* The front matters that are read as their author means them.
PlainFront(fm, tool) ==
    /\ tool \notin fm.text /\ "tools" \notin fm.text
    /\ fm.form \in {"none", "list"} \cup Maps
    /\ "list" \in fm.text /\ fm.form \in Maps => ~Names(fm.entries, tool)
    /\ fm.form \in {"deepMap", "flowMap"} => MissingTools(fm) = {}

\* Which tools are denied by the front matter fm, when no text outside its tools entry misleads.
LEMMA HasDisabledIs ==
    ASSUME NEW fm, NEW tool, tool \notin fm.text
    PROVE  /\ fm.form = "none" => ~HasDisabledTool(fm, tool)
           /\ fm.form \in Maps => (HasDisabledTool(fm, tool)
                 <=> \E i \in DOMAIN fm.entries : fm.entries[i] = Permission(tool, "false"))
           /\ fm.form = "list" => (HasDisabledTool(fm, tool) <=> FirstOf(fm.entries, tool) = "false")
<1>1. fm.form = "none" => fm.form \notin Maps /\ fm.form \notin Lists
  BY DEF Maps, Lists
<1>2. fm.form \in Maps => fm.form \notin Lists
  BY DEF Maps, Lists
<1>3. fm.form = "list" => fm.form \notin Maps /\ fm.form \in Lists
  BY DEF Maps, Lists
<1> QED BY <1>1, <1>2, <1>3, Zenon DEF HasDisabledTool

\* Restricted by the form of the front matter, without the CASE.
LEMMA RestrictedIs ==
    ASSUME NEW fm, NEW missing, "tools" \notin fm.text
    PROVE  /\ fm.form = "none" => Restricted(fm, missing) = Rewritten(fm, "map", Entries(missing))
           /\ fm.form \in Maps /\ HasListTools(fm) =>
                 Restricted(fm, missing) = Rewritten(fm, "map", Entries(missing))
           /\ fm.form = "map" /\ ~HasListTools(fm) =>
                 Restricted(fm, missing) = Rewritten(fm, "map", Entries(missing) \o fm.entries)
           /\ fm.form = "list" =>
                 Restricted(fm, missing) =
                     Rewritten(fm, "map", Normalized(fm.entries)
                                          \o Entries({t \in missing : ~Names(fm.entries, t)}))
<1> DEFINE n == Rewritten(fm, "map", Entries(missing))
           l == Rewritten(fm, "map", Normalized(fm.entries)
                                     \o Entries({t \in missing : ~Names(fm.entries, t)}))
           m == Rewritten(fm, "map", Entries(missing) \o fm.entries)
           x == Rewritten(fm, "broken", <<>>)
<1>1. Restricted(fm, missing) =
          CASE "tools" \in fm.text -> x
            [] "tools" \notin fm.text /\ fm.form = "none" -> n
            [] "tools" \notin fm.text /\ HasListTools(fm) /\ fm.form \in {"list", "deepList"} -> l
            [] "tools" \notin fm.text /\ HasListTools(fm) /\ fm.form \in Maps -> n
            [] "tools" \notin fm.text /\ ~HasListTools(fm) /\ fm.form = "map" -> m
            [] OTHER -> x
  BY DEF Restricted
<1>2. fm.form = "list" => HasListTools(fm)
  BY DEF HasListTools
<1>3. /\ fm.form = "none" => fm.form \notin Maps \cup {"list", "deepList"}
      /\ fm.form \in Maps => fm.form \notin {"none", "list", "deepList"}
      /\ fm.form = "list" => fm.form \notin Maps \cup {"none"}
      /\ fm.form = "map" => fm.form \in Maps
  BY DEF Maps
<1> HIDE DEF n, l, m, x
<1>4. /\ fm.form = "none" => Restricted(fm, missing) = n
      /\ fm.form \in Maps /\ HasListTools(fm) => Restricted(fm, missing) = n
      /\ fm.form = "map" /\ ~HasListTools(fm) => Restricted(fm, missing) = m
      /\ fm.form = "list" => Restricted(fm, missing) = l
  BY <1>1, <1>2, <1>3
<1> QED BY <1>4 DEF n, l, m

\* A sub-agent is denied each terminal tool that its author has not asked for.
LEMMA DeniedUnlessAsked ==
    ASSUME NEW fm \in FrontMatters, NEW tool \in TerminalTools, ~AskedFor(fm, tool), ~Misread(fm, tool)
    PROVE  Denies(EnsureToolRestrictions(fm), tool)
<1> DEFINE e == fm.entries
           missing == MissingTools(fm)
           new == EnsureToolRestrictions(fm)
           P == [tool : STRING, value : STRING]
           F == [tool : TerminalTools, value : {"false"}]
<1>0. fm.form \in Forms \ {"broken"} /\ e \in Seq(P)
  BY DEF FrontMatters
<1>1. \A i \in DOMAIN e : e[i].tool = tool => e[i].value = "false"
  BY DEF AskedFor
<1>a. PlainFront(fm, tool)
  BY <1>0 DEF PlainFront, Misread, Forms, Lists
<1>b. /\ tool \notin fm.text /\ "tools" \notin fm.text
      /\ "list" \in fm.text /\ fm.form \in Maps => ~Names(e, tool)
      /\ fm.form \in {"deepMap", "flowMap"} => missing = {}
  BY <1>a DEF PlainFront
<1>2. tool \in missing <=> ~HasDisabledTool(fm, tool)
  BY DEF MissingTools
<1>3. \/ ~HasListTools(fm) /\ HasDisabledTool(fm, tool) /\ new = fm
      \/ new = Restricted(fm, missing) /\ (HasListTools(fm) \/ missing /= {})
  BY DEF EnsureToolRestrictions, MissingTools
<1>4. ASSUME NEW tools
      PROVE  /\ Entries(tools) \in Seq(F)
             /\ \A i \in DOMAIN Entries(tools) : Entries(tools)[i].value = "false"
             /\ tool \in tools => Names(Entries(tools), tool)
  BY EntriesAre DEF Names
<1>c. "map" \in Maps
  BY DEF Maps
<1>d. ASSUME NEW entries, DeniedIn(entries, tool), new = Rewritten(fm, "map", entries)
      PROVE  Denies(new, tool)
  BY <1>c, <1>d DEF Denies, DeniedIn, Rewritten
<1>e. tool \in missing => DeniedIn(Entries(missing), tool)
  BY <1>4 DEF DeniedIn
<1>5. CASE fm.form = "none"
  <2>1. tool \in missing
    BY <1>2, <1>5, <1>b, HasDisabledIs
  <2>2. new = Rewritten(fm, "map", Entries(missing))
    BY <1>2, <1>3, <1>5, <1>b, <2>1, RestrictedIs
  <2> QED BY <1>d, <1>e, <2>1, <2>2
<1>6. CASE fm.form \in Maps
  <2>1. HasDisabledTool(fm, tool) => Names(e, tool)
    <3>1. Permission(tool, "false").tool = tool
      BY DEF Permission
    <3>2. HasDisabledTool(fm, tool) => \E i \in DOMAIN e : e[i] = Permission(tool, "false")
      BY <1>6, <1>b, HasDisabledIs
    <3> QED BY <3>1, <3>2 DEF Names
  <2>2. CASE new = fm /\ HasDisabledTool(fm, tool)
    BY <1>1, <1>6, <2>1, <2>2 DEF Denies
  <2>3. CASE new = Restricted(fm, missing) /\ HasListTools(fm)
    <3>1. new = Rewritten(fm, "map", Entries(missing))
      BY <1>6, <1>b, <2>3, RestrictedIs
    <3>2. tool \in missing
      <4>1. "list" \in fm.text
        BY <1>6, <2>3 DEF HasListTools, Maps
      <4> QED BY <1>2, <1>6, <1>b, <2>1, <4>1
    <3> QED BY <1>d, <1>e, <3>1, <3>2
  <2>4. CASE new = Restricted(fm, missing) /\ ~HasListTools(fm) /\ missing /= {}
    <3>1. fm.form = "map"
      BY <1>6, <1>b, <2>4 DEF Maps
    <3>2. new = Rewritten(fm, "map", Entries(missing) \o e)
      BY <1>b, <2>4, <3>1, RestrictedIs
    <3>3. DeniedIn(Entries(missing) \o e, tool)
      BY <1>0, <1>1, <1>2, <1>4, <2>1, DeniedInBoth
    <3> QED BY <1>d, <3>2, <3>3
  <2> QED BY <1>3, <2>2, <2>3, <2>4
<1>7. CASE fm.form = "list"
  <2> DEFINE n == Normalized(e)
             more == {t \in missing : ~Names(e, t)}
  <2>1. new = Rewritten(fm, "map", n \o Entries(more))
    <3>1. HasListTools(fm)
      BY <1>7 DEF HasListTools
    <3> QED BY <1>3, <1>7, <1>b, <3>1, RestrictedIs
  <2>2. ~Names(e, tool) => tool \in more
    <3>1. ~Names(e, tool) => FirstOf(e, tool) = "absent"
      BY DEF Names, FirstOf
    <3> QED BY <1>2, <1>7, <1>b, <3>1, HasDisabledIs
  <2>3. /\ DOMAIN n = DOMAIN e /\ \A i \in DOMAIN e : n[i].tool = e[i].tool
        /\ \A i \in DOMAIN e : e[i].value = "false" => n[i].value = "false"
    BY DEF Normalized, Permission
  <2>4. n \in Seq([tool : {e[i].tool : i \in DOMAIN e}, value : {n[i].value : i \in DOMAIN e}])
    <3>1. DOMAIN e = 1..Len(e) /\ Len(e) \in Nat
      BY <1>0, LenProperties
    <3> QED BY <3>1 DEF Normalized, Permission
  <2> HIDE DEF n
  <2>5. /\ Names(e, tool) => Names(n, tool)
        /\ \A i \in DOMAIN n : n[i].tool = tool => n[i].value = "false"
    BY <1>1, <2>3 DEF Names
  <2>6. DeniedIn(n \o Entries(more), tool)
    BY <1>4, <2>2, <2>4, <2>5, DeniedInBoth
  <2> HIDE DEF more
  <2> QED BY <1>d, <2>1, <2>6
<1> QED BY <1>a, <1>5, <1>6, <1>7 DEF PlainFront

----------------------------------------------------------------------------
(* Temporary workspaces *)

\* SetToSeq lists a finite set, each element once.
LEMMA Listed ==
    ASSUME NEW S, IsFiniteSet(S)
    PROVE  /\ Cardinality(S) \in Nat /\ SetToSeq(S) \in [1..Cardinality(S) -> S]
           /\ \A x \in S : \E i \in 1..Cardinality(S) : SetToSeq(S)[i] = x
<1> DEFINE n == Cardinality(S)
<1>1. n \in Nat /\ ExistsBijection(1..n, S)
  BY FS_CardinalityType
<1>2. PICK g \in [1..n -> S] : IsInjective(g)
  BY <1>1 DEF ExistsBijection, Bijection, Injection
<1>3. SetToSeq(S) \in [1..n -> S] /\ IsInjective(SetToSeq(S))
  BY <1>2, Zenon DEF SetToSeq
<1>4. IsFiniteSet(1..n) /\ Cardinality(1..n) = n
  BY <1>1, FS_Interval
<1>5. SetToSeq(S) \in Surjection(1..n, S)
  <2>1. SetToSeq(S) \in Injection(1..n, S)
    BY <1>3 DEF Injection
  <2> QED BY <2>1, <1>4, FS_Injection
<1> QED BY <1>1, <1>3, <1>5 DEF Surjection

\* u is s followed by t.
Joins(u, s, t) ==
    /\ Len(u) = Len(s) + Len(t)
    /\ \A i \in 1..Len(s) : u[i] = s[i]
    /\ \A i \in 1..Len(t) : u[Len(s) + i] = t[i]

\* Where the elements of the second sequence stand.
LEMMA JoinIs ==
    ASSUME NEW S, NEW s \in Seq(S), NEW t \in Seq(S)
    PROVE  s \o t \in Seq(S) /\ Joins(s \o t, s, t)
<1>1. /\ Len(s) \in Nat /\ Len(t) \in Nat /\ s \o t \in Seq(S) /\ Len(s \o t) = Len(s) + Len(t)
      /\ \A i \in 1..Len(s) + Len(t) : (s \o t)[i] = IF i <= Len(s) THEN s[i] ELSE t[i - Len(s)]
  BY LenProperties, ConcatProperties
<1> DEFINE u == s \o t
<1> HIDE DEF u
<1>2. \A i \in 1..Len(s) : u[i] = s[i]
  BY <1>1 DEF u
<1>3. ASSUME NEW i \in 1..Len(t) PROVE u[Len(s) + i] = t[i]
  <2>1. PICK j \in 1..Len(s) + Len(t) : j = Len(s) + i /\ ~(j <= Len(s)) /\ j - Len(s) = i
    BY <1>1
  <2>2. u[j] = t[i]
    BY <1>1, <2>1 DEF u
  <2> QED BY <2>1, <2>2
<1> QED BY <1>1, <1>2, <1>3 DEF u, Joins

OverrideCount == Cardinality(IF Active(dir) THEN input.overrides ELSE {})

LEMMA PartsTyped ==
    ASSUME input \in Inputs
    PROVE  /\ OverrideCount \in Nat /\ Len(SubAgents) \in Nat
           /\ DOMAIN SubAgents = 1..Len(SubAgents)
           /\ \A a \in DOMAIN SubAgents : SubAgents[a].front \in FrontMatters
           /\ Active(dir) => \A tool \in input.overrides :
                                \E j \in 1..OverrideCount : SetToSeq(input.overrides)[j] = tool
           /\ \E S : /\ ConfigFile \in Seq(S) /\ BuiltInTool \in Seq(S) /\ ToolOverrides \in Seq(S)
                     /\ AgentFile \in Seq(S) /\ SubAgentPart \in Seq(S)
           /\ Len(ToolOverrides) = OverrideCount /\ Len(SubAgentPart) = Len(SubAgents)
<1> DEFINE A == [name : STRING, front : FrontMatters]
<1>1. input.agents \in Seq(A) /\ IsFiniteSet(input.overrides)
  BY InputsAssumption
<1>2. SubAgents \in Seq(A)
  <2>1. <<>> \in Seq(A)
    BY EmptySeq
  <2> QED BY <1>1, <2>1 DEF SubAgents
<1>3. Len(SubAgents) \in Nat /\ DOMAIN SubAgents = 1..Len(SubAgents)
  BY <1>2, LenProperties
<1>4. \A a \in DOMAIN SubAgents : SubAgents[a].front \in FrontMatters
  <2>1. \A a \in 1..Len(SubAgents) : SubAgents[a] \in A
    BY <1>2, ElementOfSeq
  <2> QED BY <1>3, <2>1
<1>5. /\ OverrideCount \in Nat
      /\ Active(dir) => \A tool \in input.overrides :
                           \E j \in 1..OverrideCount : SetToSeq(input.overrides)[j] = tool
  BY <1>1, Listed, FS_EmptySet DEF OverrideCount
<1> DEFINE n == Len(SubAgents)
           o(j) == File("tools", SetToSeq(input.overrides)[j], "override")
           S == {ConfigFile[1], BuiltInTool[1], AgentFile[1]} \cup {o(j) : j \in 1..OverrideCount}
                \cup {SubAgentFile(SubAgents[a]) : a \in 1..n}
<1>6. ConfigFile \in Seq(S) /\ BuiltInTool \in Seq(S) /\ AgentFile \in Seq(S)
  BY DEF ConfigFile, BuiltInTool, AgentFile
<1>7. ToolOverrides \in Seq(S) /\ Len(ToolOverrides) = OverrideCount
  <2>1. ToolOverrides = [j \in 1..OverrideCount |-> o(j)]
    BY DEF ToolOverrides, OverrideCount
  <2>2. \A j \in 1..OverrideCount : o(j) \in S
    OBVIOUS
  <2> HIDE DEF S, o
  <2> QED BY <1>5, <2>1, <2>2
<1>8. SubAgentPart \in Seq(S) /\ Len(SubAgentPart) = Len(SubAgents)
  <2>1. SubAgentPart = [a \in 1..n |-> SubAgentFile(SubAgents[a])]
    BY <1>3 DEF SubAgentPart
  <2>2. \A a \in 1..n : SubAgentFile(SubAgents[a]) \in S
    OBVIOUS
  <2> HIDE DEF S
  <2> QED BY <1>3, <2>1, <2>2
<1> HIDE DEF S
<1> QED BY <1>3, <1>4, <1>5, <1>6, <1>7, <1>8

\* The files before the sub-agents.
OwnCount == IF PromptIsEmpty THEN 1 ELSE 3 + OverrideCount

\* Which file is written when.
LEMMA WritesAre ==
    ASSUME input \in Inputs
    PROVE  /\ \E S : Writes \in Seq(S)
           /\ Len(Writes) = OwnCount + Len(SubAgents)
           /\ Writes[1] = File(".", "opencode.json", OpenCodeConfig)
           /\ \A a \in 1..Len(SubAgents) : Writes[OwnCount + a] = SubAgentFile(SubAgents[a])
           /\ ~PromptIsEmpty =>
                 /\ Writes[2] = File("tools", "own", "built-in")
                 /\ \A j \in 1..OverrideCount :
                       Writes[2 + j] = File("tools", SetToSeq(input.overrides)[j], "override")
                 /\ Writes[3 + OverrideCount] = File("agents", "own", "prompt")
<1>0. /\ OverrideCount \in Nat /\ Len(SubAgents) \in Nat
      /\ Len(ToolOverrides) = OverrideCount /\ Len(SubAgentPart) = Len(SubAgents)
      /\ DOMAIN SubAgents = 1..Len(SubAgents)
  BY PartsTyped
<1>1. PICK S : /\ ConfigFile \in Seq(S) /\ BuiltInTool \in Seq(S) /\ ToolOverrides \in Seq(S)
               /\ AgentFile \in Seq(S) /\ SubAgentPart \in Seq(S)
  BY PartsTyped
<1>2. /\ Len(ConfigFile) = 1 /\ ConfigFile[1] = File(".", "opencode.json", OpenCodeConfig)
      /\ Len(BuiltInTool) = 1 /\ BuiltInTool[1] = File("tools", "own", "built-in")
      /\ Len(AgentFile) = 1 /\ AgentFile[1] = File("agents", "own", "prompt")
  BY DEF ConfigFile, BuiltInTool, AgentFile
<1>3. /\ \A j \in 1..OverrideCount : ToolOverrides[j] = File("tools", SetToSeq(input.overrides)[j], "override")
      /\ \A a \in 1..Len(SubAgents) : SubAgentPart[a] = SubAgentFile(SubAgents[a])
  BY <1>0 DEF ToolOverrides, SubAgentPart, OverrideCount
<1> DEFINE tools == BuiltInTool \o ToolOverrides
           prompt == tools \o AgentFile
<1>4. tools \in Seq(S) /\ Joins(tools, BuiltInTool, ToolOverrides)
  BY <1>1, JoinIs
<1> HIDE DEF tools
<1>5. prompt \in Seq(S) /\ Joins(prompt, tools, AgentFile)
  BY <1>1, <1>4, JoinIs
<1>6. /\ Len(prompt) = 2 + OverrideCount /\ prompt[1] = BuiltInTool[1]
      /\ \A j \in 1..OverrideCount : prompt[1 + j] = ToolOverrides[j]
      /\ prompt[2 + OverrideCount] = AgentFile[1]
  <2>1. /\ Len(tools) = 1 + OverrideCount /\ tools[1] = BuiltInTool[1]
        /\ \A j \in 1..OverrideCount : tools[1 + j] = ToolOverrides[j]
    BY <1>0, <1>2, <1>4 DEF Joins
  <2>2. Len(prompt) = 2 + OverrideCount /\ prompt[2 + OverrideCount] = AgentFile[1]
    <3>1. 1 \in 1..Len(AgentFile) /\ Len(tools) + 1 = 2 + OverrideCount
      BY <1>0, <1>2, <2>1
    <3> HIDE DEF prompt
    <3>2. prompt[Len(tools) + 1] = AgentFile[1] /\ Len(prompt) = Len(tools) + Len(AgentFile)
      BY <1>5, <3>1 DEF Joins
    <3> QED BY <1>0, <1>2, <2>1, <3>1, <3>2
  <2>3. \A j \in 1..OverrideCount : 1 + j \in 1..Len(tools) /\ 1 \in 1..Len(tools)
    BY <1>0, <2>1
  <2>4. 1 \in 1..Len(tools)
    BY <1>0, <2>1
  <2> HIDE DEF prompt
  <2> QED BY <1>5, <2>1, <2>2, <2>3, <2>4 DEF Joins
<1> DEFINE middle == IF PromptIsEmpty THEN <<>> ELSE prompt
           own == ConfigFile \o middle
<1>7. middle \in Seq(S) /\ Len(middle) = OwnCount - 1
  <2>1. <<>> \in Seq(S) /\ Len(<<>>) = 0
    BY EmptySeq
  <2> HIDE DEF prompt
  <2> QED BY <1>0, <1>5, <1>6, <2>1 DEF OwnCount
<1>8. Writes = own \o SubAgentPart
  BY DEF Writes, tools
<1> HIDE DEF middle, prompt
<1>9. own \in Seq(S) /\ Joins(own, ConfigFile, middle)
  BY <1>1, <1>7, JoinIs
<1> HIDE DEF own
<1>10. Writes \in Seq(S) /\ Joins(Writes, own, SubAgentPart)
  BY <1>1, <1>8, <1>9, JoinIs
<1>11. /\ Len(own) = OwnCount /\ OwnCount \in Nat /\ OwnCount >= 1 /\ own[1] = ConfigFile[1]
       /\ \A i \in 1..OwnCount - 1 : own[1 + i] = middle[i]
  BY <1>0, <1>2, <1>7, <1>9 DEF Joins, OwnCount
<1>12. \A i \in 1..OwnCount : Writes[i] = own[i]
  BY <1>10, <1>11 DEF Joins
<1>13. ASSUME ~PromptIsEmpty
       PROVE  /\ Writes[2] = prompt[1] /\ \A j \in 1..OverrideCount : Writes[2 + j] = prompt[1 + j]
              /\ Writes[3 + OverrideCount] = prompt[2 + OverrideCount]
  <2>1. OwnCount = 3 + OverrideCount /\ middle = prompt
    BY <1>13 DEF OwnCount, middle
  <2>2. \A i \in 1..OwnCount - 1 : 1 + i \in 1..OwnCount /\ Writes[1 + i] = prompt[i]
    BY <1>11, <1>12, <2>1
  <2>3. Writes[2] = prompt[1]
    BY <1>0, <2>1, <2>2
  <2>4. ASSUME NEW j \in 1..OverrideCount PROVE Writes[2 + j] = prompt[1 + j]
    <3>1. PICK i \in 1..OwnCount - 1 : i = 1 + j /\ 1 + i = 2 + j
      BY <1>0, <2>1
    <3>2. Writes[1 + i] = prompt[i]
      BY <2>2
    <3> QED BY <3>1, <3>2
  <2>5. Writes[3 + OverrideCount] = prompt[2 + OverrideCount]
    <3>1. PICK i \in 1..OwnCount - 1 : i = 2 + OverrideCount /\ 1 + i = 3 + OverrideCount
      BY <1>0, <2>1
    <3>2. Writes[1 + i] = prompt[i]
      BY <2>2
    <3> QED BY <3>1, <3>2
  <2> QED BY <2>3, <2>4, <2>5
<1>14. /\ Len(Writes) = OwnCount + Len(SubAgents)
       /\ \A a \in 1..Len(SubAgents) : Writes[OwnCount + a] = SubAgentPart[a]
  BY <1>0, <1>10, <1>11 DEF Joins
<1>15. Writes[1] = ConfigFile[1]
  BY <1>11, <1>12
<1> QED BY <1>2, <1>3, <1>6, <1>10, <1>13, <1>14, <1>15

\* d holds the first n files of w, the last one of each path.
Stored(d, w, n) ==
    /\ DOMAIN d = {w[i].path : i \in 1..n}
    /\ \A i \in 1..n : (\A j \in i + 1..n : w[j].path /= w[i].path) => d[w[i].path] = w[i].is

LEMMA StoredFirst == ASSUME NEW w PROVE Stored(<<>>, w, 0)
BY DEF Stored

\* One more file is written.
LEMMA StoredNext ==
    ASSUME NEW d, NEW w, NEW n \in Nat, NEW m \in Nat, m = n + 1, Stored(d, w, n)
    PROVE  Stored(Written(d, w[m]), w, m)
<1> DEFINE f == w[m]
           e == Written(d, f)
<1>1. /\ DOMAIN e = DOMAIN d \cup {w[m].path} /\ e[w[m].path] = w[m].is
      /\ \A path \in DOMAIN d : path /= w[m].path => e[path] = d[path]
  <2>1. f = w[m]
    OBVIOUS
  <2> HIDE DEF f
  <2>2. DOMAIN e = DOMAIN d \cup {f.path} /\ e[f.path] = f.is /\ \A path \in DOMAIN d : path /= f.path => e[path] = d[path]
    BY DEF Written
  <2> HIDE DEF e
  <2> QED BY <2>1, <2>2
<1> HIDE DEF e
<1>2. m \in 1..m /\ \A i \in 1..m : i = m \/ i \in 1..n
  OBVIOUS
<1>3. DOMAIN e = {w[i].path : i \in 1..m}
  BY <1>1, <1>2 DEF Stored
<1>4. ASSUME NEW i \in 1..m, \A j \in i + 1..m : w[j].path /= w[i].path
      PROVE  e[w[i].path] = w[i].is
  <2>1. CASE i = m
    BY <1>1, <2>1
  <2>2. CASE i \in 1..n
    <3>1. w[m].path /= w[i].path /\ \A j \in i + 1..n : w[j].path /= w[i].path
      BY <1>4, <2>2
    <3>2. w[i].path \in DOMAIN d /\ d[w[i].path] = w[i].is
      BY <2>2, <3>1 DEF Stored
    <3> QED BY <1>1, <3>1, <3>2
  <2> QED BY <1>2, <2>1, <2>2
<1>5. e = Written(d, w[m])
  BY DEF e
<1> QED BY <1>3, <1>4, <1>5 DEF Stored

\* A path holds what was written to it last.
LEMMA StoredLast ==
    ASSUME NEW d, NEW w, NEW n \in Nat, NEW i \in 1..n, Stored(d, w, n)
    PROVE  /\ w[i].path \in DOMAIN d
           /\ \E m \in i..n : /\ w[m].path = w[i].path /\ d[w[i].path] = w[m].is
                              /\ \A j \in m + 1..n : w[j].path /= w[i].path
<1> DEFINE S == {k \in 0..n - i : w[n - k].path = w[i].path}
<1>1. S \in SUBSET Nat /\ n - i \in S
  OBVIOUS
<1>2. PICK k \in S : \A j \in S : k <= j
  BY <1>1, LeastOf
<1>3. PICK m \in i..n : m = n - k /\ w[m].path = w[i].path
  BY <1>2
<1>4. ASSUME NEW j \in m + 1..n, w[j].path = w[i].path PROVE FALSE
  <2>1. n - j \in 0..n - i /\ n - (n - j) = j /\ n - j < k
    BY <1>2, <1>3
  <2>2. n - j \in S
    BY <1>4, <2>1
  <2> QED BY <1>2, <2>1, <2>2
<1>5. d[w[m].path] = w[m].is
  BY <1>3, <1>4 DEF Stored
<1>6. w[i].path \in DOMAIN d
  BY DEF Stored
<1> QED BY <1>3, <1>4, <1>5, <1>6

\* Files have one path only if folder and name agree.
LEMMA PathsDiffer ==
    /\ \A f, g, m, n, x, y : File(f, m, x).path = File(g, n, y).path => f = g /\ m = n
    /\ \A f, m, x : File(f, m, x).path = <<f, m>> /\ File(f, m, x).is = x
BY DEF File

\* What a complete workspace has: the files of the agent that its configuration names, the
\* owner's tools, the sub-agents, the last of each name.
CompleteFiles(files) ==
    /\ files[<<".", "opencode.json">>].defaultAgent =>
          /\ <<"tools", "own">> \in DOMAIN files
          /\ <<"agents", "own">> \in DOMAIN files
          /\ ~(\E a \in DOMAIN SubAgents : SubAgents[a].name = "own") => files[<<"agents", "own">>] = "prompt"
          /\ \A tool \in input.overrides : Active(dir) => files[<<"tools", tool>>] = "override"
    /\ \A a \in DOMAIN SubAgents :
          LET path == <<"agents", SubAgents[a].name>>
          IN  /\ path \in DOMAIN files
              /\ (\A b \in DOMAIN SubAgents : b > a => SubAgents[b].name /= SubAgents[a].name)
                    => files[path] = EnsureToolRestrictions(SubAgents[a].front)

\* When everything of Writes is stored the workspace is complete.
LEMMA WorkspaceHolds ==
    ASSUME input \in Inputs, NEW files, Stored(files, Writes, Len(Writes))
    PROVE  CompleteFiles(files)
<1> DEFINE last == Len(Writes)
           k == OverrideCount
           n == Len(SubAgents)
           own == OwnCount
<1>1. /\ k \in Nat /\ n \in Nat /\ DOMAIN SubAgents = 1..n
      /\ Active(dir) => \A tool \in input.overrides : \E j \in 1..k : SetToSeq(input.overrides)[j] = tool
  BY PartsTyped
<1>2. /\ last = own + n
      /\ Writes[1] = File(".", "opencode.json", OpenCodeConfig)
      /\ \A a \in 1..n : Writes[own + a] = SubAgentFile(SubAgents[a])
      /\ ~PromptIsEmpty =>
            /\ Writes[2] = File("tools", "own", "built-in")
            /\ \A j \in 1..k : Writes[2 + j] = File("tools", SetToSeq(input.overrides)[j], "override")
            /\ Writes[3 + k] = File("agents", "own", "prompt")
  BY WritesAre
<1>3. own \in Nat /\ own = IF PromptIsEmpty THEN 1 ELSE 3 + k
  BY <1>1 DEF OwnCount
<1>4. OpenCodeConfig.defaultAgent = ~PromptIsEmpty
  BY DEF OpenCodeConfig
<1> HIDE DEF last, k, n, own
<1>5. ASSUME NEW i \in 1..last
      PROVE  /\ Writes[i].path \in DOMAIN files
             /\ \E m \in i..last : /\ Writes[m].path = Writes[i].path /\ files[Writes[i].path] = Writes[m].is
                                   /\ \A j \in m + 1..last : Writes[j].path /= Writes[i].path
  <2>1. last \in Nat /\ Stored(files, Writes, last)
    BY <1>1, <1>2, <1>3 DEF last
  <2> QED BY <2>1, StoredLast
\* The parts an index may be in.
<1>6. ASSUME NEW m \in 1..last
      PROVE  \/ m = 1
             \/ ~PromptIsEmpty /\ m = 2
             \/ ~PromptIsEmpty /\ \E j \in 1..k : m = 2 + j
             \/ ~PromptIsEmpty /\ m = 3 + k
             \/ \E a \in 1..n : m = own + a
  <2>1. CASE m <= own
    <3>1. ~PromptIsEmpty /\ m > 2 /\ m /= 3 + k => m - 2 \in 1..k /\ m = 2 + (m - 2)
      BY <1>1, <1>3, <2>1
    <3> QED BY <1>1, <1>3, <2>1, <3>1
  <2>2. CASE m > own
    <3>1. m - own \in 1..n /\ m = own + (m - own)
      BY <1>1, <1>2, <1>3, <2>2
    <3> QED BY <3>1
  <2> QED BY <1>3, <2>1, <2>2
<1>7. \A a \in 1..n : /\ SubAgentFile(SubAgents[a]).path = <<"agents", SubAgents[a].name>>
                      /\ SubAgentFile(SubAgents[a]).is = EnsureToolRestrictions(SubAgents[a].front)
  BY PathsDiffer DEF SubAgentFile
\* The configuration.
<1>8. files[<<".", "opencode.json">>].defaultAgent = ~PromptIsEmpty
  <2>1. 1 \in 1..last /\ Writes[1].path = <<".", "opencode.json">> /\ Writes[1].is = OpenCodeConfig
    BY <1>1, <1>2, <1>3, PathsDiffer
  <2>2. PICK m \in 1..last : Writes[m].path = Writes[1].path /\ files[Writes[1].path] = Writes[m].is
    BY <1>5, <2>1
  <2>3. m = 1
    <3>1. Writes[m].path = <<".", "opencode.json">>
      BY <2>1, <2>2
    <3> QED BY <1>2, <1>6, <1>7, <3>1, PathsDiffer
  <2> QED BY <1>4, <2>1, <2>2, <2>3
\* The agent's tools and its prompt.
<1>9. ASSUME ~PromptIsEmpty
      PROVE  /\ <<"tools", "own">> \in DOMAIN files /\ <<"agents", "own">> \in DOMAIN files
             /\ ~(\E a \in DOMAIN SubAgents : SubAgents[a].name = "own") => files[<<"agents", "own">>] = "prompt"
             /\ \A tool \in input.overrides : Active(dir) => files[<<"tools", tool>>] = "override"
  <2>1. own = 3 + k /\ last = 3 + k + n
    BY <1>2, <1>3, <1>9
  <2>2. 2 \in 1..last /\ Writes[2].path = <<"tools", "own">>
    BY <1>1, <1>2, <1>9, <2>1, PathsDiffer
  <2>3. 3 + k \in 1..last /\ Writes[3 + k].path = <<"agents", "own">> /\ Writes[3 + k].is = "prompt"
    BY <1>1, <1>2, <1>9, <2>1, PathsDiffer
  <2>4. ASSUME ~(\E a \in DOMAIN SubAgents : SubAgents[a].name = "own")
        PROVE  files[<<"agents", "own">>] = "prompt"
    <3>1. PICK m \in 3 + k..last : Writes[m].path = <<"agents", "own">> /\ files[<<"agents", "own">>] = Writes[m].is
      BY <1>5, <2>3
    <3>2. m = 3 + k
      <4>1. m > 3 + k => \E a \in 1..n : m = own + a
        BY <1>1, <1>6, <2>1, <3>1
      <4>2. \A a \in 1..n : m /= own + a
        BY <1>1, <1>2, <1>7, <2>4, <3>1
      <4> QED BY <1>1, <4>1, <4>2
    <3> QED BY <2>3, <3>1, <3>2
  <2>5. ASSUME NEW tool \in input.overrides, Active(dir)
        PROVE  files[<<"tools", tool>>] = "override"
    <3>1. PICK j \in 1..k : SetToSeq(input.overrides)[j] = tool
      BY <1>1, <2>5
    <3>2. 2 + j \in 1..last /\ Writes[2 + j].path = <<"tools", tool>>
      <4>1. Writes[2 + j] = File("tools", tool, "override")
        BY <1>2, <1>9, <3>1
      <4>2. 2 + j \in 1..last
        BY <1>1, <2>1
      <4> QED BY <4>1, <4>2, PathsDiffer
    <3>3. PICK m \in 2 + j..last : Writes[m].path = <<"tools", tool>> /\ files[<<"tools", tool>>] = Writes[m].is
      BY <1>5, <3>2
    <3>4. m \in 1..last /\ m > 2
      BY <1>1, <3>2, <3>3
    <3>5. \E i \in 1..k : m = 2 + i
      BY <1>2, <1>3, <1>6, <1>7, <1>9, <3>3, <3>4, PathsDiffer
    <3> QED BY <1>2, <1>9, <3>3, <3>5, PathsDiffer
  <2> QED BY <1>5, <2>2, <2>3, <2>4, <2>5
\* The sub-agents.
<1>10. ASSUME NEW a \in 1..n
       PROVE  LET path == <<"agents", SubAgents[a].name>>
              IN  /\ path \in DOMAIN files
                  /\ (\A b \in 1..n : b > a => SubAgents[b].name /= SubAgents[a].name)
                        => files[path] = EnsureToolRestrictions(SubAgents[a].front)
  <2> DEFINE path == <<"agents", SubAgents[a].name>>
  <2>1. own + a \in 1..last /\ Writes[own + a].path = path
    <3>1. own + a \in 1..last
      BY <1>1, <1>2, <1>3
    <3>2. Writes[own + a] = SubAgentFile(SubAgents[a])
      BY <1>2
    <3> QED BY <1>7, <3>1, <3>2
  <2>2. ASSUME \A b \in 1..n : b > a => SubAgents[b].name /= SubAgents[a].name
        PROVE  files[path] = EnsureToolRestrictions(SubAgents[a].front)
    <3>1. PICK m \in own + a..last : Writes[m].path = path /\ files[path] = Writes[m].is
      BY <1>5, <2>1
    <3>2. PICK b \in 1..n : m = own + b
      <4>1. last = own + n /\ own \in Nat /\ n \in Nat /\ m \in own + a..last /\ a \in 1..n
        BY <1>1, <1>2, <1>3
      <4>2. m - own \in 1..n /\ m = own + (m - own)
        BY <4>1
      <4> QED BY <4>2
    <3>3. b = a
      <4>1. SubAgents[b].name = SubAgents[a].name
        BY <1>2, <1>7, <3>1, <3>2
      <4>2. ~(b > a) /\ b >= a
        BY <1>1, <1>3, <2>2, <3>1, <3>2, <4>1
      <4> QED BY <1>1, <4>2
    <3> QED BY <1>2, <1>7, <3>1, <3>2, <3>3
  <2> QED BY <1>5, <2>1, <2>2
<1> QED BY <1>1, <1>8, <1>9, <1>10 DEF CompleteFiles

----------------------------------------------------------------------------
(* Places in a set of numbers *)

\* Of two places the later has more places up to it.
LEMMA Ranked ==
    ASSUME NEW T \in SUBSET Nat, IsFiniteSet(T)
    PROVE  /\ Cardinality(T) \in Nat
           /\ \A t \in T : Cardinality({u \in T : u <= t}) \in 1..Cardinality(T)
           /\ \A t, v \in T : t < v => Cardinality({u \in T : u <= t}) < Cardinality({u \in T : u <= v})
<1> DEFINE Upto(t) == {u \in T : u <= t}
<1>1. Cardinality(T) \in Nat
  BY FS_CardinalityType
<1>2. \A t \in T : /\ IsFiniteSet(Upto(t)) /\ t \in Upto(t)
                   /\ Cardinality(Upto(t)) \in Nat /\ Cardinality(Upto(t)) <= Cardinality(T)
  <2> TAKE t \in T
  <2>1. Upto(t) \in SUBSET T /\ t \in Upto(t)
    OBVIOUS
  <2> HIDE DEF Upto
  <2> QED BY <2>1, FS_Subset, FS_CardinalityType
<1>3. \A t \in T : Cardinality(Upto(t)) \in 1..Cardinality(T)
  <2> TAKE t \in T
  <2> HIDE DEF Upto
  <2>1. Cardinality(Upto(t)) /= 0
    BY <1>2, FS_EmptySet
  <2> QED BY <2>1, <1>1, <1>2
<1>4. \A t, v \in T : t < v => Cardinality(Upto(t)) < Cardinality(Upto(v))
  <2> SUFFICES ASSUME NEW t \in T, NEW v \in T, t < v
               PROVE  Cardinality(Upto(t)) < Cardinality(Upto(v))
    OBVIOUS
  <2>0. \A u \in T : u <= t => u <= v
    <3> TAKE u \in T
    <3>1. u \in Nat /\ t \in Nat /\ v \in Nat
      OBVIOUS
    <3> QED BY <3>1
  <2>1. v <= v /\ ~(v <= t)
    <3>1. t \in Nat /\ v \in Nat
      OBVIOUS
    <3> QED BY <3>1
  <2>2. Upto(t) \in SUBSET Upto(v) /\ v \in Upto(v) /\ v \notin Upto(t)
    BY <2>0, <2>1, Zenon
  <2> HIDE DEF Upto
  <2>3. Cardinality(Upto(t)) <= Cardinality(Upto(v)) /\ Cardinality(Upto(t)) /= Cardinality(Upto(v))
    BY <2>2, <1>2, FS_Subset
  <2> QED BY <2>3, <1>2
<1> QED BY <1>1, <1>3, <1>4

\* Nth counts the places of a set in their order, without a gap.
LEMMA Places ==
    ASSUME NEW T \in SUBSET Nat, IsFiniteSet(T)
    PROVE  /\ Cardinality(T) \in Nat
           /\ \A k \in 1..Cardinality(T) : Nth(T, k) \in T /\ Cardinality({u \in T : u <= Nth(T, k)}) = k
           /\ \A j, k \in 1..Cardinality(T) : j < k => Nth(T, j) < Nth(T, k)
           /\ \A t \in T : \E k \in 1..Cardinality(T) : Nth(T, k) = t
           /\ \A t \in T, k \in Nat : Cardinality({u \in T : u <= t}) = k => Nth(T, k) = t
<1> DEFINE n == Cardinality(T)
           rank == [t \in T |-> Cardinality({u \in T : u <= t})]
<1>1. /\ n \in Nat /\ rank \in [T -> 1..n] /\ \A t, v \in T : t < v => rank[t] < rank[v]
      /\ \A t \in T : t \in Nat
  BY Ranked
<1>2. \A k : Nth(T, k) = CHOOSE t \in T : rank[t] = k
  BY DEF Nth
<1>3. \A t \in T : rank[t] = Cardinality({u \in T : u <= t})
  OBVIOUS
<1> HIDE DEF rank
<1>4. \A t, v \in T : rank[t] = rank[v] => t = v
  <2> SUFFICES ASSUME NEW t \in T, NEW v \in T, rank[t] = rank[v], t /= v PROVE FALSE
    OBVIOUS
  <2>1. t < v \/ v < t
    BY <1>1
  <2>2. rank[t] \in 1..n /\ rank[v] \in 1..n
    BY <1>1
  <2> QED BY <2>1, <2>2, <1>1
<1>5. IsFiniteSet(1..n) /\ Cardinality(1..n) = n
  BY <1>1, FS_Interval
<1>6. rank \in Surjection(T, 1..n)
  <2>1. rank \in Injection(T, 1..n)
    BY <1>1, <1>4 DEF Injection, IsInjective
  <2> HIDE DEF n
  <2> QED BY <2>1, <1>5, FS_Injection DEF n
<1>7. \A k \in 1..n : Nth(T, k) \in T /\ rank[Nth(T, k)] = k
  <2> TAKE k \in 1..n
  <2>1. \E t \in T : rank[t] = k
    BY <1>6 DEF Surjection
  <2> QED BY <2>1, <1>2
<1>8. \A t \in T : Nth(T, rank[t]) = t /\ rank[t] \in 1..n
  BY <1>1, <1>4, <1>7
<1>9. \A j, k \in 1..n : j < k => Nth(T, j) < Nth(T, k)
  <2> SUFFICES ASSUME NEW j \in 1..n, NEW k \in 1..n, j < k, ~(Nth(T, j) < Nth(T, k)) PROVE FALSE
    OBVIOUS
  <2>1. Nth(T, j) \in T /\ Nth(T, k) \in T /\ rank[Nth(T, j)] = j /\ rank[Nth(T, k)] = k
    BY <1>7
  <2>2. Nth(T, k) < Nth(T, j) \/ Nth(T, k) = Nth(T, j)
    <3>1. Nth(T, j) \in Nat /\ Nth(T, k) \in Nat
      BY <2>1
    <3> QED BY <3>1
  <2>3. k < j \/ k = j
    BY <2>1, <2>2, <1>1
  <2> QED BY <2>3, <1>1
<1> QED BY <1>1, <1>3, <1>7, <1>8, <1>9

\* A list of numbers that goes up is the enumeration of its members.
LEMMA Enumerated ==
    ASSUME NEW n \in Nat, NEW g, NEW T \in SUBSET Nat, \A k \in 1..n : g[k] \in T,
           \A t \in T : \E k \in 1..n : g[k] = t, \A j, k \in 1..n : j < k => g[j] < g[k]
    PROVE  IsFiniteSet(T) /\ Cardinality(T) = n /\ \A k \in 1..n : Nth(T, k) = g[k]
<1>1. ASSUME NEW m \in 0..n, NEW U \in SUBSET Nat, \A k \in 1..m : g[k] \in U,
             \A t \in U : \E k \in 1..m : g[k] = t
      PROVE  IsFiniteSet(U) /\ Cardinality(U) = m
  <2> DEFINE h == [k \in 1..m |-> g[k]]
  <2>1. h \in [1..m -> U] /\ (\A t \in U : \E k \in 1..m : h[k] = t)
    BY <1>1
  <2>2. \A j, k \in 1..m : h[j] = h[k] => j = k
    <3> SUFFICES ASSUME NEW j \in 1..m, NEW k \in 1..m, g[j] = g[k], j /= k PROVE FALSE
      OBVIOUS
    <3>1. j \in 1..n /\ k \in 1..n /\ (j < k \/ k < j)
      OBVIOUS
    <3>2. g[j] \in Nat /\ g[k] \in Nat
      BY <3>1
    <3> QED BY <3>1, <3>2
  <2> HIDE DEF h
  <2>3. h \in Bijection(1..m, U)
    BY <2>1, <2>2 DEF Bijection, Injection, IsInjective, Surjection
  <2>4. ExistsBijection(1..m, U)
    BY <2>3 DEF ExistsBijection
  <2>5. IsFiniteSet(1..m) /\ Cardinality(1..m) = m
    BY FS_Interval
  <2> QED BY <2>4, <2>5, FS_Bijection
<1>2. IsFiniteSet(T) /\ Cardinality(T) = n
  BY <1>1
<1>3. \A k \in 1..n : Nth(T, k) = g[k]
  <2> TAKE k \in 1..n
  <2> DEFINE U == {u \in T : u <= g[k]}
  <2>1. \A j \in 1..k : g[j] \in U
    <3> TAKE j \in 1..k
    <3>1. j \in 1..n /\ k \in 1..n /\ (j < k \/ j = k)
      OBVIOUS
    <3>2. g[j] \in T /\ g[j] \in Nat /\ g[k] \in Nat /\ (j < k => g[j] < g[k])
      BY <3>1
    <3>3. g[j] <= g[k]
      BY <3>1, <3>2
    <3> QED BY <3>2, <3>3
  <2>2. \A t \in U : \E j \in 1..k : g[j] = t
    <3> TAKE t \in U
    <3>1. PICK j \in 1..n : g[j] = t
      OBVIOUS
    <3>2. g[j] \in Nat /\ g[k] \in Nat /\ (k < j => g[k] < g[j]) /\ g[j] <= g[k]
      BY <3>1
    <3>3. j \in 1..k
      BY <3>2
    <3> QED BY <3>1, <3>3
  <2>3. U \in SUBSET Nat
    OBVIOUS
  <2>7. k \in 0..n
    OBVIOUS
  <2> HIDE DEF U
  <2>4. Cardinality(U) = k
    BY <2>1, <2>2, <2>3, <2>7, <1>1
  <2>5. g[k] \in T /\ k \in Nat /\ Cardinality({u \in T : u <= g[k]}) = k
    BY <2>4 DEF U
  <2>6. \A t \in T, i \in Nat : Cardinality({u \in T : u <= t}) = i => Nth(T, i) = t
    BY <1>2, Places
  <2> QED BY <2>5, <2>6
<1> QED BY <1>2, <1>3

\* Places that are moved by h keep their order.
LEMMA Shifted ==
    ASSUME NEW T \in SUBSET Nat, IsFiniteSet(T), NEW h \in Nat, NEW U \in SUBSET Nat,
           \A u \in Nat : u \in U <=> u - h \in T
    PROVE  /\ IsFiniteSet(U) /\ Cardinality(U) = Cardinality(T)
           /\ \A k \in 1..Cardinality(T) : Nth(U, k) = h + Nth(T, k)
<1> DEFINE n == Cardinality(T)
           g == [k \in 1..n |-> h + Nth(T, k)]
<1>1. /\ n \in Nat /\ \A k \in 1..n : Nth(T, k) \in T
      /\ \A j, k \in 1..n : j < k => Nth(T, j) < Nth(T, k)
      /\ \A t \in T : \E k \in 1..n : Nth(T, k) = t
  BY Places
<1> HIDE DEF n
<1>2. \A k \in 1..n : g[k] = h + Nth(T, k) /\ g[k] \in Nat /\ g[k] - h = Nth(T, k)
  <2> TAKE k \in 1..n
  <2>1. Nth(T, k) \in Nat
    BY <1>1
  <2> QED BY <2>1
<1>3. \A k \in 1..n : g[k] \in U
  BY <1>1, <1>2
<1>4. \A t \in U : \E k \in 1..n : g[k] = t
  <2> TAKE t \in U
  <2>1. t - h \in T
    OBVIOUS
  <2>2. PICK k \in 1..n : Nth(T, k) = t - h
    BY <2>1, <1>1
  <2>3. h + Nth(T, k) = t
    BY <2>2, <2>1
  <2> QED BY <2>3
<1>5. \A j, k \in 1..n : j < k => g[j] < g[k]
  <2> SUFFICES ASSUME NEW j \in 1..n, NEW k \in 1..n, j < k PROVE g[j] < g[k]
    OBVIOUS
  <2>1. Nth(T, j) < Nth(T, k) /\ Nth(T, j) \in Nat /\ Nth(T, k) \in Nat
    BY <1>1
  <2> QED BY <2>1
<1> HIDE DEF g
<1>6. IsFiniteSet(U) /\ Cardinality(U) = n /\ \A k \in 1..n : Nth(U, k) = g[k]
  <2>1. n \in Nat
    BY <1>1
  <2>2. \A t \in U : \E k \in 1..n : g[k] = t
    BY <1>4
  <2>3. (\A k \in 1..n : g[k] \in U) /\ \A j, k \in 1..n : j < k => g[j] < g[k]
    BY <1>3, <1>5
  <2> HIDE DEF n
  <2> QED BY <2>1, <2>2, <2>3, Enumerated, ZenonT(40)
<1> QED BY <1>2, <1>6 DEF n

----------------------------------------------------------------------------
(* A list that is made of parts *)

\* A list s is made of the parts P, of which number i ends at off[i].
Cuts(off, P, s) ==
    /\ off \in [0..Len(P) -> Nat] /\ off[0] = 0 /\ Len(s) = off[Len(P)]
    /\ \A i \in 1..Len(P) : off[i] = off[i - 1] + Len(P[i])
    /\ \A i \in 1..Len(P) : \A l \in 1..Len(P[i]) : s[off[i - 1] + l] = P[i][l]

\* The recursive function of FlattenSeq exists.
LEMMA FlattenSteps ==
    ASSUME NEW P, Len(P) \in Nat
    PROVE  \E pre : /\ Len(P) > 0 => FlattenSeq(P) = pre[Len(P)] /\ pre[1] = P[1]
                    /\ Len(P) = 0 => FlattenSeq(P) = P
                    /\ \A i \in 2..Len(P) : pre[i] = pre[i - 1] \o P[i]
<1> DEFINE n == Len(P)
           Upto(g, m) == g = [i \in 1..m |-> IF i = 1 THEN P[i] ELSE g[i - 1] \o P[i]]
           S == {m \in 0..n : \E g : Upto(g, m)}
<1>0. n \in Nat
  OBVIOUS
<1> HIDE DEF n
<1>1. 0 \in S
  <2> DEFINE g == [i \in 1..0 |-> P[i]]
  <2>1. \A i : i \notin 1..0
    OBVIOUS
  <2>2. Upto(g, 0)
    BY <2>1
  <2>3. 0 \in 0..n
    BY <1>0
  <2> HIDE DEF g, Upto
  <2> QED BY <2>2, <2>3
<1>2. ASSUME NEW m \in 0..n - 1, m \in S PROVE m + 1 \in S
  <2>1. PICK g : Upto(g, m)
    BY <1>2
  <2> DEFINE h == [i \in 1..m + 1 |->
                     IF i = m + 1 THEN (IF m = 0 THEN P[1] ELSE g[m] \o P[m + 1]) ELSE g[i]]
  <2>2. \A i \in 1..m + 1 : h[i] = IF i = 1 THEN P[i] ELSE h[i - 1] \o P[i]
    <3> TAKE i \in 1..m + 1
    <3>1. CASE i = m + 1
      <4>1. CASE m = 0
        BY <3>1, <4>1
      <4>2. CASE m /= 0
        <5>1. i /= 1 /\ i - 1 = m /\ m \in 1..m + 1 /\ m /= m + 1
          BY <3>1, <4>2, <1>0
        <5>2. h[m] = g[m] /\ h[i] = g[m] \o P[i]
          BY <5>1, <3>1, <4>2
        <5> HIDE DEF h, Upto
        <5> QED BY <5>1, <5>2
      <4> QED BY <4>1, <4>2
    <3>2. CASE i /= m + 1
      <4>1. i \in 1..m /\ (i /= 1 => i - 1 \in 1..m /\ i - 1 \in 1..m + 1 /\ i - 1 /= m + 1)
        BY <3>2, <1>0
      <4>2. h[i] = g[i] /\ (i /= 1 => h[i - 1] = g[i - 1])
        BY <4>1, <3>2
      <4>3. g[i] = IF i = 1 THEN P[i] ELSE g[i - 1] \o P[i]
        <5> DEFINE e == [k \in 1..m |-> IF k = 1 THEN P[k] ELSE g[k - 1] \o P[k]]
        <5>1. g = e
          BY <2>1
        <5>2. e[i] = IF i = 1 THEN P[i] ELSE g[i - 1] \o P[i]
          BY <4>1
        <5> HIDE DEF e
        <5> QED BY <5>1, <5>2
      <4> HIDE DEF h, Upto
      <4> QED BY <4>2, <4>3
    <3> QED BY <3>1, <3>2
  <2>3. h = [i \in 1..m + 1 |-> h[i]]
    OBVIOUS
  <2>4. Upto(h, m + 1)
    <3> HIDE DEF h
    <3> QED BY <2>2, <2>3
  <2>5. m + 1 \in 0..n
    BY <1>0
  <2> HIDE DEF h, Upto
  <2> QED BY <2>4, <2>5
<1>3. \E g : Upto(g, n)
  <2> HIDE DEF S
  <2>1. 0..n \subseteq S
    BY <1>0, <1>1, <1>2, UpToBound
  <2>2. n \in S
    BY <2>1, <1>0
  <2> QED BY <2>2 DEF S
<1> DEFINE pre[i \in 1..n] == IF i = 1 THEN P[i] ELSE pre[i - 1] \o P[i]
<1>4. pre = [i \in 1..n |-> IF i = 1 THEN P[i] ELSE pre[i - 1] \o P[i]]
  BY <1>3
<1>5. FlattenSeq(P) = IF n = 0 THEN P ELSE pre[n]
  BY DEF FlattenSeq, n
<1> HIDE DEF pre
<1>6. \A i \in 1..n : pre[i] = IF i = 1 THEN P[i] ELSE pre[i - 1] \o P[i]
  <2> DEFINE e == [i \in 1..n |-> IF i = 1 THEN P[i] ELSE pre[i - 1] \o P[i]]
  <2>1. pre = e
    BY <1>4
  <2>2. \A i \in 1..n : e[i] = IF i = 1 THEN P[i] ELSE pre[i - 1] \o P[i]
    OBVIOUS
  <2> HIDE DEF e
  <2> QED BY <2>1, <2>2
<1>7. n > 0 => pre[1] = P[1]
  BY <1>0, <1>6
<1>8. \A i \in 2..n : pre[i] = pre[i - 1] \o P[i]
  <2> TAKE i \in 2..n
  <2>1. i \in 1..n /\ i /= 1
    BY <1>0
  <2> QED BY <2>1, <1>6
<1>9. (n > 0 => n /= 0) /\ (n > 0 => FlattenSeq(P) = pre[n]) /\ (n = 0 => FlattenSeq(P) = P)
  BY <1>0, <1>5
<1> HIDE DEF pre
<1> QED BY <1>7, <1>8, <1>9, Zenon DEF n

\* A place of a part is a place of the list up to c, and of a longer one.
LEMMA Inside ==
    \A a, b, c, d \in Nat : a + b <= c =>
        \A l \in 1..b : a + l \in 1..c + d /\ a + l <= c
OBVIOUS

LEMMA Behind ==
    \A a, b \in Nat : \A l \in 1..b : a + l \in 1..a + b /\ ~(a + l <= a) /\ (a + l) - a = l
OBVIOUS

\* FlattenSeq joins the parts, each after the one before it.
LEMMA Flattened ==
    ASSUME NEW Typ, NEW P \in Seq(Seq(Typ))
    PROVE  FlattenSeq(P) \in Seq(Typ) /\ \E off : Cuts(off, P, FlattenSeq(P))
<1> DEFINE n == Len(P)
<1>0. n \in Nat /\ \A i \in 1..n : P[i] \in Seq(Typ) /\ Len(P[i]) \in Nat
  BY LenProperties
<1>1. PICK pre : /\ n > 0 => FlattenSeq(P) = pre[n] /\ pre[1] = P[1]
                 /\ n = 0 => FlattenSeq(P) = P
                 /\ \A i \in 2..n : pre[i] = pre[i - 1] \o P[i]
  BY <1>0, FlattenSteps
<1> DEFINE off == [i \in 0..n |-> IF i = 0 THEN 0 ELSE Len(pre[i])]
           Good(m) == /\ pre[m] \in Seq(Typ)
                      /\ off[m] = off[m - 1] + Len(P[m])
                      /\ \A i \in 1..m : /\ off[i - 1] \in Nat /\ off[i] \in Nat
                                         /\ off[i] = off[i - 1] + Len(P[i]) /\ off[i] <= off[m]
                                         /\ \A l \in 1..Len(P[i]) : pre[m][off[i - 1] + l] = P[i][l]
           S == {m \in 0..n : m = 0 \/ Good(m)}
<1> HIDE DEF n
<1>2. off[0] = 0 /\ \A i \in 1..n : off[i] = Len(pre[i])
  BY <1>0
<1>3. 0 \in S
  BY <1>0
<1> HIDE DEF off, Good, S
<1>4. ASSUME NEW m \in 0..n - 1, m \in S PROVE m + 1 \in S
  <2>0. m \in Nat /\ m + 1 \in Nat
    BY <1>0
  <2>1. m + 1 \in 1..n /\ m + 1 \in 0..n /\ (m + 1) - 1 = m /\ P[m + 1] \in Seq(Typ) /\ Len(P[m + 1]) \in Nat
    BY <1>0
  <2>2. CASE m = 0
    <3>1. n > 0
      BY <1>0, <2>0, <2>2
    <3>2. pre[1] = P[1] /\ 1 \in 1..n /\ off[1] = Len(P[1]) /\ P[1] \in Seq(Typ) /\ Len(P[1]) \in Nat
      BY <1>0, <1>1, <1>2, <3>1
    <3>3. \A i \in 1..1 : i = 1 /\ i - 1 = 0
      OBVIOUS
    <3>4. \A l \in 1..Len(P[1]) : 0 + l = l
      BY <3>2
    <3>5. Good(1)
      BY <3>2, <3>3, <3>4, <1>2 DEF Good
    <3> QED BY <2>1, <2>2, <3>5 DEF S
  <2>3. CASE m /= 0
    <3>1. Good(m) /\ m + 1 \in 2..n /\ m \in 1..n /\ m \in 1..m
      BY <2>3, <1>0, <1>4 DEF S
    <3>2. pre[m + 1] = pre[m] \o P[m + 1]
      BY <1>1, <2>1, <3>1
    <3>3. /\ pre[m + 1] \in Seq(Typ) /\ Len(pre[m + 1]) = Len(pre[m]) + Len(P[m + 1])
          /\ \A q \in 1..Len(pre[m]) + Len(P[m + 1]) :
                pre[m + 1][q] = IF q <= Len(pre[m]) THEN pre[m][q] ELSE P[m + 1][q - Len(pre[m])]
      <4>1. pre[m] \in Seq(Typ)
        BY <3>1 DEF Good
      <4>2. P[m + 1] \in Seq(Typ)
        BY <2>1
      <4> DEFINE s1 == pre[m]  s2 == P[m + 1]  s3 == pre[m + 1]
      <4>3. s1 \in Seq(Typ) /\ s2 \in Seq(Typ) /\ s3 = s1 \o s2
        BY <4>1, <4>2, <3>2
      <4> HIDE DEF s1, s2, s3
      <4>4. /\ s3 \in Seq(Typ) /\ Len(s3) = Len(s1) + Len(s2)
            /\ \A q \in 1..Len(s1) + Len(s2) : s3[q] = IF q <= Len(s1) THEN s1[q] ELSE s2[q - Len(s1)]
        BY <4>3, ConcatProperties
      <4> QED BY <4>4 DEF s1, s2, s3
    <3>4. /\ off[m] = Len(pre[m]) /\ off[m + 1] = off[m] + Len(P[m + 1])
          /\ off[m] \in Nat /\ off[m + 1] \in Nat
      <4>1. off[m] = Len(pre[m]) /\ off[m + 1] = Len(pre[m + 1])
        BY <1>2, <2>1, <3>1
      <4>2. off[m] \in Nat
        BY <3>1 DEF Good
      <4>3. Len(P[m + 1]) \in Nat
        BY <2>1
      <4>4. Len(pre[m + 1]) = Len(pre[m]) + Len(P[m + 1])
        BY <3>3
      <4>5. off[m + 1] = off[m] + Len(P[m + 1])
        BY <4>1, <4>4, Zenon
      <4>6. off[m + 1] \in Nat
        BY <4>2, <4>3, <4>5
      <4> QED BY <4>1, <4>2, <4>5, <4>6
    <3>5. ASSUME NEW i \in 1..m + 1
          PROVE  /\ off[i - 1] \in Nat /\ off[i] \in Nat
                 /\ off[i] = off[i - 1] + Len(P[i]) /\ off[i] <= off[m + 1]
                 /\ \A l \in 1..Len(P[i]) : pre[m + 1][off[i - 1] + l] = P[i][l]
      <4>1. CASE i = m + 1
        <5>0. off[m] = Len(pre[m]) /\ off[m] \in Nat /\ Len(P[m + 1]) \in Nat
          BY <3>4, <2>1
        <5>4. \A l \in 1..Len(P[m + 1]) : /\ off[m] + l \in 1..off[m] + Len(P[m + 1])
                                          /\ ~(off[m] + l <= off[m]) /\ (off[m] + l) - off[m] = l
          BY <5>0, Behind, Zenon
        <5>1. \A l \in 1..Len(P[m + 1]) : /\ off[m] + l \in 1..Len(pre[m]) + Len(P[m + 1])
                                          /\ ~(off[m] + l <= Len(pre[m])) /\ (off[m] + l) - Len(pre[m]) = l
          BY <5>0, <5>4, Zenon
        <5>2. \A l \in 1..Len(P[m + 1]) : pre[m + 1][off[m] + l] = P[m + 1][l]
          BY <5>1, <3>3
        <5>3. off[m + 1] <= off[m + 1]
          BY <3>4
        <5> QED BY <4>1, <5>2, <5>3, <3>4, <2>1
      <4>2. CASE i /= m + 1
        <5>0. i \in 1..m /\ i \in 1..n
          BY <4>2, <1>0, <2>0
        <5>1. /\ off[i - 1] \in Nat /\ off[i] \in Nat /\ off[i] = off[i - 1] + Len(P[i]) /\ off[i] <= off[m]
              /\ \A l \in 1..Len(P[i]) : pre[m][off[i - 1] + l] = P[i][l]
          BY <3>1, <5>0 DEF Good
        <5>2. Len(P[i]) \in Nat
          BY <1>0, <5>0
        <5>3. \A l \in 1..Len(P[i]) : /\ off[i - 1] + l \in 1..Len(pre[m]) + Len(P[m + 1])
                                      /\ off[i - 1] + l <= Len(pre[m])
          <6>1. off[i - 1] \in Nat /\ off[i - 1] + Len(P[i]) <= off[m] /\ off[m] \in Nat
            BY <5>1, <3>4, Zenon
          <6>2. Len(P[m + 1]) \in Nat
            BY <2>1
          <6>3. \A l \in 1..Len(P[i]) : off[i - 1] + l \in 1..off[m] + Len(P[m + 1]) /\ off[i - 1] + l <= off[m]
            BY <6>1, <6>2, <5>2, Inside, Zenon
          <6> QED BY <6>3, <3>4, Zenon
        <5>4. \A l \in 1..Len(P[i]) : pre[m + 1][off[i - 1] + l] = P[i][l]
          BY <5>1, <5>3, <3>3
        <5>5. off[i] <= off[m + 1]
          <6>1. /\ off[i] \in Nat /\ off[i] <= off[m] /\ off[m] \in Nat
                /\ off[m + 1] = off[m] + Len(P[m + 1]) /\ Len(P[m + 1]) \in Nat
            BY <5>1, <3>4, <2>1
          <6> QED BY <6>1
        <5> QED BY <5>1, <5>4, <5>5
      <4> QED BY <4>1, <4>2
    <3>6. Good(m + 1)
      BY <2>1, <3>3, <3>4, <3>5 DEF Good
    <3> QED BY <2>1, <3>6 DEF S
  <2> QED BY <2>2, <2>3
<1>5. n = 0 \/ Good(n)
  <2>1. 0..n \subseteq S
    BY <1>0, <1>3, <1>4, UpToBound
  <2>2. n \in S
    BY <2>1, <1>0
  <2> QED BY <2>2 DEF S
<1>6. CASE n = 0
  <2>1. P = <<>> /\ FlattenSeq(P) = <<>>
    BY <1>6, <1>1, EmptySeq DEF n
  <2>2. \A i : i \notin 1..0
    OBVIOUS
  <2>3. Cuts([i \in 0..0 |-> 0], P, FlattenSeq(P))
    BY <2>1, <2>2 DEF Cuts
  <2> QED BY <2>1, <2>3, EmptySeq
<1>7. CASE n /= 0
  <2>1. Good(n) /\ FlattenSeq(P) = pre[n] /\ n \in 1..n
    BY <1>0, <1>1, <1>5, <1>7
  <2>2. /\ \A i \in 1..n : off[i] \in Nat /\ off[i] = off[i - 1] + Len(P[i])
        /\ \A i \in 1..n : \A l \in 1..Len(P[i]) : pre[n][off[i - 1] + l] = P[i][l]
        /\ pre[n] \in Seq(Typ)
    BY <2>1 DEF Good
  <2>3. off \in [0..n -> Nat]
    <3>1. \A i \in 0..n : off[i] \in Nat
      <4> TAKE i \in 0..n
      <4>1. i = 0 \/ i \in 1..n
        BY <1>0
      <4> QED BY <4>1, <2>2, <1>2
    <3>2. off = [i \in 0..n |-> off[i]]
      BY DEF off
    <3> QED BY <3>1, <3>2
  <2>4. off[0] = 0 /\ Len(pre[n]) = off[n]
    BY <1>2, <2>1
  <2>5. Cuts(off, P, FlattenSeq(P))
    BY <2>1, <2>2, <2>3, <2>4 DEF Cuts, n
  <2> QED BY <2>1, <2>2, <2>5
<1> QED BY <1>6, <1>7

\* Place q of the list is in one of its parts.
InParts(off, P, q) == \E i \in 1..Len(P) : \E l \in 1..Len(P[i]) : q = off[i - 1] + l

\* Every place of the list is in one part.
LEMMA CutsCover ==
    ASSUME NEW Typ, NEW P \in Seq(Seq(Typ)), NEW s, NEW off, Cuts(off, P, s)
    PROVE  /\ \A i, j \in 0..Len(P) : i <= j => off[i] <= off[j]
           /\ \A q \in 1..Len(s) : InParts(off, P, q)
<1> DEFINE n == Len(P)
<1>0. n \in Nat /\ (\A i \in 1..n : Len(P[i]) \in Nat)
  BY LenProperties
<1>1. /\ off[0] = 0 /\ Len(s) = off[n]
      /\ \A i \in 0..n : off[i] \in Nat
      /\ \A i \in 1..n : off[i] = off[i - 1] + Len(P[i])
  BY DEF Cuts
<1> HIDE DEF n
<1>2. \A i \in 1..n : i - 1 \in 0..n /\ off[i - 1] \in Nat /\ off[i] \in Nat /\ off[i - 1] <= off[i]
  <2> TAKE i \in 1..n
  <2>1. i - 1 \in 0..n /\ i \in 0..n
    BY <1>0
  <2>2. off[i - 1] \in Nat /\ off[i] \in Nat /\ off[i] = off[i - 1] + Len(P[i]) /\ Len(P[i]) \in Nat
    BY <1>0, <1>1, <2>1
  <2> QED BY <2>1, <2>2
<1>3. ASSUME NEW i \in 0..n PROVE \A j \in 0..n : i <= j => off[i] <= off[j]
  <2> DEFINE S == {j \in 0..n : i <= j => off[i] <= off[j]}
  <2>1. 0 \in S
    BY <1>0, <1>1
  <2>2. ASSUME NEW j \in 0..n - 1, j \in S PROVE j + 1 \in S
    <3>1. j + 1 \in 1..n /\ (j + 1) - 1 = j /\ j + 1 \in 0..n /\ j \in 0..n
      BY <1>0
    <3>2. off[j] \in Nat /\ off[j + 1] \in Nat /\ off[j] <= off[j + 1] /\ off[i] \in Nat
      BY <3>1, <1>1, <1>2
    <3>3. CASE i <= j
      BY <3>1, <3>2, <3>3, <2>2
    <3>4. CASE i = j + 1
      BY <3>1, <3>2, <3>4
    <3>5. CASE i > j + 1
      BY <3>1, <3>5
    <3> QED BY <3>3, <3>4, <3>5, <3>1
  <2> HIDE DEF S
  <2>3. 0..n \subseteq S
    BY <1>0, <2>1, <2>2, UpToBound
  <2> QED BY <2>3 DEF S
<1>4. ASSUME NEW q \in 1..off[n] PROVE \E i \in 1..n : \E l \in 1..Len(P[i]) : q = off[i - 1] + l
  <2> DEFINE S == {i \in 0..n : q <= off[i]}
  <2>0. off[n] \in Nat /\ n \in 0..n
    BY <1>0, <1>1
  <2>1. S \in SUBSET Nat /\ n \in S
    BY <2>0
  <2>2. PICK i \in S : \A j \in S : i <= j
    BY <2>1, LeastOf
  <2>3. i \in 0..n /\ q <= off[i]
    BY <2>2
  <2>4. i /= 0
    BY <2>0, <2>3, <1>1
  <2>5. i \in 1..n /\ i - 1 \in 0..n /\ ~(i <= i - 1)
    BY <2>3, <2>4, <1>0
  <2>6. ~(q <= off[i - 1])
    BY <2>2, <2>5
  <2>7. off[i - 1] \in Nat /\ off[i] = off[i - 1] + Len(P[i]) /\ Len(P[i]) \in Nat
    BY <1>0, <1>1, <2>5
  <2>8. q - off[i - 1] \in 1..Len(P[i]) /\ q = off[i - 1] + (q - off[i - 1])
    BY <2>0, <2>3, <2>6, <2>7
  <2> QED BY <2>5, <2>8
<1> QED BY <1>1, <1>3, <1>4, Zenon DEF n, InParts

----------------------------------------------------------------------------
(* What git prints of a file *)

\* Lines of git diff before the first hunk.
FirstLines == {"diff", "diffQuoted", "diffSpaced"}
HeaderLines == FirstLines \cup {"newFile", "deletedFile", "similarity",
                "renameFrom", "renameTo", "index", "---", "+++"}

\* The kind of the first line of a file.
MarkOf(f) == IF f.spaced THEN "diffSpaced" ELSE IF f.quoted THEN "diffQuoted" ELSE "diff"

\* What git prints above the hunks.
LEMMA GitHeaderIs ==
    ASSUME NEW f \in DiffFile
    PROVE  LET g == GitHeader(f) IN
           /\ g \in Seq(HeaderLines) /\ Len(g) \in Nat /\ Len(g) >= 1
           /\ g[1] = MarkOf(f) /\ MarkOf(f) \in FirstLines
           /\ \A l \in 2..Len(g) : g[l] \notin FirstLines
           /\ (\E l \in 1..Len(g) : g[l] = "renameTo") <=> f.change = "renamed"
           /\ (\E l \in 1..Len(g) : g[l] = "newFile") <=> f.change = "added"
           /\ (\E l \in 1..Len(g) : g[l] = "deletedFile") <=> f.change = "deleted"
<1> DEFINE mark == MarkOf(f)
           first == CASE f.change = "added"   -> <<mark, "newFile", "index">>
                     [] f.change = "deleted" -> <<mark, "deletedFile", "index">>
                     [] f.change = "renamed" -> <<mark, "similarity", "renameFrom", "renameTo", "index">>
                     [] OTHER -> <<mark, "index">>
           paths == IF f.lines = <<>> THEN <<>> ELSE <<"---", "+++">>
           g == first \o paths
<1>1. GitHeader(f) = g
  BY DEF GitHeader, MarkOf
<1>2. f.change \in {"modified", "added", "deleted", "renamed"}
  BY DEF DiffFile
<1>3. mark \in FirstLines
  BY DEF MarkOf, FirstLines
<1>14. /\ mark \in HeaderLines /\ "newFile" \in HeaderLines /\ "deletedFile" \in HeaderLines
       /\ "similarity" \in HeaderLines /\ "renameFrom" \in HeaderLines /\ "renameTo" \in HeaderLines
       /\ "index" \in HeaderLines /\ "---" \in HeaderLines /\ "+++" \in HeaderLines
  BY <1>3 DEF HeaderLines, FirstLines
<1> HIDE DEF mark
<1>4. /\ first \in Seq(HeaderLines) /\ Len(first) \in 2..5 /\ first[1] = mark
      /\ \A l \in 2..Len(first) : first[l] \notin FirstLines
      /\ (\E l \in 1..Len(first) : first[l] = "renameTo") <=> f.change = "renamed"
      /\ (\E l \in 1..Len(first) : first[l] = "newFile") <=> f.change = "added"
      /\ (\E l \in 1..Len(first) : first[l] = "deletedFile") <=> f.change = "deleted"
  <2>1. CASE f.change = "modified"
    <3>1. first = <<mark, "index">>
      BY <2>1
    <3> HIDE DEF first
    <3>2. first \in Seq(HeaderLines) /\ Len(first) = 2 /\ first[1] = mark /\ first[2] = "index"
      BY <1>14, <3>1
    <3>3. \A l \in 1..Len(first) : l = 1 \/ l = 2
      BY <3>2
    <3> QED BY <2>1, <3>2, <3>3, <1>3 DEF FirstLines
  <2>2. CASE f.change = "added"
    <3>1. first = <<mark, "newFile", "index">>
      BY <2>2
    <3> HIDE DEF first
    <3>2. first \in Seq(HeaderLines) /\ Len(first) = 3 /\ first[1] = mark /\ first[2] = "newFile" /\ first[3] = "index"
      BY <1>14, <3>1
    <3>3. \A l \in 1..Len(first) : l = 1 \/ l = 2 \/ l = 3
      BY <3>2
    <3> QED BY <2>2, <3>2, <3>3, <1>3 DEF FirstLines
  <2>3. CASE f.change = "deleted"
    <3>1. first = <<mark, "deletedFile", "index">>
      BY <2>3
    <3> HIDE DEF first
    <3>2. first \in Seq(HeaderLines) /\ Len(first) = 3 /\ first[1] = mark /\ first[2] = "deletedFile" /\ first[3] = "index"
      BY <1>14, <3>1
    <3>3. \A l \in 1..Len(first) : l = 1 \/ l = 2 \/ l = 3
      BY <3>2
    <3> QED BY <2>3, <3>2, <3>3, <1>3 DEF FirstLines
  <2>4. CASE f.change = "renamed"
    <3>1. first = <<mark, "similarity", "renameFrom", "renameTo", "index">>
      BY <2>4
    <3> HIDE DEF first
    <3>2. first \in Seq(HeaderLines) /\ Len(first) = 5 /\ first[1] = mark /\ first[2] = "similarity" /\ first[3] = "renameFrom" /\ first[4] = "renameTo" /\ first[5] = "index"
      BY <1>14, <3>1
    <3>3. \A l \in 1..Len(first) : l = 1 \/ l = 2 \/ l = 3 \/ l = 4 \/ l = 5
      BY <3>2
    <3> QED BY <2>4, <3>2, <3>3, <1>3 DEF FirstLines
  <2> QED BY <1>2, <2>1, <2>2, <2>3, <2>4
<1>5. /\ paths \in Seq(HeaderLines) /\ Len(paths) \in 0..2
      /\ \A l \in 1..Len(paths) : paths[l] \in {"---", "+++"}
  <2>1. CASE f.lines = <<>>
    <3>1. paths = <<>>
      BY <2>1
    <3> HIDE DEF paths
    <3>2. paths \in Seq(HeaderLines) /\ Len(paths) = 0
      BY <3>1, EmptySeq
    <3>3. \A l : l \notin 1..0
      OBVIOUS
    <3> QED BY <3>2, <3>3
  <2>2. CASE f.lines /= <<>>
    <3>1. paths = <<"---", "+++">>
      BY <2>2
    <3> HIDE DEF paths
    <3>2. paths \in Seq(HeaderLines) /\ Len(paths) = 2 /\ paths[1] = "---" /\ paths[2] = "+++"
      BY <1>14, <3>1
    <3>3. \A l \in 1..2 : l = 1 \/ l = 2
      OBVIOUS
    <3> QED BY <3>2, <3>3
  <2> QED BY <2>1, <2>2
<1> HIDE DEF first, paths
<1>6. g \in Seq(HeaderLines) /\ Joins(g, first, paths)
  BY <1>4, <1>5, JoinIs, Zenon
<1> HIDE DEF g
<1>7. /\ Len(g) = Len(first) + Len(paths) /\ Len(first) \in Nat /\ Len(paths) \in Nat /\ Len(first) >= 2
      /\ \A l \in 1..Len(first) : g[l] = first[l]
      /\ \A l \in 1..Len(paths) : g[Len(first) + l] = paths[l]
  <2>1. /\ Len(g) = Len(first) + Len(paths)
        /\ \A l \in 1..Len(first) : g[l] = first[l]
        /\ \A l \in 1..Len(paths) : g[Len(first) + l] = paths[l]
    BY <1>6, Zenon DEF Joins
  <2>3. Len(first) \in 2..5 /\ Len(paths) \in 0..2
    BY <1>4, <1>5, Zenon
  <2>2. Len(first) \in Nat /\ Len(paths) \in Nat /\ Len(first) >= 2
    BY <2>3
  <2> QED BY <2>1, <2>2
<1>8. \A l \in 1..Len(g) : \/ l \in 1..Len(first) /\ g[l] = first[l]
                           \/ ~(l \in 1..Len(first)) /\ g[l] \in {"---", "+++"}
  <2> TAKE l \in 1..Len(g)
  <2>1. CASE l <= Len(first)
    BY <2>1, <1>7
  <2>2. CASE ~(l <= Len(first))
    <3>1. l - Len(first) \in 1..Len(paths) /\ Len(first) + (l - Len(first)) = l
      BY <1>7, <2>2
    <3>2. g[l] = paths[l - Len(first)]
      BY <3>1, <1>7
    <3> QED BY <3>1, <3>2, <1>5, <2>2
  <2> QED BY <2>1, <2>2
<1>9. \A l \in 1..Len(first) : l \in 1..Len(g) /\ g[l] = first[l]
  BY <1>7
<1>10. g[1] = mark
  BY <1>4, <1>7, <1>9
<1>11. \A l \in 2..Len(g) : g[l] \notin FirstLines
  <2> TAKE l \in 2..Len(g)
  <2>1. l \in 1..Len(g) /\ (l \in 1..Len(first) => l \in 2..Len(first))
    BY <1>7
  <2> QED BY <2>1, <1>4, <1>8 DEF FirstLines
<1>12. /\ (\E l \in 1..Len(g) : g[l] = "renameTo") <=> f.change = "renamed"
       /\ (\E l \in 1..Len(g) : g[l] = "newFile") <=> f.change = "added"
       /\ (\E l \in 1..Len(g) : g[l] = "deletedFile") <=> f.change = "deleted"
  <2>1. ASSUME NEW is \in {"renameTo", "newFile", "deletedFile"}
        PROVE  (\E l \in 1..Len(g) : g[l] = is) <=> (\E l \in 1..Len(first) : first[l] = is)
    BY <1>8, <1>9
  <2> QED BY <2>1, <1>4
<1>13. Len(g) \in Nat /\ Len(g) >= 1
  BY <1>7
<1> QED BY <1>1, <1>3, <1>6, <1>10, <1>11, <1>12, <1>13 DEF mark

\* A line of the diff.
LineKinds == HeaderLines \cup Hunk
DiffLine == [file : Nat, is : LineKinds]

\* A file as git prints it: the header and the hunks, each line with the number of its file.
LEMMA PrintedIs ==
    ASSUME NEW i \in Nat, NEW f \in DiffFile
    PROVE  LET s == Printed(i, f)  h == Len(GitHeader(f)) IN
           /\ s \in Seq(DiffLine) /\ Len(s) = h + Len(f.lines) /\ h \in Nat /\ h >= 1 /\ Len(f.lines) \in Nat
           /\ \A l \in 1..Len(s) : s[l].file = i
           /\ \A l \in 1..h : s[l].is = GitHeader(f)[l]
           /\ \A l \in 1..Len(f.lines) : s[h + l].is = f.lines[l] /\ f.lines[l] \in Hunk
           /\ \A l \in 1..Len(s) : l > h => l - h \in 1..Len(f.lines) /\ s[l].is = f.lines[l - h]
<1> DEFINE g == GitHeader(f)
           h == Len(g)
           n == Len(f.lines)
           text == g \o f.lines
           s == Printed(i, f)
<1>1. g \in Seq(HeaderLines) /\ h \in Nat /\ h >= 1
  BY GitHeaderIs
<1>2. f.lines \in Seq(Hunk) /\ n \in Nat /\ \A l \in 1..n : f.lines[l] \in Hunk
  BY LenProperties, ElementOfSeq DEF DiffFile
<1>3. g \in Seq(LineKinds) /\ f.lines \in Seq(LineKinds)
  <2>1. HeaderLines \subseteq LineKinds /\ Hunk \subseteq LineKinds
    BY DEF LineKinds
  <2> HIDE DEF g
  <2> QED BY <2>1, <1>1, <1>2, SeqMonotonic
<1> HIDE DEF g
<1>4. text \in Seq(LineKinds) /\ Joins(text, g, f.lines)
  BY <1>3, JoinIs, Zenon
<1>5. s = [l \in DOMAIN text |-> Line(i, text[l])]
  BY DEF Printed, g
<1> HIDE DEF text, s
<1>6. DOMAIN text = 1..Len(text) /\ Len(text) \in Nat /\ (\A l \in 1..Len(text) : text[l] \in LineKinds)
  BY <1>4, LenProperties, ElementOfSeq
<1>7. \A l \in 1..Len(text) : s[l] = Line(i, text[l]) /\ Line(i, text[l]) \in DiffLine
  BY <1>5, <1>6 DEF Line, DiffLine
<1>8. s \in Seq(DiffLine) /\ Len(s) = Len(text)
  BY <1>5, <1>6, <1>7
<1>9. Len(text) = h + n /\ (\A l \in 1..h : text[l] = g[l]) /\ (\A l \in 1..n : text[h + l] = f.lines[l])
  BY <1>4, Zenon DEF Joins
<1>10. \A l \in 1..Len(s) : s[l].file = i /\ s[l].is = text[l]
  <2> TAKE l \in 1..Len(s)
  <2>1. s[l] = [file |-> i, is |-> text[l]]
    BY <1>7, <1>8 DEF Line
  <2> QED BY <2>1
<1> HIDE DEF n, h
<1>11. \A l \in 1..h : s[l].is = g[l]
  <2> TAKE l \in 1..h
  <2>1. l \in 1..h + n
    BY <1>1, <1>2
  <2> QED BY <2>1, <1>8, <1>9, <1>10
<1>12. \A l \in 1..n : s[h + l].is = f.lines[l] /\ f.lines[l] \in Hunk
  <2> TAKE l \in 1..n
  <2>1. h + l \in 1..h + n
    BY <1>1, <1>2
  <2>2. f.lines[l] \in Hunk
    BY <1>2 DEF n
  <2> QED BY <2>1, <2>2, <1>8, <1>9, <1>10
<1>13. \A l \in 1..Len(s) : l > h => l - h \in 1..n /\ s[l].is = f.lines[l - h]
  <2> SUFFICES ASSUME NEW l \in 1..h + n, l > h PROVE l - h \in 1..n /\ s[l].is = f.lines[l - h]
    BY <1>8, <1>9
  <2>1. l - h \in 1..n /\ h + (l - h) = l
    BY <1>1, <1>2
  <2> QED BY <2>1, <1>12
<1> QED BY <1>1, <1>2, <1>8, <1>9, <1>10, <1>11, <1>12, <1>13 DEF s, g, n, h
\* A part of a list is its first element and what follows up to its end.
LEMMA PartAgain ==
    ASSUME NEW Typ, NEW raw \in Seq(Typ), NEW p \in Seq(Typ), NEW a \in Nat, Len(p) >= 1,
           a + Len(p) <= Len(raw), \A l \in 1..Len(p) : raw[a + l] = p[l]
    PROVE  <<raw[a + 1]>> \o SubSeq(raw, a + 2, a + Len(p)) \o <<>> = p
<1> DEFINE m == Len(p)
           x == raw[a + 1]
           rest == SubSeq(raw, a + 2, a + m)
           s == <<x>> \o rest
<1>1. m \in Nat /\ m >= 1 /\ Len(raw) \in Nat /\ a + m <= Len(raw)
  BY LenProperties
<1>2. \A i \in a + 2..a + m : raw[i] \in Typ
  <2> TAKE i \in a + 2..a + m
  <2>1. i \in 1..Len(raw)
    BY <1>1
  <2> QED BY <2>1, ElementOfSeq
<1>3. x \in Typ /\ x = p[1]
  <2>1. 1 \in 1..m /\ a + 1 \in 1..Len(raw)
    BY <1>1
  <2> QED BY <2>1, ElementOfSeq
<1> HIDE DEF m, x
<1>4. /\ rest \in Seq(Typ)
      /\ Len(rest) = IF a + 2 <= a + m THEN (a + m) - (a + 2) + 1 ELSE 0
      /\ \A i \in 1..(a + m) - (a + 2) + 1 : rest[i] = raw[(a + 2) + i - 1]
  <2>1. a + 2 \in Int /\ a + m \in Int
    BY <1>1
  <2> QED BY <2>1, <1>2, SubSeqProperties
<1> HIDE DEF rest
<1>5. Len(rest) = m - 1 /\ m - 1 \in Nat
  BY <1>1, <1>4
<1>6. \A i \in 1..m - 1 : rest[i] = p[i + 1]
  <2> TAKE i \in 1..m - 1
  <2>1. i \in 1..(a + m) - (a + 2) + 1 /\ (a + 2) + i - 1 = a + (i + 1) /\ i + 1 \in 1..m
    BY <1>1
  <2>2. rest[i] = raw[a + (i + 1)]
    BY <2>1, <1>4
  <2> QED BY <2>1, <2>2 DEF m
<1>7. <<x>> \in Seq(Typ) /\ Len(<<x>>) = 1 /\ <<x>>[1] = x
  BY <1>3
<1>8. /\ s \in Seq(Typ) /\ Len(s) = 1 + (m - 1)
      /\ \A i \in 1..1 + (m - 1) : s[i] = IF i <= 1 THEN <<x>>[i] ELSE rest[i - 1]
  BY <1>4, <1>5, <1>7, ConcatProperties
<1> HIDE DEF s
<1>9. s = p
  <2>1. Len(s) = Len(p)
    BY <1>1, <1>8 DEF m
  <2>2. \A i \in 1..Len(s) : s[i] = p[i]
    <3> SUFFICES ASSUME NEW i \in 1..m PROVE s[i] = p[i]
      BY <1>1, <1>8
    <3>1. CASE i = 1
      BY <3>1, <1>1, <1>3, <1>7, <1>8
    <3>2. CASE i /= 1
      <4>1. ~(i <= 1) /\ i - 1 \in 1..m - 1 /\ (i - 1) + 1 = i /\ i \in 1..1 + (m - 1)
        BY <3>2, <1>1
      <4>2. s[i] = rest[i - 1]
        BY <4>1, <1>8
      <4>3. rest[i - 1] = p[i]
        BY <4>1, <1>6
      <4> QED BY <4>2, <4>3
    <3> QED BY <3>1, <3>2
  <2> QED BY <2>1, <2>2, <1>8, SeqEqual
<1>10. s \o <<>> = s
  BY <1>8, ConcatEmptySeq
<1> QED BY <1>9, <1>10 DEF s, rest, m, x

PlainDiff(files) == files \in Seq(DiffFile) /\ \A i \in DOMAIN files : Plain(files[i])

\* The first line of a file is its only marker.
LEMMA OneMark ==
    ASSUME NEW i \in Nat, NEW f \in DiffFile, Plain(f), NEW l \in 1..Len(Printed(i, f))
    PROVE  /\ l = 1 => Printed(i, f)[l].is \in FirstLines
           /\ Printed(i, f)[l].is \in Marks => l = 1
<1> DEFINE h == Len(GitHeader(f))
           n == Len(f.lines)
           s == Printed(i, f)
<1>1. /\ h \in Nat /\ h >= 1 /\ n \in Nat /\ Len(s) = h + n
      /\ \A j \in 1..h : s[j].is = GitHeader(f)[j]
      /\ \A j \in 1..Len(s) : j > h => j - h \in 1..n /\ s[j].is = f.lines[j - h]
      /\ \A j \in 1..n : f.lines[j] \in Hunk
  BY PrintedIs
<1>2. /\ GitHeader(f) \in Seq(HeaderLines)
      /\ GitHeader(f)[1] \in FirstLines
      /\ \A j \in 2..h : GitHeader(f)[j] \notin FirstLines
  BY GitHeaderIs
<1>3. \A j \in 1..h : GitHeader(f)[j] \in HeaderLines
  BY <1>2, ElementOfSeq
<1>4. DOMAIN f.lines = 1..n
  BY LenProperties DEF DiffFile
<1> HIDE DEF h, n, s
<1>5. ASSUME l = 1 PROVE s[l].is \in FirstLines
  BY <1>1, <1>2, <1>5
<1>6. ASSUME l /= 1 PROVE s[l].is \notin Marks
  <2>1. CASE l <= h
    <3>1. l \in 1..h /\ l \in 2..h
      BY <1>1, <1>6, <2>1
    <3>2. s[l].is \in HeaderLines /\ s[l].is \notin FirstLines
      BY <3>1, <1>1, <1>2, <1>3
    <3> QED BY <3>2 DEF HeaderLines, FirstLines, Marks
  <2>2. CASE l > h
    <3>0. l \in 1..Len(s)
      BY DEF s
    <3>1. l - h \in 1..n /\ s[l].is = f.lines[l - h]
      BY <3>0, <1>1, <2>2
    <3>2. f.lines[l - h] \in Hunk /\ f.lines[l - h] \notin {"mark", "markPaths"}
      BY <3>1, <1>1, <1>4 DEF Plain
    <3> QED BY <3>1, <3>2 DEF Hunk, Added, Deleted, Marks
  <2>3. l \in Nat
    BY DEF s
  <2> QED BY <1>1, <2>1, <2>2, <2>3
<1> QED BY <1>5, <1>6 DEF s

----------------------------------------------------------------------------
(* The diff is cut into its files *)

Prints(files) == [i \in DOMAIN files |-> Printed(i, files[i])]

LEMMA PrintsAre ==
    ASSUME NEW files \in Seq(DiffFile)
    PROVE  /\ Prints(files) \in Seq(Seq(DiffLine)) /\ Len(Prints(files)) = Len(files) /\ Len(files) \in Nat
           /\ DOMAIN files = 1..Len(files)
           /\ \A i \in 1..Len(files) : /\ files[i] \in DiffFile /\ Prints(files)[i] = Printed(i, files[i])
                                       /\ Printed(i, files[i]) \in Seq(DiffLine)
                                       /\ Len(Printed(i, files[i])) \in Nat /\ Len(Printed(i, files[i])) >= 1
<1> DEFINE n == Len(files)
           P == Prints(files)
<1>1. DOMAIN files = 1..n /\ n \in Nat /\ \A i \in 1..n : files[i] \in DiffFile
  BY LenProperties, ElementOfSeq
<1> HIDE DEF n
<1>2. ASSUME NEW i \in 1..n
      PROVE  /\ Printed(i, files[i]) \in Seq(DiffLine)
             /\ Len(Printed(i, files[i])) \in Nat /\ Len(Printed(i, files[i])) >= 1
  <2>0. files[i] \in DiffFile /\ i \in Nat
    BY <1>1
  <2> DEFINE s == Printed(i, files[i])  h == Len(GitHeader(files[i]))  m == Len(files[i].lines)
  <2>1. s \in Seq(DiffLine) /\ Len(s) = h + m /\ h \in Nat /\ h >= 1 /\ m \in Nat
    BY <2>0, PrintedIs, Zenon
  <2> HIDE DEF s, h, m
  <2>2. Len(s) \in Nat /\ Len(s) >= 1
    BY <2>1
  <2> QED BY <2>1, <2>2 DEF s
<1>3. P = [i \in 1..n |-> Printed(i, files[i])]
  BY <1>1 DEF Prints
<1> HIDE DEF P
<1>4. \A i \in 1..n : P[i] = Printed(i, files[i])
  BY <1>3
<1>5. P \in Seq(Seq(DiffLine)) /\ Len(P) = n
  BY <1>1, <1>2, <1>3
<1> QED BY <1>1, <1>2, <1>4, <1>5 DEF n, P

\* A diff whose code has no marker is cut into its files.
LEMMA SectionsAre ==
    ASSUME NEW files, PlainDiff(files)
    PROVE  SplitDiffSections(RawDiff(files)) = [k \in 1..Len(files) |-> Printed(k, files[k])]
<1> DEFINE n == Len(files)
           P == Prints(files)
           raw == RawDiff(files)
<1>1. /\ P \in Seq(Seq(DiffLine)) /\ Len(P) = n /\ n \in Nat
      /\ \A i \in 1..n : /\ files[i] \in DiffFile /\ P[i] = Printed(i, files[i]) /\ P[i] \in Seq(DiffLine)
                         /\ Len(P[i]) \in Nat /\ Len(P[i]) >= 1 /\ Plain(files[i])
  BY PrintsAre DEF PlainDiff
<1>2. raw = FlattenSeq(P)
  BY DEF RawDiff, Prints
<1> HIDE DEF n, P, raw
<1>3. raw \in Seq(DiffLine) /\ \E off : Cuts(off, P, raw)
  BY <1>1, <1>2, Flattened, Zenon
<1>4. PICK off : Cuts(off, P, raw)
  BY <1>3
<1>5. /\ off[0] = 0 /\ Len(raw) = off[n] /\ (\A i \in 0..n : off[i] \in Nat)
      /\ \A i \in 1..n : off[i] = off[i - 1] + Len(P[i])
      /\ \A i \in 1..n : \A l \in 1..Len(P[i]) : raw[off[i - 1] + l] = P[i][l]
  BY <1>1, <1>4, Zenon DEF Cuts
<1>6. /\ \A i, j \in 0..n : i <= j => off[i] <= off[j]
      /\ \A q \in 1..Len(raw) : \E i \in 1..n : \E l \in 1..Len(P[i]) : q = off[i - 1] + l
  <2>1. /\ \A i, j \in 0..Len(P) : i <= j => off[i] <= off[j]
        /\ \A q \in 1..Len(raw) : InParts(off, P, q)
    <3>1. P \in Seq(Seq(DiffLine))
      BY <1>1
    <3> QED BY <3>1, <1>4, CutsCover, SMTT(30)
  <2>2. Len(P) = n
    BY <1>1
  <2> QED BY <2>1, <2>2, Zenon DEF InParts
<1>7. Len(raw) \in Nat /\ DOMAIN raw = 1..Len(raw) /\ \A q \in 1..Len(raw) : raw[q] \in DiffLine
  BY <1>3, LenProperties, ElementOfSeq
<1> DEFINE marks == {l \in DOMAIN raw : raw[l].is \in Marks}
           first == [k \in 1..n |-> off[k - 1] + 1]
<1>8. \A i \in 1..n : /\ first[i] = off[i - 1] + 1 /\ off[i - 1] \in Nat /\ off[i] \in Nat /\ off[i] <= Len(raw)
                      /\ off[i] = off[i - 1] + Len(P[i])
  <2> TAKE i \in 1..n
  <2>1. i - 1 \in 0..n /\ i \in 0..n /\ n \in 0..n /\ i <= n
    BY <1>1
  <2> QED BY <2>1, <1>5, <1>6
<1> HIDE DEF first
<1>9. \A i \in 1..n : first[i] \in 1..Len(raw) /\ raw[first[i]].is \in FirstLines
  <2> TAKE i \in 1..n
  <2>1. 1 \in 1..Len(P[i]) /\ first[i] \in 1..Len(raw)
    <3>1. Len(P[i]) \in Nat /\ Len(P[i]) >= 1
      BY <1>1
    <3>2. Len(raw) \in Nat
      BY <1>7
    <3> QED BY <3>1, <3>2, <1>8
  <2>2. raw[first[i]] = P[i][1]
    BY <2>1, <1>5, <1>8
  <2>3. P[i][1].is \in FirstLines
    <3>1. i \in Nat /\ files[i] \in DiffFile /\ Plain(files[i]) /\ 1 \in 1..Len(Printed(i, files[i]))
      BY <1>1, <2>1
    <3> QED BY <3>1, <1>1, OneMark, Zenon
  <2> QED BY <2>1, <2>2, <2>3
<1>10. \A q \in 1..Len(raw) : raw[q].is \in Marks => \E i \in 1..n : first[i] = q
  <2> SUFFICES ASSUME NEW q \in 1..Len(raw), raw[q].is \in Marks PROVE \E i \in 1..n : first[i] = q
    OBVIOUS
  <2>1. PICK i \in 1..n : \E l \in 1..Len(P[i]) : q = off[i - 1] + l
    BY <1>6
  <2>2. PICK l \in 1..Len(P[i]) : q = off[i - 1] + l
    BY <2>1
  <2>3. raw[q] = P[i][l]
    BY <1>5, <2>2
  <2>4. l = 1
    <3>1. i \in Nat /\ files[i] \in DiffFile /\ Plain(files[i]) /\ l \in 1..Len(Printed(i, files[i]))
          /\ Printed(i, files[i])[l].is \in Marks
      BY <1>1, <2>3
    <3> QED BY <3>1, OneMark, Zenon
  <2> QED BY <2>2, <2>4, <1>8
<1>11. \A i, j \in 1..n : i < j => first[i] < first[j]
  <2> SUFFICES ASSUME NEW i \in 1..n, NEW j \in 1..n, i < j PROVE first[i] < first[j]
    OBVIOUS
  <2>1. i \in 0..n /\ j - 1 \in 0..n /\ i <= j - 1
    BY <1>1
  <2>2. off[i] <= off[j - 1]
    BY <2>1, <1>6
  <2>3. off[i - 1] < off[i] /\ first[i] = off[i - 1] + 1 /\ off[i - 1] \in Nat /\ off[i] \in Nat
    BY <1>1, <1>8
  <2>4. first[j] = off[j - 1] + 1 /\ off[j - 1] \in Nat
    BY <1>8
  <2> QED BY <2>2, <2>3, <2>4
<1>12. /\ marks \in SUBSET Nat /\ (\A k \in 1..n : first[k] \in marks)
       /\ \A t \in marks : \E k \in 1..n : first[k] = t
  <2>1. marks \in SUBSET Nat
    BY <1>7
  <2>2. \A k \in 1..n : first[k] \in marks
    <3> TAKE k \in 1..n
    <3>1. first[k] \in 1..Len(raw) /\ raw[first[k]].is \in Marks
      BY <1>9 DEF FirstLines, Marks
    <3> QED BY <3>1, <1>7
  <2>3. \A t \in marks : \E k \in 1..n : first[k] = t
    BY <1>7, <1>10
  <2> QED BY <2>1, <2>2, <2>3
<1>19. SplitDiffSections(raw) =
         LET cut(k) ==
               LET begin == Nth(marks, k)
                   next  == IF k < Cardinality(marks) THEN Nth(marks, k + 1) ELSE Len(raw) + 1
               IN  <<From(raw[begin])>> \o SubSeq(raw, begin + 1, next - 1)
                     \o (IF next \in marks THEN Before(raw[next]) ELSE <<>>)
         IN  [k \in 1..Cardinality(marks) |-> cut(k)]
  BY DEF SplitDiffSections
<1> DEFINE next(k) == IF k < Cardinality(marks) THEN Nth(marks, k + 1) ELSE Len(raw) + 1
           cut(k) == <<From(raw[Nth(marks, k)])>> \o SubSeq(raw, Nth(marks, k) + 1, next(k) - 1)
                     \o (IF next(k) \in marks THEN Before(raw[next(k)]) ELSE <<>>)
<1>20. SplitDiffSections(raw) = [k \in 1..Cardinality(marks) |-> cut(k)]
  BY <1>19
<1>23. \A q \in marks : raw[q].is \in FirstLines
  BY <1>9, <1>12
<1> HIDE DEF marks
<1>13. Cardinality(marks) = n /\ \A k \in 1..n : Nth(marks, k) = first[k]
  <2>1. n \in Nat /\ marks \in SUBSET Nat
    BY <1>1, <1>12
  <2>2. \A k \in 1..n : first[k] \in marks
    BY <1>12
  <2>3. \A t \in marks : \E k \in 1..n : first[k] = t
    BY <1>12
  <2> QED BY <2>1, <2>2, <2>3, <1>11, Enumerated, ZenonT(40)
<1>21. \A k \in 1..n : next(k) = off[k] + 1
  <2> TAKE k \in 1..n
  <2>1. CASE k < n
    <3>1. k + 1 \in 1..n /\ (k + 1) - 1 = k
      BY <2>1, <1>1
    <3> QED BY <3>1, <2>1, <1>8, <1>13
  <2>2. CASE ~(k < n)
    <3>1. k = n
      BY <2>2, <1>1
    <3> QED BY <3>1, <1>5, <1>13
  <2> QED BY <2>1, <2>2
<1>22. \A k \in 1..n : cut(k) = P[k]
  <2> TAKE k \in 1..n
  <2> DEFINE a == off[k - 1]
  <2>1. a \in Nat /\ Len(P[k]) \in Nat /\ Len(P[k]) >= 1 /\ a + Len(P[k]) = off[k] /\ off[k] <= Len(raw)
        /\ first[k] = a + 1
    BY <1>1, <1>8
  <2>2. \A l \in 1..Len(P[k]) : raw[a + l] = P[k][l]
    BY <1>5
  <2>5. P[k] \in Seq(DiffLine)
    BY <1>1
  <2> HIDE DEF a
  <2>3. <<raw[a + 1]>> \o SubSeq(raw, a + 2, a + Len(P[k])) \o <<>> = P[k]
    <3>1. a + Len(P[k]) <= Len(raw)
      BY <2>1
    <3> QED BY <3>1, <2>1, <2>2, <2>5, <1>3, PartAgain, Zenon
  <2>4. Nth(marks, k) = a + 1 /\ next(k) = a + Len(P[k]) + 1
    BY <2>1, <1>13, <1>21
  <2> HIDE DEF next
  <2>6. (a + 1) + 1 = a + 2 /\ (a + Len(P[k]) + 1) - 1 = a + Len(P[k])
    BY <2>1
  <2>7. From(raw[a + 1]) = raw[a + 1]
    <3>1. raw[a + 1].is \in FirstLines
      BY <1>9, <2>1
    <3> QED BY <3>1 DEF From, FirstLines
  <2>8. next(k) \in marks => Before(raw[next(k)]) = <<>>
    <3> SUFFICES ASSUME next(k) \in marks PROVE Before(raw[next(k)]) = <<>>
      OBVIOUS
    <3>1. raw[next(k)].is \in FirstLines
      BY <1>23
    <3> QED BY <3>1 DEF Before, FirstLines
  <2>9. (IF next(k) \in marks THEN Before(raw[next(k)]) ELSE <<>>) = <<>>
    BY <2>8
  <2>10. SubSeq(raw, Nth(marks, k) + 1, next(k) - 1) = SubSeq(raw, a + 2, a + Len(P[k]))
    BY <2>4, <2>6, Zenon
  <2> QED BY <2>3, <2>4, <2>7, <2>9, <2>10, Zenon
<1> HIDE DEF cut
<1>24. \A k \in 1..n : P[k] = Printed(k, files[k])
  BY <1>1
<1>25. SplitDiffSections(raw) = [k \in 1..n |-> Printed(k, files[k])]
  BY <1>13, <1>20, <1>22, <1>24
<1> QED BY <1>25 DEF n, raw

----------------------------------------------------------------------------
(* A file is parsed and shown *)

\* A kind of line is one of a header or one of a hunk.
LEMMA KindsDiffer ==
    /\ \A is \in Hunk : is \notin HeaderLines /\ is \notin Headers
    /\ \A is \in HeaderLines : is \in Headers
    /\ "renameTo" \in HeaderLines /\ "newFile" \in HeaderLines /\ "deletedFile" \in HeaderLines
    /\ "+" \notin HeaderLines /\ "-" \notin HeaderLines
BY DEF Hunk, Added, Deleted, HeaderLines, FirstLines, Headers

\* Where the lines of some kinds are, in the hunks and in the file as it is printed.
InHunks(f, K) == {l \in DOMAIN f.lines : f.lines[l] \in K}
InPrint(i, f, K) == {l \in DOMAIN Printed(i, f) : Printed(i, f)[l].is \in K}

\* The lines of some kinds of a hunk come in the same order in the file as it is printed.
LEMMA Moved ==
    ASSUME NEW i \in Nat, NEW f \in DiffFile, NEW K \in SUBSET Hunk
    PROVE  LET T == InHunks(f, K)  U == InPrint(i, f, K) IN
           /\ T \in SUBSET Nat /\ IsFiniteSet(T) /\ Cardinality(T) \in Nat
           /\ U \in SUBSET Nat /\ IsFiniteSet(U) /\ Cardinality(U) = Cardinality(T)
           /\ \A k \in 1..Cardinality(T) : /\ Nth(T, k) \in DOMAIN f.lines /\ Nth(U, k) \in DOMAIN Printed(i, f)
                                           /\ Printed(i, f)[Nth(U, k)].is = f.lines[Nth(T, k)]
<1> DEFINE h == Len(GitHeader(f))
           n == Len(f.lines)
           s == Printed(i, f)
           T == InHunks(f, K)
           U == InPrint(i, f, K)
<1>0. \A is \in HeaderLines : is \notin K
  BY KindsDiffer
<1>1. /\ s \in Seq(DiffLine) /\ h \in Nat /\ h >= 1 /\ n \in Nat /\ Len(s) = h + n
      /\ \A j \in 1..h : s[j].is = GitHeader(f)[j]
      /\ \A j \in 1..n : s[h + j].is = f.lines[j] /\ f.lines[j] \in Hunk
      /\ \A j \in 1..Len(s) : j > h => j - h \in 1..n /\ s[j].is = f.lines[j - h]
  BY PrintedIs
<1>2. GitHeader(f) \in Seq(HeaderLines)
  BY GitHeaderIs
<1>3. \A j \in 1..h : s[j].is \in HeaderLines
  BY <1>1, <1>2, ElementOfSeq
<1>4. DOMAIN f.lines = 1..n /\ DOMAIN s = 1..Len(s)
  BY <1>1, LenProperties DEF DiffFile
<1> HIDE DEF h, n, s
<1>10. /\ \A l : l \in T <=> l \in 1..n /\ f.lines[l] \in K
       /\ \A l : l \in U <=> l \in 1..Len(s) /\ s[l].is \in K
  BY <1>4 DEF InHunks, InPrint, s
<1> HIDE DEF T, U
<1>5. T \in SUBSET Nat /\ IsFiniteSet(T) /\ U \in SUBSET Nat /\ U \subseteq 1..Len(s)
  <2>1. T \in SUBSET (1..n)
    BY <1>10
  <2>2. U \in SUBSET (1..Len(s))
    BY <1>10
  <2>3. IsFiniteSet(1..n)
    BY <1>1, FS_Interval
  <2>4. IsFiniteSet(T)
    BY <2>1, <2>3, FS_Subset
  <2> QED BY <2>1, <2>2, <2>4
<1>6. \A u \in Nat : u \in U <=> u - h \in T
  <2> TAKE u \in Nat
  <2>1. ASSUME u \in U PROVE u - h \in T
    <3>1. u \in 1..Len(s) /\ s[u].is \in K
      BY <1>10, <2>1
    <3>2. u > h
      BY <3>1, <1>0, <1>1, <1>3
    <3> QED BY <3>1, <3>2, <1>1, <1>10
  <2>2. ASSUME u - h \in T PROVE u \in U
    <3>1. u - h \in 1..n /\ f.lines[u - h] \in K
      BY <1>10, <2>2
    <3>2. h + (u - h) = u /\ u \in 1..Len(s)
      BY <3>1, <1>1
    <3>3. s[u].is = f.lines[u - h]
      BY <3>1, <3>2, <1>1
    <3> QED BY <3>1, <3>2, <3>3, <1>10
  <2> QED BY <2>1, <2>2
<1>7. /\ IsFiniteSet(U) /\ Cardinality(U) = Cardinality(T)
      /\ \A k \in 1..Cardinality(T) : Nth(U, k) = h + Nth(T, k)
  <2>1. h \in Nat
    BY <1>1
  <2>2. T \in SUBSET Nat /\ IsFiniteSet(T)
    BY <1>5
  <2>3. U \in SUBSET Nat
    BY <1>5
  <2> QED BY <2>1, <2>2, <2>3, <1>6, Shifted, ZenonT(40)
<1>8. Cardinality(T) \in Nat /\ \A k \in 1..Cardinality(T) : Nth(T, k) \in T
  BY <1>5, Places
<1>9. \A k \in 1..Cardinality(T) : /\ Nth(T, k) \in DOMAIN f.lines /\ Nth(U, k) \in DOMAIN s
                                   /\ s[Nth(U, k)].is = f.lines[Nth(T, k)]
  <2> TAKE k \in 1..Cardinality(T)
  <2>1. Nth(T, k) \in 1..n /\ Nth(U, k) = h + Nth(T, k)
    BY <1>7, <1>8, <1>10
  <2>2. h + Nth(T, k) \in 1..Len(s)
    BY <2>1, <1>1
  <2> QED BY <2>1, <2>2, <1>1, <1>4
<1> QED BY <1>5, <1>7, <1>8, <1>9 DEF s, T, U

\* The files whose path is read, rightly or not.
Kept(f) == f.quoted => f.change = "renamed" \/ f.spaced

\* What parseOneFile makes of the file.
ParsedFile(i, f) ==
    [path    |-> IF Kept(f) THEN <<i>> ELSE <<>>,
     misread |-> f.spaced /\ f.change /= "renamed",
     change  |-> f.change,
     added   |-> Lines(f, "+"),
     deleted |-> Lines(f, "-"),
     diff    |-> Printed(i, f)]

LEMMA HoldsIs ==
    ASSUME NEW i \in Nat, NEW f \in DiffFile
    PROVE  /\ Holds(Printed(i, f), "renameTo") <=> f.change = "renamed"
           /\ Holds(Printed(i, f), "newFile") <=> f.change = "added"
           /\ Holds(Printed(i, f), "deletedFile") <=> f.change = "deleted"
<1> DEFINE g == GitHeader(f)
           h == Len(g)
           n == Len(f.lines)
           s == Printed(i, f)
<1>1. /\ s \in Seq(DiffLine) /\ h \in Nat /\ h >= 1 /\ n \in Nat /\ Len(s) = h + n
      /\ \A j \in 1..h : s[j].is = g[j]
      /\ \A j \in 1..n : s[h + j].is = f.lines[j] /\ f.lines[j] \in Hunk
      /\ \A j \in 1..Len(s) : j > h => j - h \in 1..n /\ s[j].is = f.lines[j - h]
  BY PrintedIs
<1>2. /\ (\E l \in 1..h : g[l] = "renameTo") <=> f.change = "renamed"
      /\ (\E l \in 1..h : g[l] = "newFile") <=> f.change = "added"
      /\ (\E l \in 1..h : g[l] = "deletedFile") <=> f.change = "deleted"
  BY GitHeaderIs
<1>4. DOMAIN s = 1..Len(s)
  BY <1>1, LenProperties
<1> HIDE DEF h, n, s, g
<1>5. ASSUME NEW is \in HeaderLines PROVE Holds(s, is) <=> \E l \in 1..h : g[l] = is
  <2>1. ASSUME Holds(s, is) PROVE \E l \in 1..h : g[l] = is
    <3>1. PICK j \in 1..Len(s) : s[j].is = is
      BY <1>4, <2>1 DEF Holds
    <3>2. ~(j > h)
      BY <3>1, <1>1, KindsDiffer
    <3>3. j \in 1..h
      BY <3>2, <1>1
    <3> QED BY <3>1, <3>3, <1>1
  <2>2. ASSUME NEW l \in 1..h, g[l] = is PROVE Holds(s, is)
    <3>1. l \in 1..Len(s)
      BY <1>1
    <3> QED BY <3>1, <2>2, <1>1, <1>4 DEF Holds
  <2> QED BY <2>1, <2>2
<1> QED BY <1>2, <1>5, KindsDiffer DEF s

LEMMA ParsedIs ==
    ASSUME NEW i \in Nat, NEW f \in DiffFile
    PROVE  ParseOneFile(Printed(i, f)) = ParsedFile(i, f)
<1> DEFINE s == Printed(i, f)
           h == Len(GitHeader(f))
<1>1. s[1].file = i /\ s[1].is = MarkOf(f)
  <2>1. /\ h \in Nat /\ h >= 1 /\ Len(f.lines) \in Nat /\ Len(s) = h + Len(f.lines)
        /\ \A j \in 1..h : s[j].is = GitHeader(f)[j]
        /\ \A j \in 1..Len(s) : s[j].file = i
    BY PrintedIs
  <2>2. GitHeader(f)[1] = MarkOf(f)
    BY GitHeaderIs
  <2> HIDE DEF s, h
  <2>3. 1 \in 1..h /\ 1 \in 1..Len(s)
    BY <2>1
  <2> QED BY <2>1, <2>2, <2>3
<1>2. /\ f.change \in {"modified", "added", "deleted", "renamed"}
      /\ f.quoted \in BOOLEAN /\ f.spaced \in BOOLEAN
  BY DEF DiffFile
<1>3. ASSUME NEW kind \in Hunk PROVE Count(s, {kind}) = Lines(f, kind)
  <2>0. {kind} \in SUBSET Hunk
    OBVIOUS
  <2>1. Cardinality(InPrint(i, f, {kind})) = Cardinality(InHunks(f, {kind}))
    BY <2>0, Moved
  <2>2. InHunks(f, {kind}) = {l \in DOMAIN f.lines : f.lines[l] = kind}
    BY DEF InHunks
  <2>3. InPrint(i, f, {kind}) = {l \in DOMAIN s : s[l].is \in {kind}}
    BY DEF InPrint
  <2> QED BY <2>1, <2>2, <2>3, Zenon DEF Count, Lines
<1>4. Count(s, {"+"}) = Lines(f, "+") /\ Count(s, {"-"}) = Lines(f, "-")
  BY <1>3 DEF Hunk, Added, Deleted
<1>5. /\ Holds(s, "renameTo") <=> f.change = "renamed"
      /\ Holds(s, "newFile") <=> f.change = "added"
      /\ Holds(s, "deletedFile") <=> f.change = "deleted"
  BY HoldsIs
<1> HIDE DEF s
<1>6. (IF Holds(s, "renameTo") THEN <<s[1].file>> ELSE HeaderPath(s[1]))
         = IF Kept(f) THEN <<i>> ELSE <<>>
  BY <1>1, <1>2, <1>5 DEF HeaderPath, MarkOf, Kept
<1>8. (s[1].is = "diffSpaced" /\ ~Holds(s, "renameTo")) = (f.spaced /\ f.change /= "renamed")
  BY <1>1, <1>2, <1>5 DEF MarkOf
<1>7. (CASE Holds(s, "renameTo") -> "renamed"
         [] Holds(s, "newFile") -> "added"
         [] Holds(s, "deletedFile") -> "deleted"
         [] OTHER -> "modified") = f.change
  BY <1>2, <1>5
<1> QED BY <1>4, <1>6, <1>7, <1>8, Zenon DEF ParseOneFile, Parsed, ParsedFile, s

\* A file in diff.md: its lines without the headers of git.
LEMMA StripIs ==
    ASSUME NEW i \in Nat, NEW f \in DiffFile
    PROVE  LET shown == StripDiffHeaders(Printed(i, f)) IN
           /\ [l \in DOMAIN shown |-> shown[l].is] = Visible(f)
           /\ \A l \in DOMAIN shown : shown[l].file = i
<1> DEFINE s == Printed(i, f)
           K == Hunk \ {"++", "--"}
           T == {l \in DOMAIN f.lines : f.lines[l] \notin {"++", "--"}}
           U == {l \in DOMAIN s : s[l].is \notin Headers \cup {"++", "--"}}
           shown == StripDiffHeaders(s)
<1>1. /\ s \in Seq(DiffLine)
      /\ \A j \in 1..Len(s) : s[j].file = i
  BY PrintedIs
<1>2. DOMAIN s = 1..Len(s) /\ \A j \in DOMAIN s : s[j].is \in HeaderLines \cup Hunk
  <2>1. DOMAIN s = 1..Len(s) /\ \A j \in 1..Len(s) : s[j] \in DiffLine
    BY <1>1, LenProperties, ElementOfSeq
  <2> HIDE DEF s
  <2> QED BY <2>1 DEF DiffLine, LineKinds
<1>3. \A j \in DOMAIN f.lines : f.lines[j] \in Hunk
  BY LenProperties, ElementOfSeq DEF DiffFile
<1>4. T = InHunks(f, K)
  BY <1>3 DEF InHunks
<1>5. U = InPrint(i, f, K)
  <2>1. InPrint(i, f, K) = {l \in DOMAIN s : s[l].is \in K}
    BY DEF InPrint
  <2> HIDE DEF s
  <2> QED BY <2>1, <1>2, KindsDiffer
<1>6. K \in SUBSET Hunk
  OBVIOUS
<1> HIDE DEF K, T, U
<1>7. /\ Cardinality(U) = Cardinality(T)
      /\ \A k \in 1..Cardinality(T) : Nth(U, k) \in DOMAIN s /\ s[Nth(U, k)].is = f.lines[Nth(T, k)]
  BY <1>4, <1>5, <1>6, Moved DEF s
<1> HIDE DEF s
<1>8. shown = [k \in 1..Cardinality(U) |-> s[Nth(U, k)]]
  BY DEF StripDiffHeaders, Only, U
<1>9. Visible(f) = [k \in 1..Cardinality(T) |-> f.lines[Nth(T, k)]]
  BY DEF Visible, Only, T
<1> HIDE DEF shown
<1>10. DOMAIN shown = 1..Cardinality(T) /\ \A k \in 1..Cardinality(T) : shown[k] = s[Nth(U, k)]
  BY <1>7, <1>8
<1>11. [l \in DOMAIN shown |-> shown[l].is] = Visible(f)
  BY <1>7, <1>9, <1>10
<1>12. \A l \in DOMAIN shown : shown[l].file = i
  BY <1>1, <1>2, <1>7, <1>10
<1> QED BY <1>11, <1>12 DEF shown, s

----------------------------------------------------------------------------
(* Lists of the files of the diff *)

\* The files of a set, as they are parsed, in the order of the diff.
ListOf(files, S) == [j \in 1..Cardinality(S) |-> ParsedFile(Nth(S, j), files[Nth(S, j)])]

Group(f) == IF f.quoted THEN "code" ELSE f.class

\* What Only takes from a list of a set is the list of a part of the set.
LEMMA OnlyListed ==
    ASSUME NEW files, NEW S \in SUBSET Nat, IsFiniteSet(S), NEW J \in SUBSET (1..Cardinality(S)),
           NEW R \in SUBSET S, \A j \in 1..Cardinality(S) : j \in J <=> Nth(S, j) \in R
    PROVE  Only(ListOf(files, S), J) = ListOf(files, R) /\ IsFiniteSet(R)
<1> DEFINE n == Cardinality(S)
           A == ListOf(files, S)
           m == Cardinality(J)
           g == [t \in 1..m |-> Nth(S, Nth(J, t))]
<1>1. /\ n \in Nat /\ \A k \in 1..n : Nth(S, k) \in S
      /\ \A j, k \in 1..n : j < k => Nth(S, j) < Nth(S, k)
      /\ \A t \in S : \E k \in 1..n : Nth(S, k) = t
  BY Places
<1>2. J \in SUBSET Nat /\ IsFiniteSet(J)
  <2>1. IsFiniteSet(1..n) /\ J \in SUBSET (1..n)
    BY <1>1, FS_Interval
  <2>2. J \in SUBSET Nat
    BY <1>1
  <2> HIDE DEF n
  <2> QED BY <2>1, <2>2, FS_Subset
<1>3. /\ m \in Nat /\ \A k \in 1..m : Nth(J, k) \in J
      /\ \A j, k \in 1..m : j < k => Nth(J, j) < Nth(J, k)
      /\ \A t \in J : \E k \in 1..m : Nth(J, k) = t
  BY <1>2, Places
<1>4. J \in SUBSET (1..n) /\ \A j \in 1..n : j \in J <=> Nth(S, j) \in R
  OBVIOUS
<1> HIDE DEF n, A, m
<1>5. \A t \in 1..m : g[t] = Nth(S, Nth(J, t)) /\ Nth(J, t) \in 1..n /\ Nth(J, t) \in J
  BY <1>3, <1>4
<1> HIDE DEF g
<1>6. \A t \in 1..m : g[t] \in R
  BY <1>4, <1>5
<1>7. \A r \in R : \E t \in 1..m : g[t] = r
  <2> TAKE r \in R
  <2>1. PICK j \in 1..n : Nth(S, j) = r
    BY <1>1
  <2>2. PICK t \in 1..m : Nth(J, t) = j
    BY <2>1, <1>3, <1>4
  <2> QED BY <2>1, <2>2, <1>5
<1>8. \A t, u \in 1..m : t < u => g[t] < g[u]
  BY <1>1, <1>3, <1>5
<1>9. IsFiniteSet(R) /\ Cardinality(R) = m /\ \A k \in 1..m : Nth(R, k) = g[k]
  <2>1. m \in Nat /\ R \in SUBSET Nat
    BY <1>3
  <2> QED BY <2>1, <1>6, <1>7, <1>8, Enumerated, SMTT(40)
<1>10. Only(A, J) = [k \in 1..m |-> A[Nth(J, k)]]
  BY DEF Only, m
<1>11. \A j \in 1..n : A[j] = ParsedFile(Nth(S, j), files[Nth(S, j)])
  BY DEF A, ListOf, n
<1>12. \A k \in 1..m : A[Nth(J, k)] = ParsedFile(Nth(R, k), files[Nth(R, k)])
  BY <1>5, <1>9, <1>11
<1>13. ListOf(files, R) = [k \in 1..m |-> ParsedFile(Nth(R, k), files[Nth(R, k)])]
  BY <1>9 DEF ListOf
<1> QED BY <1>9, <1>10, <1>12, <1>13 DEF A

\* The whole diff is a list of its files.
LEMMA AllListed ==
    ASSUME NEW files, NEW n \in Nat
    PROVE  /\ ListOf(files, 1..n) = [k \in 1..n |-> ParsedFile(k, files[k])]
           /\ IsFiniteSet(1..n) /\ Cardinality(1..n) = n /\ \A k \in 1..n : Nth(1..n, k) = k
<1> DEFINE g == [k \in 1..n |-> k]
           T == 1..n
<1>1. T \in SUBSET Nat /\ (\A k \in T : g[k] \in T) /\ \A t \in T : \E k \in T : g[k] = t
  OBVIOUS
<1>2. \A j, k \in T : j < k => g[j] < g[k]
  OBVIOUS
<1>3. \A k \in T : g[k] = k
  OBVIOUS
<1> HIDE DEF g
<1>4. IsFiniteSet(T) /\ Cardinality(T) = n /\ \A k \in 1..n : Nth(T, k) = g[k]
  BY <1>1, <1>2, Enumerated, ZenonT(40)
<1>5. Cardinality(T) = n /\ \A k \in 1..n : Nth(T, k) = k
  BY <1>3, <1>4
<1> HIDE DEF T
<1>6. ListOf(files, T) = [k \in 1..n |-> ParsedFile(k, files[k])]
  BY <1>5 DEF ListOf
<1> QED BY <1>4, <1>5, <1>6 DEF T

LEMMA PathIs ==
    ASSUME NEW i \in Nat, NEW f \in DiffFile
    PROVE  /\ ParsedFile(i, f).path = (IF Kept(f) THEN <<i>> ELSE <<>>)
           /\ ParsedFile(i, f).change = f.change /\ ParsedFile(i, f).diff = Printed(i, f)
           /\ ParsedFile(i, f).misread = (f.spaced /\ f.change /= "renamed")
           /\ ParsedFile(i, f).added = Lines(f, "+") /\ ParsedFile(i, f).deleted = Lines(f, "-")
BY DEF ParsedFile

KeptOf(files) == {k \in 1..Len(files) : Kept(files[k])}

\* parseFiles keeps the files whose path it can read, in their order.
LEMMA ParseFilesIs ==
    ASSUME NEW files, PlainDiff(files)
    PROVE  ParseFiles(RawDiff(files)) = ListOf(files, KeptOf(files)) /\ IsFiniteSet(KeptOf(files))
<1> DEFINE n == Len(files)
           sections == SplitDiffSections(RawDiff(files))
           parsed == [i \in DOMAIN sections |-> ParseOneFile(sections[i])]
           J == {i \in DOMAIN parsed : parsed[i].path /= <<>>}
<1>1. n \in Nat /\ \A i \in 1..n : files[i] \in DiffFile /\ i \in Nat
  BY PrintsAre DEF PlainDiff
<1>2. sections = [k \in 1..n |-> Printed(k, files[k])]
  BY SectionsAre
<1>3. ParseFiles(RawDiff(files)) = Only(parsed, J)
  BY DEF ParseFiles
<1> HIDE DEF n, sections
<1>4. DOMAIN sections = 1..n /\ \A k \in 1..n : sections[k] = Printed(k, files[k])
  BY <1>2
<1>5. parsed = [k \in 1..n |-> ParsedFile(k, files[k])]
  <2>1. \A k \in 1..n : ParseOneFile(sections[k]) = ParsedFile(k, files[k])
    BY <1>1, <1>4, ParsedIs
  <2> QED BY <2>1, <1>4
<1>6. /\ parsed = ListOf(files, 1..n)
      /\ IsFiniteSet(1..n) /\ Cardinality(1..n) = n /\ \A k \in 1..n : Nth(1..n, k) = k
  BY <1>1, <1>5, AllListed
<1>7. DOMAIN parsed = 1..n /\ \A k \in 1..n : parsed[k].path = IF Kept(files[k]) THEN <<k>> ELSE <<>>
  BY <1>1, <1>5, PathIs
<1> HIDE DEF parsed
<1>8. J = KeptOf(files)
  <2>1. \A k \in 1..n : <<k>> /= <<>>
    OBVIOUS
  <2> QED BY <2>1, <1>7 DEF KeptOf, n
<1>9. J \in SUBSET (1..n)
  BY <1>7
<1> HIDE DEF J
<1>10. Only(ListOf(files, 1..n), J) = ListOf(files, J) /\ IsFiniteSet(J)
  <2> DEFINE S == 1..n
  <2>1. S \in SUBSET Nat /\ IsFiniteSet(S) /\ J \in SUBSET S
    BY <1>6, <1>9
  <2>2. J \in SUBSET (1..Cardinality(S)) /\ \A j \in 1..Cardinality(S) : j \in J <=> Nth(S, j) \in J
    BY <1>6, <1>9
  <2> HIDE DEF S
  <2>3. Only(ListOf(files, S), J) = ListOf(files, J) /\ IsFiniteSet(J)
    BY <2>1, <2>2, OnlyListed, ZenonT(40)
  <2> QED BY <2>3 DEF S
<1> QED BY <1>3, <1>6, <1>8, <1>10

----------------------------------------------------------------------------
(* The order of the files *)

LEMMA KeptAre ==
    ASSUME NEW files, PlainDiff(files), NEW k \in KeptOf(files)
    PROVE  /\ k \in 1..Len(files) /\ k \in Nat /\ k /= 0 /\ files[k] \in DiffFile /\ Kept(files[k])
           /\ Group(files[k]) \in ToSet(Classes)
           /\ ParsedFile(k, files[k]).path = <<k>>
<1>1. Len(files) \in Nat /\ \A i \in 1..Len(files) : files[i] \in DiffFile
  BY PrintsAre DEF PlainDiff
<1>2. k \in 1..Len(files) /\ k \in Nat /\ k /= 0 /\ files[k] \in DiffFile /\ Kept(files[k])
  BY <1>1 DEF KeptOf
<1>3. files[k].class \in ToSet(Classes) /\ "code" \in ToSet(Classes)
  BY <1>2 DEF DiffFile, ToSet, Classes
<1>4. Group(files[k]) \in ToSet(Classes)
  BY <1>3 DEF Group
<1>5. ParsedFile(k, files[k]).path = <<k>>
  BY <1>2, PathIs
<1> QED BY <1>2, <1>4, <1>5

\* The class of a parsed file is the one of the file in the diff.
LEMMA ClassIs ==
    ASSUME NEW files, PlainDiff(files), NEW k \in KeptOf(files)
    PROVE  ClassOf(files, ParsedFile(k, files[k])) = Group(files[k])
<1> DEFINE p == ParsedFile(k, files[k])
<1>1. p.path = <<k>> /\ k /= 0
  BY KeptAre
<1> HIDE DEF p
<1>2. p.path /= <<0>> /\ p.path[1] = k
  BY <1>1
<1> QED BY <1>2 DEF ClassOf, Group, p

LEMMA OfClassesIs ==
    ASSUME NEW files, PlainDiff(files), NEW S \in SUBSET KeptOf(files), IsFiniteSet(S), NEW C,
           NEW R \in SUBSET S, \A k \in S : k \in R <=> Group(files[k]) \in C
    PROVE  OfClasses(files, ListOf(files, S), C) = ListOf(files, R) /\ IsFiniteSet(R)
<1> DEFINE A == ListOf(files, S)
           n == Cardinality(S)
           J == {i \in DOMAIN A : ClassOf(files, A[i]) \in C}
<1>1. S \in SUBSET Nat
  BY KeptAre
<1>2. n \in Nat /\ \A k \in 1..n : Nth(S, k) \in S
  BY <1>1, Places
<1>3. OfClasses(files, A, C) = Only(A, J)
  BY DEF OfClasses
<1>4. DOMAIN A = 1..n /\ \A j \in 1..n : A[j] = ParsedFile(Nth(S, j), files[Nth(S, j)])
  BY DEF ListOf
<1> HIDE DEF A, n
<1>5. \A j \in 1..n : ClassOf(files, A[j]) = Group(files[Nth(S, j)])
  BY <1>2, <1>4, ClassIs
<1>6. \A j \in 1..n : j \in J <=> Nth(S, j) \in R
  BY <1>2, <1>4, <1>5
<1>7. J \in SUBSET (1..n) /\ R \in SUBSET S
  BY <1>4
<1> HIDE DEF J
<1>8. Only(ListOf(files, S), J) = ListOf(files, R) /\ IsFiniteSet(R)
  BY <1>1, <1>6, <1>7, OnlyListed DEF n
<1> QED BY <1>3, <1>8 DEF A

Rank(f) == CHOOSE c \in 1..5 : Classes[c] = Group(f)

LEMMA RankIs ==
    ASSUME NEW f, NEW c \in 1..5, Classes[c] = Group(f)
    PROVE  Rank(f) = c
<1>1. \A a, b \in 1..5 : Classes[a] = Classes[b] => a = b
  BY DEF Classes
<1> QED BY <1>1 DEF Rank

\* The files of the list `shown` are those of V, each once, by class and by place in the diff.
Ordered(files, V, shown, at) ==
    /\ Len(shown) \in Nat /\ DOMAIN shown = 1..Len(shown)
    /\ \A q \in DOMAIN shown : at[q] \in V /\ shown[q] = ParsedFile(at[q], files[at[q]])
    /\ \A k \in V : \E q \in DOMAIN shown : at[q] = k
    /\ \A q, r \in DOMAIN shown : q < r =>
          \/ Rank(files[at[q]]) < Rank(files[at[r]])
          \/ Rank(files[at[q]]) = Rank(files[at[r]]) /\ at[q] < at[r]

LEMMA Sorted ==
    ASSUME NEW files, PlainDiff(files), NEW V \in SUBSET KeptOf(files), IsFiniteSet(V),
           \A k \in V : \E c \in 1..5 : Group(files[k]) = Classes[c]
    PROVE  \E at : Ordered(files, V, SortFiles(files, ListOf(files, V)), at)
<1> DEFINE Of(c) == {k \in V : Group(files[k]) \in {Classes[c]}}
           P == [c \in 1..5 |-> OfClasses(files, ListOf(files, V), {Classes[c]})]
           Q == [c \in 1..5 |-> ListOf(files, Of(c))]
           Typ == {ParsedFile(k, files[k]) : k \in V}
           shown == SortFiles(files, ListOf(files, V))
<1>1. ASSUME NEW c \in 1..5
      PROVE  /\ OfClasses(files, ListOf(files, V), {Classes[c]}) = ListOf(files, Of(c))
             /\ IsFiniteSet(Of(c)) /\ Of(c) \in SUBSET Nat
  <2>1. V \in SUBSET Nat
    BY KeptAre
  <2>2. OfClasses(files, ListOf(files, V), {Classes[c]}) = ListOf(files, Of(c)) /\ IsFiniteSet(Of(c))
    <3> DEFINE R == Of(c)  C == {Classes[c]}
    <3>1. R \in SUBSET V /\ \A k \in V : k \in R <=> Group(files[k]) \in C
      OBVIOUS
    <3> HIDE DEF R, C
    <3>2. OfClasses(files, ListOf(files, V), C) = ListOf(files, R) /\ IsFiniteSet(R)
      BY <3>1, OfClassesIs
    <3> QED BY <3>2 DEF R, C
  <2> QED BY <2>1, <2>2
<1>2. P = Q
  BY <1>1
<1>3. shown = FlattenSeq(Q)
  BY <1>2 DEF SortFiles
<1>4. \A c \in 1..5 : \A k \in Of(c) : k \in V /\ Classes[c] = Group(files[k])
  OBVIOUS
<1>5. \A k \in V : \E c \in 1..5 : k \in Of(c)
  OBVIOUS
<1> HIDE DEF Of, P, shown
<1>6. \A c \in 1..5 : /\ Cardinality(Of(c)) \in Nat
                      /\ \A k \in 1..Cardinality(Of(c)) : Nth(Of(c), k) \in Of(c)
                      /\ \A j, k \in 1..Cardinality(Of(c)) : j < k => Nth(Of(c), j) < Nth(Of(c), k)
                      /\ \A t \in Of(c) : \E k \in 1..Cardinality(Of(c)) : Nth(Of(c), k) = t
  BY <1>1, Places
<1>7. \A c \in 1..5 : /\ Q[c] \in Seq(Typ) /\ Len(Q[c]) = Cardinality(Of(c))
                      /\ \A l \in 1..Len(Q[c]) : Q[c][l] = ParsedFile(Nth(Of(c), l), files[Nth(Of(c), l)])
  <2> TAKE c \in 1..5
  <2>1. Q[c] = [j \in 1..Cardinality(Of(c)) |-> ParsedFile(Nth(Of(c), j), files[Nth(Of(c), j)])]
    BY DEF ListOf
  <2>2. \A j \in 1..Cardinality(Of(c)) : ParsedFile(Nth(Of(c), j), files[Nth(Of(c), j)]) \in Typ
    BY <1>4, <1>6
  <2>3. Cardinality(Of(c)) \in Nat
    BY <1>6
  <2> HIDE DEF Q, Typ
  <2> QED BY <2>1, <2>2, <2>3
<1>8. Q \in Seq(Seq(Typ)) /\ Len(Q) = 5
  <2>1. Q = [c \in 1..5 |-> Q[c]]
    OBVIOUS
  <2> HIDE DEF Q, Typ
  <2> QED BY <2>1, <1>7
<1> HIDE DEF Q
<1>9. \A a \in Typ : \E k \in V : a = ParsedFile(k, files[k])
  OBVIOUS
<1> HIDE DEF Typ
<1>10. shown \in Seq(Typ) /\ \E off : Cuts(off, Q, shown)
  BY <1>3, <1>8, Flattened, Zenon
<1>11. PICK off : Cuts(off, Q, shown)
  BY <1>10
<1>12. /\ off[0] = 0 /\ Len(shown) = off[5] /\ (\A i \in 0..5 : off[i] \in Nat)
       /\ \A i \in 1..5 : off[i] = off[i - 1] + Len(Q[i])
       /\ \A i \in 1..5 : \A l \in 1..Len(Q[i]) : shown[off[i - 1] + l] = Q[i][l]
  <2>1. Len(Q) = 5
    BY <1>8
  <2> QED BY <1>11, <2>1, Zenon DEF Cuts
<1>13. /\ \A i, j \in 0..5 : i <= j => off[i] <= off[j]
       /\ \A q \in 1..Len(shown) : \E i \in 1..5 : \E l \in 1..Len(Q[i]) : q = off[i - 1] + l
  <2>1. Len(Q) = 5
    BY <1>8
  <2>3. Q \in Seq(Seq(Typ))
    BY <1>8
  <2>2. \A i, j \in 0..Len(Q) : i <= j => off[i] <= off[j]
    BY <2>3, <1>11, CutsCover
  <2>4. \A q \in 1..Len(shown) : InParts(off, Q, q)
    BY <2>3, <1>11, CutsCover
  <2> QED BY <2>1, <2>2, <2>4, Zenon DEF InParts
<1>14. Len(shown) \in Nat /\ DOMAIN shown = 1..Len(shown)
  BY <1>10, LenProperties
<1> DEFINE at == [q \in DOMAIN shown |-> shown[q].path[1]]
<1>15. \A c \in 1..5 : \A l \in 1..Len(Q[c]) :
          Q[c][l].path[1] = Nth(Of(c), l) /\ Nth(Of(c), l) \in Of(c) /\ Nth(Of(c), l) \in V
  <2> SUFFICES ASSUME NEW c \in 1..5, NEW l \in 1..Len(Q[c])
               PROVE  Q[c][l].path[1] = Nth(Of(c), l) /\ Nth(Of(c), l) \in Of(c) /\ Nth(Of(c), l) \in V
    OBVIOUS
  <2>1. Nth(Of(c), l) \in Of(c)
    BY <1>6, <1>7
  <2>2. Nth(Of(c), l) \in V
    BY <1>4, <2>1
  <2>3. Q[c][l].path = <<Nth(Of(c), l)>>
    BY <1>7, <2>2, KeptAre
  <2> QED BY <2>1, <2>2, <2>3
<1>16. \A c \in 1..5 : \A l \in 1..Len(Q[c]) :
          /\ off[c - 1] + l \in 1..Len(shown) /\ off[c - 1] + l <= off[c] /\ off[c - 1] \in Nat /\ off[c] \in Nat
          /\ Len(Q[c]) \in Nat
  <2> SUFFICES ASSUME NEW c \in 1..5, NEW l \in 1..Len(Q[c])
               PROVE  /\ off[c - 1] + l \in 1..Len(shown) /\ off[c - 1] + l <= off[c]
                      /\ off[c - 1] \in Nat /\ off[c] \in Nat /\ Len(Q[c]) \in Nat
    OBVIOUS
  <2>1. c - 1 \in 0..5 /\ c \in 0..5 /\ 5 \in 0..5 /\ c <= 5
    OBVIOUS
  <2>2. off[c - 1] \in Nat /\ off[c] \in Nat /\ off[5] \in Nat /\ off[c] <= off[5]
    BY <2>1, <1>12, <1>13
  <2>3. Len(Q[c]) \in Nat
    BY <1>6, <1>7
  <2>4. off[c] = off[c - 1] + Len(Q[c]) /\ Len(shown) = off[5]
    BY <1>12
  <2> QED BY <2>2, <2>3, <2>4
<1>17. ASSUME NEW q \in DOMAIN shown
       PROVE  \E c \in 1..5 : \E l \in 1..Len(Q[c]) :
                /\ q = off[c - 1] + l /\ at[q] = Nth(Of(c), l) /\ at[q] \in V
                /\ shown[q] = ParsedFile(at[q], files[at[q]]) /\ Rank(files[at[q]]) = c
  <2>1. PICK c \in 1..5 : \E l \in 1..Len(Q[c]) : q = off[c - 1] + l
    BY <1>13, <1>14
  <2>2. PICK l \in 1..Len(Q[c]) : q = off[c - 1] + l
    BY <2>1
  <2>3. shown[q] = Q[c][l]
    BY <2>2, <1>12
  <2>4. at[q] = Nth(Of(c), l) /\ at[q] \in V /\ at[q] \in Of(c)
    BY <2>3, <1>15
  <2> HIDE DEF at
  <2>5. shown[q] = ParsedFile(at[q], files[at[q]])
    BY <2>3, <2>4, <1>7
  <2>6. Rank(files[at[q]]) = c
    BY <2>4, <1>4, RankIs
  <2> QED BY <2>2, <2>4, <2>5, <2>6
<1>18. ASSUME NEW k \in V PROVE \E q \in DOMAIN shown : at[q] = k
  <2>1. PICK c \in 1..5 : k \in Of(c)
    BY <1>5
  <2>2. PICK l \in 1..Len(Q[c]) : Nth(Of(c), l) = k
    BY <2>1, <1>6, <1>7
  <2>3. off[c - 1] + l \in DOMAIN shown /\ shown[off[c - 1] + l] = Q[c][l]
    BY <1>12, <1>14, <1>16
  <2>4. at[off[c - 1] + l] = k
    BY <2>2, <2>3, <1>15
  <2> QED BY <2>3, <2>4
<1> HIDE DEF at
<1>19. ASSUME NEW q \in DOMAIN shown, NEW r \in DOMAIN shown, q < r
       PROVE  \/ Rank(files[at[q]]) < Rank(files[at[r]])
              \/ Rank(files[at[q]]) = Rank(files[at[r]]) /\ at[q] < at[r]
  <2>1. PICK c \in 1..5 : \E l \in 1..Len(Q[c]) :
           q = off[c - 1] + l /\ at[q] = Nth(Of(c), l) /\ Rank(files[at[q]]) = c
    BY <1>17
  <2>2. PICK l \in 1..Len(Q[c]) : q = off[c - 1] + l /\ at[q] = Nth(Of(c), l)
    BY <2>1
  <2>3. PICK d \in 1..5 : \E m \in 1..Len(Q[d]) :
           r = off[d - 1] + m /\ at[r] = Nth(Of(d), m) /\ Rank(files[at[r]]) = d
    BY <1>17
  <2>4. PICK m \in 1..Len(Q[d]) : r = off[d - 1] + m /\ at[r] = Nth(Of(d), m)
    BY <2>3
  <2>8. /\ off[c - 1] \in Nat /\ off[d - 1] \in Nat /\ off[d] \in Nat
        /\ l \in Nat /\ l >= 1 /\ m \in Nat /\ off[d - 1] + m <= off[d]
    <3>1. off[c - 1] \in Nat /\ Len(Q[c]) \in Nat
      BY <1>16
    <3>2. off[d - 1] \in Nat /\ off[d] \in Nat /\ Len(Q[d]) \in Nat /\ off[d - 1] + m <= off[d]
      BY <1>16
    <3> QED BY <3>1, <3>2
  <2>5. ~(d < c)
    <3> SUFFICES ASSUME d < c PROVE FALSE
      OBVIOUS
    <3>1. off[d] <= off[c - 1]
      <4>1. d \in 0..5 /\ c - 1 \in 0..5 /\ d <= c - 1
        OBVIOUS
      <4> QED BY <4>1, <1>13
    <3> QED BY <1>19, <2>2, <2>4, <2>8, <3>1
  <2>6. CASE c = d
    <3>1. l < m
      <4>1. off[c - 1] + l < off[c - 1] + m
        BY <1>19, <2>2, <2>4, <2>6, Zenon
      <4> QED BY <4>1, <2>8
    <3>2. l \in 1..Cardinality(Of(c)) /\ m \in 1..Cardinality(Of(c))
      BY <1>7, <2>6
    <3>3. Nth(Of(c), l) < Nth(Of(c), m)
      BY <3>1, <3>2, <1>6
    <3> QED BY <3>3, <2>1, <2>2, <2>3, <2>4, <2>6
  <2>7. CASE c < d
    BY <2>1, <2>3, <2>7
  <2> QED BY <2>5, <2>6, <2>7
<1>20. Ordered(files, V, shown, at)
  BY <1>14, <1>17, <1>18, <1>19 DEF Ordered
<1> QED BY <1>20 DEF shown

----------------------------------------------------------------------------
(* diff.md *)

\* A set with at most one member.
LEMMA AtMostOne ==
    ASSUME NEW S, \A q, r \in S : q = r
    PROVE  Cardinality(S) = IF S = {} THEN 0 ELSE 1
<1>1. CASE S /= {}
  <2>1. PICK q \in S : TRUE
    BY <1>1
  <2>2. S = {q}
    BY <2>1
  <2> QED BY <1>1, <2>2, FS_Singleton
<1> QED BY <1>1, FS_EmptySet

ShownOf(files) == {k \in KeptOf(files) : Group(files[k]) \in ToSet(Classes) \ {"noise"}}
NoiseOf(files) == {k \in KeptOf(files) : Group(files[k]) \in {"noise"}}

\* What diff.md holds: at[n] is the place in the diff of file number n.
ShownAs(files, c, at) ==
    /\ at = [n \in DOMAIN c.files |-> c.files[n].path]
    /\ DOMAIN c.files \in SUBSET Nat
    /\ \A n \in DOMAIN c.files :
          /\ at[n] \in ShownOf(files)
          /\ c.files[n].change = files[at[n]].change
          /\ c.files[n].misread = (files[at[n]].spaced /\ files[at[n]].change /= "renamed")
          /\ c.files[n].lines = StripDiffHeaders(Printed(at[n], files[at[n]]))
          /\ c.files[n].added = Lines(files[at[n]], "+")
          /\ c.files[n].deleted = Lines(files[at[n]], "-")
    /\ \A k \in ShownOf(files) : \E n \in DOMAIN c.files : at[n] = k
    /\ \A q, r \in DOMAIN c.files : q < r =>
          \/ Rank(files[at[q]]) < Rank(files[at[r]])
          \/ Rank(files[at[q]]) = Rank(files[at[r]]) /\ at[q] < at[r]
    /\ c.added = SumOf([n \in DOMAIN c.files |-> Lines(files[at[n]], "+")])
    /\ c.deleted = SumOf([n \in DOMAIN c.files |-> Lines(files[at[n]], "-")])

LEMMA ContextFileIs ==
    ASSUME NEW files, PlainDiff(files)
    PROVE  \E at : ShownAs(files, ContextFile(files), at)
<1> DEFINE parsed == ParseFiles(RawDiff(files))
           K == KeptOf(files)
           V == ShownOf(files)
           shown == SortFiles(files, OfClasses(files, parsed, ToSet(Classes) \ {"noise"}))
           c == ContextFile(files)
           F == c.files
           G == [i \in DOMAIN shown |->
                    [path |-> shown[i].path[1], misread |-> shown[i].misread, change |-> shown[i].change,
                     added |-> shown[i].added, deleted |-> shown[i].deleted,
                     lines |-> StripDiffHeaders(shown[i].diff)]]
<1>1. parsed = ListOf(files, K) /\ IsFiniteSet(K)
  BY ParseFilesIs
<1>2. OfClasses(files, parsed, ToSet(Classes) \ {"noise"}) = ListOf(files, V) /\ IsFiniteSet(V)
  <2>0. K \in SUBSET KeptOf(files)
    OBVIOUS
  <2> HIDE DEF K, parsed
  <2> DEFINE C == ToSet(Classes) \ {"noise"}
  <2>2. V = {k \in K : Group(files[k]) \in C}
    BY DEF ShownOf, K
  <2>3. V \in SUBSET K /\ \A k \in K : k \in V <=> Group(files[k]) \in C
    BY <2>2
  <2> HIDE DEF C, V
  <2>1. OfClasses(files, ListOf(files, K), C) = ListOf(files, V) /\ IsFiniteSet(V)
    BY <2>0, <2>3, <1>1, OfClassesIs
  <2> QED BY <2>1, <1>1 DEF C
<1>3. shown = SortFiles(files, ListOf(files, V))
  BY <1>2
<1>4. V \in SUBSET KeptOf(files) /\ \A k \in V : \E d \in 1..5 : Group(files[k]) = Classes[d]
  <2>1. \A g \in ToSet(Classes) \ {"noise"} : \E d \in 1..5 : g = Classes[d]
    BY DEF ToSet, Classes
  <2> QED BY <2>1 DEF ShownOf
<1>5. F = G /\ c.added = Total(shown, "added") /\ c.deleted = Total(shown, "deleted")
  BY Zenon DEF ContextFile
<1> HIDE DEF parsed, V, shown, c
<1>6. PICK at : Ordered(files, V, shown, at)
  BY <1>2, <1>3, <1>4, Sorted
<1>7. /\ DOMAIN shown = 1..Len(shown) /\ Len(shown) \in Nat
      /\ \A q \in DOMAIN shown : at[q] \in V /\ shown[q] = ParsedFile(at[q], files[at[q]])
      /\ \A k \in V : \E q \in DOMAIN shown : at[q] = k
      /\ \A q, r \in DOMAIN shown : q < r =>
            \/ Rank(files[at[q]]) < Rank(files[at[r]])
            \/ Rank(files[at[q]]) = Rank(files[at[r]]) /\ at[q] < at[r]
  BY <1>6, Zenon DEF Ordered
<1>8. \A q \in DOMAIN shown :
         /\ shown[q].path = <<at[q]>> /\ shown[q].change = files[at[q]].change
         /\ shown[q].misread = (files[at[q]].spaced /\ files[at[q]].change /= "renamed")
         /\ shown[q].diff = Printed(at[q], files[at[q]])
         /\ shown[q].added = Lines(files[at[q]], "+") /\ shown[q].deleted = Lines(files[at[q]], "-")
  <2> TAKE q \in DOMAIN shown
  <2>1. at[q] \in Nat /\ files[at[q]] \in DiffFile /\ ParsedFile(at[q], files[at[q]]).path = <<at[q]>>
    BY <1>4, <1>7, KeptAre
  <2>2. /\ ParsedFile(at[q], files[at[q]]).change = files[at[q]].change
        /\ ParsedFile(at[q], files[at[q]]).misread = (files[at[q]].spaced /\ files[at[q]].change /= "renamed")
        /\ ParsedFile(at[q], files[at[q]]).diff = Printed(at[q], files[at[q]])
        /\ ParsedFile(at[q], files[at[q]]).added = Lines(files[at[q]], "+")
        /\ ParsedFile(at[q], files[at[q]]).deleted = Lines(files[at[q]], "-")
    BY <2>1, PathIs
  <2> QED BY <2>1, <2>2, <1>7
<1>9. DOMAIN F = DOMAIN shown /\ \A q \in DOMAIN shown :
         /\ F[q].path = at[q] /\ F[q].change = files[at[q]].change
         /\ F[q].misread = (files[at[q]].spaced /\ files[at[q]].change /= "renamed")
         /\ F[q].lines = StripDiffHeaders(Printed(at[q], files[at[q]]))
         /\ F[q].added = Lines(files[at[q]], "+") /\ F[q].deleted = Lines(files[at[q]], "-")
  <2>1. DOMAIN G = DOMAIN shown /\ \A q \in DOMAIN shown :
           /\ G[q].path = at[q] /\ G[q].change = files[at[q]].change
           /\ G[q].misread = (files[at[q]].spaced /\ files[at[q]].change /= "renamed")
           /\ G[q].lines = StripDiffHeaders(Printed(at[q], files[at[q]]))
           /\ G[q].added = Lines(files[at[q]], "+") /\ G[q].deleted = Lines(files[at[q]], "-")
    BY <1>8
  <2> HIDE DEF G, F
  <2> QED BY <2>1, <1>5
<1> HIDE DEF F, G
<1> DEFINE to == [n \in DOMAIN F |-> F[n].path]
<1>10. DOMAIN F = DOMAIN shown /\ \A q \in DOMAIN shown : to[q] = at[q]
  BY <1>9
<1>11. /\ Total(shown, "added") = SumOf([n \in DOMAIN F |-> Lines(files[to[n]], "+")])
       /\ Total(shown, "deleted") = SumOf([n \in DOMAIN F |-> Lines(files[to[n]], "-")])
  <2> HIDE DEF to
  <2>1. [i \in DOMAIN shown |-> shown[i]["added"]] = [n \in DOMAIN F |-> Lines(files[to[n]], "+")]
    BY <1>8, <1>10
  <2>2. [i \in DOMAIN shown |-> shown[i]["deleted"]] = [n \in DOMAIN F |-> Lines(files[to[n]], "-")]
    BY <1>8, <1>10
  <2> QED BY <2>1, <2>2, Zenon DEF Total
<1>12. DOMAIN F \in SUBSET Nat
  BY <1>7, <1>9
<1>13. /\ \A n \in DOMAIN F :
             /\ to[n] \in V
             /\ F[n].change = files[to[n]].change
             /\ F[n].misread = (files[to[n]].spaced /\ files[to[n]].change /= "renamed")
             /\ F[n].lines = StripDiffHeaders(Printed(to[n], files[to[n]]))
             /\ F[n].added = Lines(files[to[n]], "+")
             /\ F[n].deleted = Lines(files[to[n]], "-")
       /\ \A k \in V : \E n \in DOMAIN F : to[n] = k
       /\ \A q, r \in DOMAIN F : q < r =>
             \/ Rank(files[to[q]]) < Rank(files[to[r]])
             \/ Rank(files[to[q]]) = Rank(files[to[r]]) /\ to[q] < to[r]
  <2> HIDE DEF to
  <2> QED BY <1>7, <1>9, <1>10
<1>14. to = [n \in DOMAIN F |-> F[n].path]
  OBVIOUS
<1> HIDE DEF to
<1>15. /\ c.added = SumOf([n \in DOMAIN F |-> Lines(files[to[n]], "+")])
       /\ c.deleted = SumOf([n \in DOMAIN F |-> Lines(files[to[n]], "-")])
  BY <1>5, <1>11, Zenon
<1>16. ShownAs(files, c, to)
  BY <1>12, <1>13, <1>14, <1>15, Zenon DEF ShownAs, V, F
<1> QED BY <1>16 DEF c

LEMMA FilteredIs ==
    ASSUME NEW files, PlainDiff(files)
    PROVE  LET out == ContextFile(files).filtered IN
           /\ \A n \in DOMAIN out : out[n] \in NoiseOf(files)
           /\ \A k \in NoiseOf(files) : \E n \in DOMAIN out : out[n] = k
           /\ \A m, n \in DOMAIN out : out[m] = out[n] => m = n
<1> DEFINE parsed == ParseFiles(RawDiff(files))
           K == KeptOf(files)
           R == NoiseOf(files)
           noise == OfClasses(files, parsed, {"noise"})
           out == ContextFile(files).filtered
<1>1. parsed = ListOf(files, K) /\ IsFiniteSet(K)
  BY ParseFilesIs
<1>2. noise = ListOf(files, R) /\ IsFiniteSet(R)
  <2>0. K \in SUBSET KeptOf(files)
    OBVIOUS
  <2> HIDE DEF K, parsed
  <2> DEFINE C == {"noise"}
  <2>2. R = {k \in K : Group(files[k]) \in C}
    BY DEF NoiseOf, K
  <2>3. R \in SUBSET K /\ \A k \in K : k \in R <=> Group(files[k]) \in C
    BY <2>2
  <2> HIDE DEF C, R
  <2>1. OfClasses(files, ListOf(files, K), C) = ListOf(files, R) /\ IsFiniteSet(R)
    BY <2>0, <2>3, <1>1, OfClassesIs
  <2> QED BY <2>1, <1>1 DEF C
<1>3. out = [i \in DOMAIN noise |-> noise[i].path[1]]
  BY Zenon DEF ContextFile
<1>4. R \in SUBSET KeptOf(files) /\ R \in SUBSET Nat
  BY KeptAre DEF NoiseOf
<1> HIDE DEF parsed, R, noise, out
<1> DEFINE n == Cardinality(R)
<1>5. /\ n \in Nat /\ \A k \in 1..n : Nth(R, k) \in R
      /\ \A j, k \in 1..n : j < k => Nth(R, j) < Nth(R, k)
      /\ \A t \in R : \E k \in 1..n : Nth(R, k) = t
  BY <1>2, <1>4, Places
<1>6. noise = [j \in 1..n |-> ParsedFile(Nth(R, j), files[Nth(R, j)])]
  BY <1>2 DEF ListOf
<1> HIDE DEF n
<1>7. \A j \in 1..n : noise[j].path = <<Nth(R, j)>>
  BY <1>4, <1>5, <1>6, KeptAre
<1>8. DOMAIN out = 1..n /\ \A j \in 1..n : out[j] = Nth(R, j)
  BY <1>3, <1>6, <1>7
<1>9. \A i, j \in 1..n : Nth(R, i) = Nth(R, j) => i = j
  <2> SUFFICES ASSUME NEW i \in 1..n, NEW j \in 1..n, Nth(R, i) = Nth(R, j), i /= j PROVE FALSE
    OBVIOUS
  <2>1. i < j \/ j < i
    OBVIOUS
  <2>2. Nth(R, i) \in Nat /\ Nth(R, j) \in Nat
    BY <1>4, <1>5
  <2> QED BY <2>1, <2>2, <1>5
<1> QED BY <1>5, <1>8, <1>9 DEF out, R

\* What ContextShowsTheDiff says of the file.
LEMMA ContextIs ==
    ASSUME input.files \in Seq(DiffFile), context = ContextFile(input.files)
    PROVE  ContextShowsTheDiff
<1> DEFINE files == input.files
           F == context.files
           out == context.filtered
<1> SUFFICES ASSUME \A i \in DOMAIN files : Plain(files[i])
             PROVE  /\ \A i \in DOMAIN files :
                          /\ Cardinality({n \in DOMAIN F : F[n].path = i})
                                = IF Kept(files[i]) /\ ~(files[i].class = "noise" /\ ~files[i].quoted) THEN 1 ELSE 0
                          /\ Cardinality({n \in DOMAIN out : out[n] = i})
                                = IF Kept(files[i]) /\ files[i].class = "noise" /\ ~files[i].quoted THEN 1 ELSE 0
                    /\ \A n \in DOMAIN F :
                          LET f == files[F[n].path]
                          IN  /\ F[n].change = f.change
                              /\ F[n].misread = (f.spaced /\ f.change /= "renamed")
                              /\ [l \in DOMAIN F[n].lines |-> F[n].lines[l].is] = Visible(f)
                              /\ \A l \in DOMAIN F[n].lines : F[n].lines[l].file = F[n].path
                              /\ F[n].added = Lines(f, "+") /\ F[n].deleted = Lines(f, "-")
                    /\ \A n, m \in DOMAIN F : n < m =>
                          LET p == F[n].path  q == F[m].path
                          IN  \/ Rank(files[p]) < Rank(files[q])
                              \/ Rank(files[p]) = Rank(files[q]) /\ p < q
                    /\ context.added = SumOf([n \in DOMAIN F |-> Lines(files[F[n].path], "+")])
                    /\ context.deleted = SumOf([n \in DOMAIN F |-> Lines(files[F[n].path], "-")])
  BY Zenon DEF ContextShowsTheDiff, Rank, Group, Kept
<1>1. PlainDiff(files) /\ context = ContextFile(files)
  BY DEF PlainDiff
<1>2. DOMAIN files = 1..Len(files) /\ \A i \in 1..Len(files) : files[i] \in DiffFile
  BY <1>1, PrintsAre DEF PlainDiff
<1> HIDE DEF files
<1>13. PICK at : ShownAs(files, context, at)
  BY <1>1, ContextFileIs
<1>3. /\ at = [n \in DOMAIN F |-> F[n].path]
      /\ \A n \in DOMAIN F :
            /\ at[n] \in ShownOf(files)
            /\ F[n].change = files[at[n]].change
            /\ F[n].misread = (files[at[n]].spaced /\ files[at[n]].change /= "renamed")
            /\ F[n].lines = StripDiffHeaders(Printed(at[n], files[at[n]]))
            /\ F[n].added = Lines(files[at[n]], "+")
            /\ F[n].deleted = Lines(files[at[n]], "-")
      /\ \A k \in ShownOf(files) : \E n \in DOMAIN F : at[n] = k
      /\ DOMAIN F \in SUBSET Nat
      /\ \A q, r \in DOMAIN F : q < r =>
            \/ Rank(files[at[q]]) < Rank(files[at[r]])
            \/ Rank(files[at[q]]) = Rank(files[at[r]]) /\ at[q] < at[r]
      /\ context.added = SumOf([n \in DOMAIN F |-> Lines(files[at[n]], "+")])
      /\ context.deleted = SumOf([n \in DOMAIN F |-> Lines(files[at[n]], "-")])
  BY <1>13, Zenon DEF ShownAs
<1>4. /\ \A n \in DOMAIN out : out[n] \in NoiseOf(files)
      /\ \A k \in NoiseOf(files) : \E n \in DOMAIN out : out[n] = k
      /\ \A m, n \in DOMAIN out : out[m] = out[n] => m = n
  BY <1>1, FilteredIs, Zenon
<1> HIDE DEF F, out
<1>5. \A n \in DOMAIN F : at[n] = F[n].path
  BY <1>3
<1>6. \A i \in 1..Len(files) :
         /\ i \in ShownOf(files) <=> Kept(files[i]) /\ ~(files[i].class = "noise" /\ ~files[i].quoted)
         /\ i \in NoiseOf(files) <=> Kept(files[i]) /\ files[i].class = "noise" /\ ~files[i].quoted
  <2> TAKE i \in 1..Len(files)
  <2>1. files[i].class \in ToSet(Classes) /\ files[i].quoted \in BOOLEAN /\ "code" \in ToSet(Classes)
    BY <1>2 DEF DiffFile, ToSet, Classes
  <2>2. i \in KeptOf(files) <=> Kept(files[i])
    BY DEF KeptOf
  <2> QED BY <2>1, <2>2 DEF ShownOf, NoiseOf, Group
<1>7. ShownOf(files) \in SUBSET Nat
  BY <1>1, KeptAre DEF ShownOf
<1>8. \A q, r \in DOMAIN F : F[q].path = F[r].path => q = r
  <2> SUFFICES ASSUME NEW q \in DOMAIN F, NEW r \in DOMAIN F, F[q].path = F[r].path, q /= r PROVE FALSE
    OBVIOUS
  <2>1. at[q] = at[r] /\ at[q] \in Nat
    BY <1>3, <1>5, <1>7
  <2>2. q < r \/ r < q
    BY <1>3
  <2>3. \A f, g \in DOMAIN F : f < g /\ at[f] = at[g] => Rank(files[at[f]]) < Rank(files[at[g]])
    <3> SUFFICES ASSUME NEW f \in DOMAIN F, NEW g \in DOMAIN F, f < g, at[f] = at[g]
                 PROVE  Rank(files[at[f]]) < Rank(files[at[g]])
      OBVIOUS
    <3>1. at[f] \in Nat
      BY <1>3, <1>7
    <3> QED BY <3>1, <1>3
  <2>4. Rank(files[at[q]]) \in Nat
    <3>1. at[q] \in KeptOf(files) /\ Group(files[at[q]]) \in ToSet(Classes) \ {"noise"}
      BY <1>3 DEF ShownOf
    <3>2. \E d \in 1..5 : Group(files[at[q]]) = Classes[d]
      BY <3>1 DEF ToSet, Classes
    <3> QED BY <3>2, RankIs
  <2> QED BY <2>1, <2>2, <2>3, <2>4
<1>9. ASSUME NEW i \in DOMAIN files
      PROVE  /\ Cardinality({n \in DOMAIN F : F[n].path = i})
                   = IF Kept(files[i]) /\ ~(files[i].class = "noise" /\ ~files[i].quoted) THEN 1 ELSE 0
             /\ Cardinality({n \in DOMAIN out : out[n] = i})
                   = IF Kept(files[i]) /\ files[i].class = "noise" /\ ~files[i].quoted THEN 1 ELSE 0
  <2> DEFINE S == {n \in DOMAIN F : F[n].path = i}
             T == {n \in DOMAIN out : out[n] = i}
  <2>1. \A q, r \in S : q = r
    BY <1>8
  <2>2. S = {} <=> i \notin ShownOf(files)
    BY <1>3, <1>5
  <2>3. \A q, r \in T : q = r
    BY <1>4
  <2>4. T = {} <=> i \notin NoiseOf(files)
    BY <1>4
  <2> HIDE DEF S, T
  <2>5. Cardinality(S) = IF i \in ShownOf(files) THEN 1 ELSE 0
    BY <2>1, <2>2, AtMostOne
  <2>6. Cardinality(T) = IF i \in NoiseOf(files) THEN 1 ELSE 0
    BY <2>3, <2>4, AtMostOne
  <2> QED BY <2>5, <2>6, <1>2, <1>6 DEF S, T
<1>10. ASSUME NEW n \in DOMAIN F
       PROVE  LET f == files[F[n].path]
              IN  /\ F[n].change = f.change
                  /\ F[n].misread = (f.spaced /\ f.change /= "renamed")
                  /\ [l \in DOMAIN F[n].lines |-> F[n].lines[l].is] = Visible(f)
                  /\ \A l \in DOMAIN F[n].lines : F[n].lines[l].file = F[n].path
                  /\ F[n].added = Lines(f, "+") /\ F[n].deleted = Lines(f, "-")
  <2>1. /\ F[n].change = files[at[n]].change
        /\ F[n].misread = (files[at[n]].spaced /\ files[at[n]].change /= "renamed")
        /\ F[n].lines = StripDiffHeaders(Printed(at[n], files[at[n]]))
        /\ F[n].added = Lines(files[at[n]], "+")
        /\ F[n].deleted = Lines(files[at[n]], "-")
        /\ at[n] \in ShownOf(files) /\ at[n] = F[n].path
    BY <1>3, <1>5
  <2>2. at[n] \in Nat /\ files[at[n]] \in DiffFile
    BY <1>1, <2>1, KeptAre DEF ShownOf
  <2> DEFINE s == StripDiffHeaders(Printed(at[n], files[at[n]]))
  <2>3. [l \in DOMAIN s |-> s[l].is] = Visible(files[at[n]]) /\ \A l \in DOMAIN s : s[l].file = at[n]
    BY <2>2, StripIs, Zenon
  <2> HIDE DEF s
  <2>4. F[n].lines = s
    BY <2>1 DEF s
  <2> QED BY <2>1, <2>3, <2>4, Zenon
<1>11. \A n, m \in DOMAIN F : n < m =>
          LET p == F[n].path  q == F[m].path
          IN  \/ Rank(files[p]) < Rank(files[q])
              \/ Rank(files[p]) = Rank(files[q]) /\ p < q
  <2> SUFFICES ASSUME NEW n \in DOMAIN F, NEW m \in DOMAIN F, n < m
               PROVE  \/ Rank(files[F[n].path]) < Rank(files[F[m].path])
                      \/ Rank(files[F[n].path]) = Rank(files[F[m].path]) /\ F[n].path < F[m].path
    BY Zenon
  <2>1. at[n] = F[n].path /\ at[m] = F[m].path
    BY <1>5
  <2>2. \/ Rank(files[at[n]]) < Rank(files[at[m]])
        \/ Rank(files[at[n]]) = Rank(files[at[m]]) /\ at[n] < at[m]
    BY <1>3
  <2> QED BY <2>1, <2>2, Zenon
<1>12. /\ context.added = SumOf([n \in DOMAIN F |-> Lines(files[F[n].path], "+")])
       /\ context.deleted = SumOf([n \in DOMAIN F |-> Lines(files[F[n].path], "-")])
  <2>1. [n \in DOMAIN F |-> Lines(files[at[n]], "+")] = [n \in DOMAIN F |-> Lines(files[F[n].path], "+")]
    BY <1>5
  <2>2. [n \in DOMAIN F |-> Lines(files[at[n]], "-")] = [n \in DOMAIN F |-> Lines(files[F[n].path], "-")]
    BY <1>5
  <2>3. /\ context.added = SumOf([n \in DOMAIN F |-> Lines(files[at[n]], "+")])
        /\ context.deleted = SumOf([n \in DOMAIN F |-> Lines(files[at[n]], "-")])
    BY <1>3
  <2> QED BY <2>1, <2>2, <2>3, Zenon
<1> QED BY <1>9, <1>10, <1>11, <1>12 DEF F, out, files
=============================================================================
