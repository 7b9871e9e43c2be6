--------------------------- MODULE MailboxTreeProofs ---------------------------
(***************************************************************************)
(* Theorems about MailboxTree, for every account, name, role and bound.    *)
(***************************************************************************)
EXTENDS MailboxTree, SequenceTheorems, FiniteSetTheorems, WellFoundedInduction, TLAPS

-----------------------------------------------------------------------------
(* Paths.                                                                   *)

\* A path is a function on 1 .. its length; two are equal if they agree.
LEMMA PathElements ==
    ASSUME NEW p \in Path
    PROVE  /\ Len(p) \in Nat /\ DOMAIN p = 1 .. Len(p)
           /\ p \in [1 .. Len(p) -> Segment]
           /\ \A i \in 1 .. Len(p) : p[i] \in Segment
           /\ p = <<>> <=> Len(p) = 0
    BY LenProperties, EmptySeq DEF Path

\* Paths with the same segments are the same.
LEMMA PathEquality ==
    ASSUME NEW p \in Path, NEW q \in Path,
           Len(p) = Len(q), \A i \in 1 .. Len(p) : p[i] = q[i]
    PROVE  p = q
    BY SeqEqual DEF Path

\* A part of a path from its beginning.
LEMMA PathPrefix ==
    ASSUME NEW p \in Path, NEW n \in 0 .. Len(p)
    PROVE  /\ SubSeq(p, 1, n) \in Path
           /\ Len(SubSeq(p, 1, n)) = n
           /\ \A i \in 1 .. n : SubSeq(p, 1, n)[i] = p[i]
  <1>1. n \in Nat /\ n <= Len(p) /\ \A i \in 1 .. n : p[i] \in Segment
    BY PathElements
  <1>2. /\ SubSeq(p, 1, n) \in Seq(Segment)
        /\ Len(SubSeq(p, 1, n)) = IF 1 <= n THEN n - 1 + 1 ELSE 0
        /\ \A i \in 1 .. n - 1 + 1 : SubSeq(p, 1, n)[i] = p[1 + i - 1]
    BY <1>1, SubSeqProperties
  <1> QED
    BY <1>1, <1>2 DEF Path

\* The rest of a path.
LEMMA PathRest ==
    ASSUME NEW p \in Path, NEW n \in 0 .. Len(p)
    PROVE  /\ SubSeq(p, n + 1, Len(p)) \in Path
           /\ Len(SubSeq(p, n + 1, Len(p))) = Len(p) - n
           /\ \A i \in 1 .. Len(p) - n : SubSeq(p, n + 1, Len(p))[i] = p[n + i]
  <1>1. n \in Nat /\ n <= Len(p) /\ Len(p) \in Nat
    BY PathElements
  <1>2. \A i \in n + 1 .. Len(p) : p[i] \in Segment
    BY <1>1, PathElements
  <1>3. /\ SubSeq(p, n + 1, Len(p)) \in Seq(Segment)
        /\ Len(SubSeq(p, n + 1, Len(p))) = IF n + 1 <= Len(p) THEN Len(p) - (n + 1) + 1 ELSE 0
        /\ \A i \in 1 .. Len(p) - (n + 1) + 1 :
              SubSeq(p, n + 1, Len(p))[i] = p[n + 1 + i - 1]
    BY <1>1, <1>2, SubSeqProperties
  <1>4. /\ Len(SubSeq(p, n + 1, Len(p))) = Len(p) - n
    BY <1>1, <1>3
  <1>5. ASSUME NEW i \in 1 .. Len(p) - n PROVE SubSeq(p, n + 1, Len(p))[i] = p[n + i]
    <2>1. i \in 1 .. Len(p) - (n + 1) + 1 /\ n + 1 + i - 1 = n + i
      BY <1>1
    <2> QED
      BY <1>3, <2>1
  <1> QED
    BY <1>3, <1>4, <1>5 DEF Path

\* IsPrefix, segment by segment.
LEMMA PrefixElements ==
    ASSUME NEW p \in Path, NEW q \in Path
    PROVE  IsPrefix(p, q) <=> Len(p) <= Len(q) /\ \A i \in 1 .. Len(p) : p[i] = q[i]
  <1>1. Len(p) \in Nat /\ Len(q) \in Nat
    BY PathElements
  <1>2. CASE Len(p) <= Len(q)
    <2>1. Len(p) \in 0 .. Len(p) /\ Len(p) \in 0 .. Len(q)
      BY <1>1, <1>2
    <2>2. /\ SubSeq(p, 1, Len(p)) \in Path /\ Len(SubSeq(p, 1, Len(p))) = Len(p)
          /\ \A i \in 1 .. Len(p) : SubSeq(p, 1, Len(p))[i] = p[i]
      BY <2>1, PathPrefix
    <2>3. /\ SubSeq(q, 1, Len(p)) \in Path /\ Len(SubSeq(q, 1, Len(p))) = Len(p)
          /\ \A i \in 1 .. Len(p) : SubSeq(q, 1, Len(p))[i] = q[i]
      BY <2>1, PathPrefix
    <2>4. SubSeq(p, 1, Len(p)) = SubSeq(q, 1, Len(p)) <=> \A i \in 1 .. Len(p) : p[i] = q[i]
      BY <2>2, <2>3, PathEquality
    <2> QED
      BY <1>2, <2>4 DEF IsPrefix
  <1>3. CASE ~(Len(p) <= Len(q))
    BY <1>3 DEF IsPrefix
  <1> QED
    BY <1>2, <1>3

\* Above is being a proper prefix.
LEMMA AboveIsPrefix ==
    ASSUME NEW p \in Path, NEW q \in Path
    PROVE  /\ Above(p, q) <=> IsPrefix(p, q) /\ p # q
           /\ Above(p, q) => Len(p) < Len(q)
           /\ IsPrefix(p, q) <=> p = q \/ Above(p, q)
  <1>1. Len(p) \in Nat /\ Len(q) \in Nat
    BY PathElements
  <1>2. IsPrefix(p, q) /\ Len(p) = Len(q) => p = q
    BY PrefixElements, PathEquality
  <1>3. IsPrefix(p, q) => Len(p) <= Len(q)
    BY PrefixElements
  <1>4. p = q => IsPrefix(p, q)
    BY <1>1, PrefixElements
  <1>5. p = q => Len(p) = Len(q)
    OBVIOUS
  <1> QED
    BY <1>1, <1>2, <1>3, <1>4, <1>5 DEF Above

\* Prefixes of prefixes, and two prefixes of one path.
LEMMA PrefixOrder ==
    ASSUME NEW p \in Path, NEW q \in Path, NEW r \in Path
    PROVE  /\ IsPrefix(p, p)
           /\ IsPrefix(p, q) /\ IsPrefix(q, r) => IsPrefix(p, r)
           /\ IsPrefix(p, q) /\ IsPrefix(q, p) => p = q
           /\ IsPrefix(p, r) /\ IsPrefix(q, r) => IsPrefix(p, q) \/ IsPrefix(q, p)
           /\ IsPrefix(p, <<>>) <=> p = <<>>
  <1>1. Len(p) \in Nat /\ Len(q) \in Nat /\ Len(r) \in Nat
    BY PathElements
  <1>2. IsPrefix(p, p)
    BY <1>1, PrefixElements
  <1>3. IsPrefix(p, q) /\ IsPrefix(q, r) => IsPrefix(p, r)
    BY <1>1, PrefixElements
  <1>4. IsPrefix(p, q) /\ IsPrefix(q, p) => p = q
    BY <1>1, PrefixElements, PathEquality
  <1>5. ASSUME IsPrefix(p, r), IsPrefix(q, r) PROVE IsPrefix(p, q) \/ IsPrefix(q, p)
    BY <1>1, <1>5, PrefixElements
  <1>6. <<>> \in Path /\ Len(<<>>) = 0
    BY EmptySeq DEF Path
  <1>7. IsPrefix(p, <<>>) <=> p = <<>>
    BY <1>1, <1>6, PrefixElements, PathElements
  <1> QED
    BY <1>2, <1>3, <1>4, <1>5, <1>7

\* Front, Last and Append on paths.
LEMMA FrontOfPath ==
    ASSUME NEW p \in Path, p # <<>>
    PROVE  /\ Front(p) \in Path /\ Len(Front(p)) = Len(p) - 1 /\ Len(p) \in Nat \ {0}
           /\ \A i \in 1 .. Len(p) - 1 : Front(p)[i] = p[i]
           /\ Last(p) = p[Len(p)] /\ Last(p) \in Segment
  <1>1. Len(p) \in Nat \ {0} /\ \A i \in 1 .. Len(p) : p[i] \in Segment
    BY PathElements
  <1>2. Len(p) - 1 \in 0 .. Len(p) /\ Len(p) \in 1 .. Len(p)
    BY <1>1
  <1> QED
    BY <1>1, <1>2, PathPrefix DEF Front, Last

\* A path extended by a segment.
LEMMA AppendToPath ==
    ASSUME NEW p \in Path, NEW s \in Segment
    PROVE  /\ Append(p, s) \in Path /\ Append(p, s) # <<>>
           /\ Len(Append(p, s)) = Len(p) + 1
           /\ \A i \in 1 .. Len(p) : Append(p, s)[i] = p[i]
           /\ Append(p, s)[Len(p) + 1] = s
           /\ Front(Append(p, s)) = p /\ Last(Append(p, s)) = s
  <1>1. /\ Append(p, s) \in Path /\ Append(p, s) # <<>>
        /\ Len(Append(p, s)) = Len(p) + 1
        /\ \A i \in 1 .. Len(p) : Append(p, s)[i] = p[i]
        /\ Append(p, s)[Len(p) + 1] = s
    BY AppendProperties DEF Path
  <1>2. Len(p) \in Nat
    BY PathElements
  <1>3. /\ Front(Append(p, s)) \in Path /\ Len(Front(Append(p, s))) = Len(p)
        /\ \A i \in 1 .. Len(p) : Front(Append(p, s))[i] = p[i]
    <2>1. Len(Append(p, s)) - 1 = Len(p)
      BY <1>1, <1>2
    <2>2. /\ Front(Append(p, s)) \in Path /\ Len(Front(Append(p, s))) = Len(Append(p, s)) - 1
          /\ \A i \in 1 .. Len(Append(p, s)) - 1 : Front(Append(p, s))[i] = Append(p, s)[i]
      BY <1>1, FrontOfPath
    <2> QED
      BY <1>1, <2>1, <2>2
  <1>4. Front(Append(p, s)) = p
    BY <1>3, PathEquality
  <1> QED
    BY <1>1, <1>4 DEF Last

\* A path is its front and its last segment.
LEMMA FrontAndLast ==
    ASSUME NEW p \in Path, p # <<>>, NEW q \in Path, q # <<>>,
           Front(p) = Front(q), Last(p) = Last(q)
    PROVE  p = q
  <1>1. /\ Len(p) \in Nat \ {0} /\ Len(q) \in Nat \ {0}
        /\ Len(p) - 1 = Len(q) - 1
        /\ \A i \in 1 .. Len(p) - 1 : p[i] = Front(p)[i]
        /\ \A i \in 1 .. Len(q) - 1 : q[i] = Front(q)[i]
        /\ p[Len(p)] = Last(p) /\ q[Len(q)] = Last(q)
    BY FrontOfPath
  <1>2. Len(p) = Len(q)
    BY <1>1
  <1>3. ASSUME NEW i \in 1 .. Len(p) PROVE p[i] = q[i]
    <2>1. CASE i = Len(p)
      BY <1>1, <1>2, <2>1
    <2>2. CASE i # Len(p)
      <3>1. i \in 1 .. Len(p) - 1
        BY <1>1, <2>2
      <3> QED
        BY <1>1, <1>2, <3>1
    <2> QED
      BY <2>1, <2>2
  <1> QED
    BY <1>2, <1>3, PathEquality

\* What is above a path is its front or above that.
LEMMA PrefixOfFront ==
    ASSUME NEW p \in Path, NEW q \in Path, q # <<>>
    PROVE  /\ IsPrefix(p, Front(q)) <=> Above(p, q)
           /\ IsPrefix(Front(q), q) /\ Above(Front(q), q)
  <1>1. /\ Front(q) \in Path /\ Len(q) \in Nat \ {0} /\ Len(Front(q)) = Len(q) - 1
        /\ \A i \in 1 .. Len(q) - 1 : Front(q)[i] = q[i]
    BY FrontOfPath
  <1>2. Len(p) \in Nat
    BY PathElements
  <1>3. IsPrefix(p, Front(q)) <=> Len(p) <= Len(q) - 1 /\ \A i \in 1 .. Len(p) : p[i] = Front(q)[i]
    BY <1>1, PrefixElements
  <1>4. Above(p, q) <=> Len(p) < Len(q) /\ IsPrefix(p, q)
    BY DEF Above
  <1>5. IsPrefix(p, q) <=> Len(p) <= Len(q) /\ \A i \in 1 .. Len(p) : p[i] = q[i]
    BY PrefixElements
  <1>6. Len(p) <= Len(q) - 1 => \A i \in 1 .. Len(p) : Front(q)[i] = q[i]
    BY <1>1, <1>2
  <1>7. Len(p) <= Len(q) - 1 <=> Len(p) < Len(q)
    BY <1>1, <1>2
  <1>8. IsPrefix(p, Front(q)) <=> Above(p, q)
    BY <1>1, <1>2, <1>3, <1>4, <1>5, <1>6, <1>7
  <1>9. IsPrefix(Front(q), q)
    BY <1>1, PrefixElements
  <1>10. Above(Front(q), q)
    BY <1>1, <1>9 DEF Above
  <1> QED
    BY <1>8, <1>9, <1>10

\* The paths that create_dir_all makes for a path: its prefixes.
LEMMA AncestorsArePrefixes ==
    ASSUME NEW p \in Path
    PROVE  /\ \A q \in Ancestors(p) : q \in Path /\ q # <<>> /\ IsPrefix(q, p)
           /\ \A q \in Path : q # <<>> /\ IsPrefix(q, p) => q \in Ancestors(p)
           /\ p # <<>> => p \in Ancestors(p)
  <1>1. Len(p) \in Nat
    BY PathElements
  <1>2. ASSUME NEW i \in 1 .. Len(p)
        PROVE  LET q == SubSeq(p, 1, i) IN q \in Path /\ q # <<>> /\ IsPrefix(q, p)
    <2> DEFINE q == SubSeq(p, 1, i)
    <2>1. /\ q \in Path /\ Len(q) = i /\ \A j \in 1 .. i : q[j] = p[j]
      BY <1>1, PathPrefix
    <2>2. q # <<>>
      BY <2>1, PathElements
    <2>3. Len(q) <= Len(p) /\ \A j \in 1 .. Len(q) : q[j] = p[j]
      BY <1>1, <2>1
    <2>4. IsPrefix(q, p)
      BY <2>1, <2>3, PrefixElements
    <2> QED
      BY <2>1, <2>2, <2>4
  <1>3. ASSUME NEW q \in Path, q # <<>>, IsPrefix(q, p) PROVE q \in Ancestors(p)
    <2>1. Len(q) \in 1 .. Len(p)
      BY <1>1, <1>3, PathElements, PrefixElements
    <2>2. /\ SubSeq(p, 1, Len(q)) \in Path /\ Len(SubSeq(p, 1, Len(q))) = Len(q)
          /\ \A j \in 1 .. Len(q) : SubSeq(p, 1, Len(q))[j] = p[j]
      BY <1>1, <2>1, PathPrefix
    <2>3. \A j \in 1 .. Len(q) : p[j] = q[j]
      BY <1>3, PrefixElements
    <2>4. SubSeq(p, 1, Len(q)) = q
      BY <2>2, <2>3, PathEquality
    <2> QED
      BY <2>1, <2>4 DEF Ancestors
  <1>4. p # <<>> => p \in Ancestors(p)
    BY <1>3, PrefixOrder
  <1> QED
    BY <1>2, <1>3, <1>4 DEF Ancestors

-----------------------------------------------------------------------------
(* A directory that is renamed.                                             *)

\* rebase_dir_paths, segment by segment.
LEMMA RebasedElements ==
    ASSUME NEW q \in Path, NEW from \in Path, NEW to \in Path
    PROVE  /\ Rebased(q, from, to) \in Path
           /\ IsPrefix(from, q) =>
                /\ Len(from) <= Len(q)
                /\ Len(Rebased(q, from, to)) = Len(to) + (Len(q) - Len(from))
                /\ \A i \in 1 .. Len(to) : Rebased(q, from, to)[i] = to[i]
                /\ \A i \in 1 .. Len(q) - Len(from) :
                      Rebased(q, from, to)[Len(to) + i] = q[Len(from) + i]
                /\ IsPrefix(to, Rebased(q, from, to))
           /\ ~IsPrefix(from, q) => Rebased(q, from, to) = q
           /\ Rebased(from, from, to) = to
  <1>1. Len(q) \in Nat /\ Len(from) \in Nat /\ Len(to) \in Nat
    BY PathElements
  <1>2. ~IsPrefix(from, q) => Rebased(q, from, to) = q
    BY AboveIsPrefix DEF Rebased
  <1> DEFINE rest == SubSeq(q, Len(from) + 1, Len(q))
             new == Rebased(q, from, to)
  <1>3. ASSUME IsPrefix(from, q)
        PROVE  /\ new \in Path /\ Len(from) <= Len(q)
               /\ Len(new) = Len(to) + (Len(q) - Len(from))
               /\ \A i \in 1 .. Len(to) : new[i] = to[i]
               /\ \A i \in 1 .. Len(q) - Len(from) : new[Len(to) + i] = q[Len(from) + i]
               /\ IsPrefix(to, new)
    <2>1. Len(from) \in 0 .. Len(q)
      BY <1>1, <1>3, PrefixElements
    <2>2. /\ rest \in Path /\ Len(rest) = Len(q) - Len(from)
          /\ \A i \in 1 .. Len(q) - Len(from) : rest[i] = q[Len(from) + i]
      BY <2>1, PathRest
    <2>3. new = to \o rest
      BY <1>3, AboveIsPrefix DEF Rebased
    <2>4. /\ to \o rest \in Path /\ Len(to \o rest) = Len(to) + Len(rest)
          /\ \A i \in 1 .. Len(to) + Len(rest) :
                (to \o rest)[i] = IF i <= Len(to) THEN to[i] ELSE rest[i - Len(to)]
      BY <2>2, ConcatProperties DEF Path
    <2>5. \A i \in 1 .. Len(to) : new[i] = to[i]
      BY <1>1, <2>1, <2>2, <2>3, <2>4
    <2>6. ASSUME NEW i \in 1 .. Len(q) - Len(from) PROVE new[Len(to) + i] = q[Len(from) + i]
      <3>1. /\ Len(to) + i \in 1 .. Len(to) + Len(rest) /\ ~(Len(to) + i <= Len(to))
            /\ Len(to) + i - Len(to) = i
        BY <1>1, <2>1, <2>2
      <3>2. (to \o rest)[Len(to) + i] = rest[i]
        BY <2>4, <3>1
      <3> QED
        BY <2>2, <2>3, <3>2
    <2>7. Len(new) = Len(to) + (Len(q) - Len(from)) /\ Len(to) <= Len(new)
      BY <1>1, <2>1, <2>2, <2>3, <2>4
    <2>8. IsPrefix(to, new)
      BY <2>3, <2>4, <2>5, <2>7, PrefixElements
    <2> QED
      BY <2>1, <2>3, <2>4, <2>5, <2>6, <2>7, <2>8
  <1>4. Rebased(from, from, to) = to
    <2>1. Len(from) + 1 \in Int /\ Len(from) \in Int /\ Len(from) < Len(from) + 1
      BY <1>1
    <2>2. SubSeq(from, Len(from) + 1, Len(from)) = <<>>
      BY <2>1, SubSeqEmpty
    <2>3. to \o <<>> = to
      BY ConcatEmptySeq DEF Path
    <2> QED
      BY <2>2, <2>3 DEF Rebased
  <1>5. Rebased(q, from, to) \in Path
    BY <1>2, <1>3
  <1> QED
    BY <1>2, <1>3, <1>4, <1>5

\* Two paths under the directory stay apart.
LEMMA RebasedInjective ==
    ASSUME NEW p \in Path, NEW q \in Path, NEW from \in Path, NEW to \in Path,
           IsPrefix(from, p), IsPrefix(from, q)
    PROVE  Rebased(p, from, to) = Rebased(q, from, to) <=> p = q
  <1>1. Len(p) \in Nat /\ Len(q) \in Nat /\ Len(from) \in Nat /\ Len(to) \in Nat
    BY PathElements
  <1>2. ASSUME Rebased(p, from, to) = Rebased(q, from, to) PROVE p = q
    <2>1. /\ Len(Rebased(p, from, to)) = Len(to) + (Len(p) - Len(from))
          /\ Len(Rebased(q, from, to)) = Len(to) + (Len(q) - Len(from))
      BY RebasedElements
    <2>2. Len(p) = Len(q)
      BY <1>1, <1>2, <2>1
    <2>3. ASSUME NEW i \in 1 .. Len(p) PROVE p[i] = q[i]
      <3>1. CASE i <= Len(from)
        <4>1. i \in 1 .. Len(from)
          BY <1>1, <3>1
        <4> QED
          BY <4>1, PrefixElements
      <3>2. CASE ~(i <= Len(from))
        <4>1. PICK j \in 1 .. Len(p) - Len(from) : i = Len(from) + j
          <5>1. i - Len(from) \in 1 .. Len(p) - Len(from) /\ i = Len(from) + (i - Len(from))
            BY <1>1, <3>2
          <5> QED
            BY <5>1
        <4>2. j \in 1 .. Len(q) - Len(from)
          BY <2>2, <4>1
        <4>3. Rebased(p, from, to)[Len(to) + j] = p[Len(from) + j]
          BY RebasedElements
        <4>4. Rebased(q, from, to)[Len(to) + j] = q[Len(from) + j]
          BY <4>2, RebasedElements
        <4> QED
          BY <1>2, <4>1, <4>3, <4>4
      <3> QED
        BY <3>1, <3>2
    <2> QED
      BY <2>2, <2>3, PathEquality
  <1> QED
    BY <1>2

\* What is below the directory keeps its parent.
LEMMA RebasedFront ==
    ASSUME NEW q \in Path, NEW from \in Path, NEW to \in Path, Above(from, q)
    PROVE  /\ q # <<>> /\ Rebased(q, from, to) # <<>> /\ IsPrefix(from, Front(q))
           /\ Front(Rebased(q, from, to)) = Rebased(Front(q), from, to)
           /\ Last(Rebased(q, from, to)) = Last(q)
  <1>1. /\ Len(q) \in Nat /\ Len(from) \in Nat /\ Len(to) \in Nat
        /\ Len(from) < Len(q) /\ IsPrefix(from, q)
    BY PathElements, AboveIsPrefix
  <1>2. q # <<>>
    BY <1>1, PathElements
  <1>3. /\ Front(q) \in Path /\ Len(Front(q)) = Len(q) - 1
        /\ \A i \in 1 .. Len(q) - 1 : Front(q)[i] = q[i]
        /\ Last(q) = q[Len(q)]
    BY <1>2, FrontOfPath
  <1>4. IsPrefix(from, Front(q))
    BY <1>2, PrefixOfFront
  <1> DEFINE new == Rebased(q, from, to)
             up == Rebased(Front(q), from, to)
  <1>5. /\ new \in Path
        /\ Len(new) = Len(to) + (Len(q) - Len(from))
        /\ \A i \in 1 .. Len(to) : new[i] = to[i]
        /\ \A i \in 1 .. Len(q) - Len(from) : new[Len(to) + i] = q[Len(from) + i]
    BY <1>1, RebasedElements
  <1>6. /\ up \in Path
        /\ Len(up) = Len(to) + (Len(q) - 1 - Len(from))
        /\ \A i \in 1 .. Len(to) : up[i] = to[i]
        /\ \A i \in 1 .. Len(q) - 1 - Len(from) : up[Len(to) + i] = Front(q)[Len(from) + i]
    <2>1. ASSUME NEW r \in Path, IsPrefix(from, r)
          PROVE  /\ Rebased(r, from, to) \in Path
                 /\ Len(Rebased(r, from, to)) = Len(to) + (Len(r) - Len(from))
                 /\ \A i \in 1 .. Len(to) : Rebased(r, from, to)[i] = to[i]
                 /\ \A i \in 1 .. Len(r) - Len(from) :
                       Rebased(r, from, to)[Len(to) + i] = r[Len(from) + i]
      BY <2>1, RebasedElements
    <2>2. /\ up \in Path
          /\ Len(up) = Len(to) + (Len(Front(q)) - Len(from))
          /\ \A i \in 1 .. Len(to) : up[i] = to[i]
          /\ \A i \in 1 .. Len(Front(q)) - Len(from) : up[Len(to) + i] = Front(q)[Len(from) + i]
      BY <1>3, <1>4, <2>1, Zenon
    <2> HIDE DEF up
    <2> QED
      BY <1>3, <2>2
  <1> HIDE DEF new, up
  <1>7. Len(new) \in Nat \ {0} /\ Len(up) = Len(new) - 1
    BY <1>1, <1>5, <1>6
  <1>8. new # <<>>
    BY <1>5, <1>7, PathElements
  <1>9. /\ Front(new) \in Path /\ Len(Front(new)) = Len(up)
        /\ \A i \in 1 .. Len(up) : Front(new)[i] = new[i]
        /\ Last(new) = new[Len(new)]
    BY <1>5, <1>7, <1>8, FrontOfPath
  <1>10. ASSUME NEW i \in 1 .. Len(up) PROVE new[i] = up[i]
    <2>1. CASE i <= Len(to)
      BY <1>1, <1>5, <1>6, <2>1
    <2>2. CASE ~(i <= Len(to))
      <3>1. PICK j \in 1 .. Len(q) - 1 - Len(from) : i = Len(to) + j
        <4>1. i - Len(to) \in 1 .. Len(q) - 1 - Len(from) /\ i = Len(to) + (i - Len(to))
          BY <1>1, <1>6, <2>2
        <4> QED
          BY <4>1
      <3>2. j \in 1 .. Len(q) - Len(from) /\ Len(from) + j \in 1 .. Len(q) - 1
        BY <1>1
      <3>3. new[Len(to) + j] = q[Len(from) + j]
        BY <1>5, <3>2
      <3>4. up[Len(to) + j] = Front(q)[Len(from) + j]
        BY <1>6
      <3>5. Front(q)[Len(from) + j] = q[Len(from) + j]
        BY <1>3, <3>2
      <3> QED
        BY <3>1, <3>3, <3>4, <3>5
    <2> QED
      BY <2>1, <2>2
  <1>11. Front(new) = up
    <2>1. \A i \in 1 .. Len(Front(new)) : Front(new)[i] = up[i]
      BY <1>9, <1>10
    <2> QED
      BY <1>6, <1>9, <2>1, PathEquality
  <1>12. Last(new) = Last(q)
    <2>1. /\ Len(q) - Len(from) \in 1 .. Len(q) - Len(from)
          /\ Len(to) + (Len(q) - Len(from)) = Len(new)
          /\ Len(from) + (Len(q) - Len(from)) = Len(q)
      BY <1>1, <1>5
    <2>2. new[Len(to) + (Len(q) - Len(from))] = q[Len(from) + (Len(q) - Len(from))]
      BY <1>5, <2>1
    <2> QED
      BY <1>3, <1>9, <2>1, <2>2
  <1> QED
    BY <1>2, <1>4, <1>8, <1>11, <1>12 DEF new, up

-----------------------------------------------------------------------------
(* The order in which primary_mailbox chooses.                              *)

\* Segments are ordered as strings are: by name, then by suffix.
LEMMA SegmentOrder ==
    ASSUME NEW s \in Segment, NEW t \in Segment, NEW u \in Segment
    PROVE  /\ ~SegmentLess(s, s)
           /\ s = t \/ SegmentLess(s, t) \/ SegmentLess(t, s)
           /\ SegmentLess(s, t) /\ SegmentLess(t, u) => SegmentLess(s, u)
  <1> DEFINE suffix(x) == IF x[2] = None THEN -1 ELSE Position[x[2]]
             less(x, y) == \/ Collation[x[1]] < Collation[y[1]]
                           \/ Collation[x[1]] = Collation[y[1]] /\ suffix(x) < suffix(y)
  <1>1. ASSUME NEW x \in Segment
        PROVE  /\ Collation[x[1]] \in Int /\ suffix(x) \in Int
               /\ x[1] \in DOMAIN Lower /\ x[2] \in Box \cup {None} /\ x = <<x[1], x[2]>>
               /\ x[2] = None => suffix(x) = -1
               /\ x[2] # None => suffix(x) >= 0
    BY LayoutAssumption, BoxAssumption DEF Segment
  <1>2. ASSUME NEW x \in Segment, NEW y \in Segment
        PROVE  /\ SegmentLess(x, y) <=> less(x, y)
               /\ x = y <=> Collation[x[1]] = Collation[y[1]] /\ suffix(x) = suffix(y)
    <2>1. x[1] = y[1] <=> Collation[x[1]] = Collation[y[1]]
      BY <1>1, LayoutAssumption
    <2>2. x[2] = y[2] <=> suffix(x) = suffix(y)
      <3>1. x[2] # None => x[2] \in Box /\ suffix(x) = Position[x[2]]
        BY <1>1
      <3>2. y[2] # None => y[2] \in Box /\ suffix(y) = Position[y[2]]
        BY <1>1
      <3> QED
        BY <1>1, <3>1, <3>2, BoxAssumption
    <2>3. suffix(x) < suffix(y) <=> y[2] # None /\ (x[2] = None \/ Position[x[2]] < Position[y[2]])
      <3>1. x[2] # None => Position[x[2]] = suffix(x)
        OBVIOUS
      <3>2. y[2] # None => Position[y[2]] = suffix(y)
        OBVIOUS
      <3> HIDE DEF suffix
      <3> QED
        BY <1>1, <3>1, <3>2
    <2>4. x = y <=> x[1] = y[1] /\ x[2] = y[2]
      BY <1>1
    <2> QED
      BY <2>1, <2>2, <2>3, <2>4 DEF SegmentLess
  <1>3. ~less(s, s)
    BY <1>1
  <1>4. (Collation[s[1]] = Collation[t[1]] /\ suffix(s) = suffix(t)) \/ less(s, t) \/ less(t, s)
    BY <1>1
  <1>5. less(s, t) /\ less(t, u) => less(s, u)
    BY <1>1
  <1> QED
    BY <1>2, <1>3, <1>4, <1>5

\* Paths are ordered as their segments are.
LEMMA PathLessElements ==
    ASSUME NEW p \in Path, NEW q \in Path
    PROVE  PathLess(p, q) <=>
             \E i \in 1 .. Len(q) :
               /\ i <= Len(p) + 1 /\ \A j \in 1 .. i - 1 : p[j] = q[j]
               /\ i = Len(p) + 1 \/ SegmentLess(p[i], q[i])
  <1>1. Len(p) \in Nat /\ Len(q) \in Nat
    BY PathElements
  <1>2. ASSUME NEW i \in 1 .. Len(q), i <= Len(p) + 1
        PROVE  SubSeq(p, 1, i - 1) = SubSeq(q, 1, i - 1) <=> \A j \in 1 .. i - 1 : p[j] = q[j]
    <2>1. i - 1 \in 0 .. Len(p) /\ i - 1 \in 0 .. Len(q)
      BY <1>1, <1>2
    <2>2. /\ SubSeq(p, 1, i - 1) \in Path /\ Len(SubSeq(p, 1, i - 1)) = i - 1
          /\ \A j \in 1 .. i - 1 : SubSeq(p, 1, i - 1)[j] = p[j]
      BY <2>1, PathPrefix
    <2>3. /\ SubSeq(q, 1, i - 1) \in Path /\ Len(SubSeq(q, 1, i - 1)) = i - 1
          /\ \A j \in 1 .. i - 1 : SubSeq(q, 1, i - 1)[j] = q[j]
      BY <2>1, PathPrefix
    <2> QED
      BY <2>2, <2>3, PathEquality
  <1> QED
    BY <1>2 DEF PathLess

\* The order of paths is total.
LEMMA PathOrder ==
    ASSUME NEW p \in Path, NEW q \in Path, NEW r \in Path
    PROVE  /\ ~PathLess(p, p)
           /\ p = q \/ PathLess(p, q) \/ PathLess(q, p)
           /\ PathLess(p, q) /\ PathLess(q, r) => PathLess(p, r)
  <1>1. /\ Len(p) \in Nat /\ Len(q) \in Nat /\ Len(r) \in Nat
        /\ \A i \in 1 .. Len(p) : p[i] \in Segment
        /\ \A i \in 1 .. Len(q) : q[i] \in Segment
        /\ \A i \in 1 .. Len(r) : r[i] \in Segment
    BY PathElements
  <1>2. ~PathLess(p, p)
    <2>1. ASSUME NEW i \in 1 .. Len(p) PROVE ~SegmentLess(p[i], p[i]) /\ i # Len(p) + 1
      BY <1>1, SegmentOrder
    <2> QED
      BY <2>1, PathLessElements
  <1>3. ASSUME p # q PROVE PathLess(p, q) \/ PathLess(q, p)
    <2> DEFINE D == {i \in Nat \ {0} : /\ i <= Len(p) + 1 /\ i <= Len(q) + 1
                                       /\ i = Len(p) + 1 \/ i = Len(q) + 1 \/ p[i] # q[i]}
    <2>1. D # {}
      <3>1. CASE Len(p) <= Len(q)
        <4>1. Len(p) + 1 \in D
          BY <1>1, <3>1
        <4> QED
          BY <4>1
      <3>2. CASE ~(Len(p) <= Len(q))
        <4>1. Len(q) + 1 \in D
          BY <1>1, <3>2
        <4> QED
          BY <4>1
      <3> QED
        BY <3>1, <3>2
    <2>2. PICK i \in D : \A j \in D : i <= j
      <3>1. D \subseteq Nat
        OBVIOUS
      <3>2. PICK i \in D : \A j \in D : ~(<<j, i>> \in OpToRel(<, Nat))
        BY <2>1, <3>1, NatLessThanWellFounded, WFMin
      <3>3. \A j \in D : ~(j < i)
        BY <3>1, <3>2 DEF OpToRel
      <3> QED
        BY <3>1, <3>3
    <2>3. /\ i \in Nat \ {0} /\ i <= Len(p) + 1 /\ i <= Len(q) + 1
          /\ i = Len(p) + 1 \/ i = Len(q) + 1 \/ p[i] # q[i]
      BY <2>2
    <2>4. ASSUME NEW j \in 1 .. i - 1 PROVE p[j] = q[j]
      <3>1. j \in Nat \ {0} /\ j < i
        BY <2>3
      <3>2. j \notin D
        BY <2>2, <2>3, <3>1
      <3> QED
        BY <1>1, <2>3, <3>1, <3>2
    <2>5. CASE i = Len(p) + 1 /\ i = Len(q) + 1
      <3>1. Len(p) = Len(q) /\ \A j \in 1 .. Len(p) : p[j] = q[j]
        BY <1>1, <2>3, <2>4, <2>5
      <3> QED
        BY <1>3, <3>1, PathEquality
    <2>6. CASE i = Len(p) + 1 /\ i # Len(q) + 1
      <3>1. i \in 1 .. Len(q)
        BY <1>1, <2>3, <2>6
      <3> QED
        BY <2>3, <2>4, <2>6, <3>1, PathLessElements
    <2>7. CASE i # Len(p) + 1 /\ i = Len(q) + 1
      <3>1. i \in 1 .. Len(p)
        BY <1>1, <2>3, <2>7
      <3>2. \A j \in 1 .. i - 1 : q[j] = p[j]
        BY <2>4
      <3> QED
        BY <2>3, <2>7, <3>1, <3>2, PathLessElements
    <2>8. CASE i # Len(p) + 1 /\ i # Len(q) + 1
      <3>1. i \in 1 .. Len(p) /\ i \in 1 .. Len(q)
        BY <1>1, <2>3, <2>8
      <3>2. SegmentLess(p[i], q[i]) \/ SegmentLess(q[i], p[i])
        BY <1>1, <2>3, <2>8, <3>1, SegmentOrder
      <3>3. \A j \in 1 .. i - 1 : q[j] = p[j]
        BY <2>4
      <3> QED
        BY <2>3, <2>4, <3>1, <3>2, <3>3, PathLessElements
    <2> QED
      BY <2>5, <2>6, <2>7, <2>8
  <1>4. ASSUME PathLess(p, q), PathLess(q, r) PROVE PathLess(p, r)
    <2>1. PICK i \in 1 .. Len(q) :
               /\ i <= Len(p) + 1 /\ \A k \in 1 .. i - 1 : p[k] = q[k]
               /\ i = Len(p) + 1 \/ SegmentLess(p[i], q[i])
      BY <1>4, PathLessElements
    <2>2. PICK j \in 1 .. Len(r) :
               /\ j <= Len(q) + 1 /\ \A k \in 1 .. j - 1 : q[k] = r[k]
               /\ j = Len(q) + 1 \/ SegmentLess(q[j], r[j])
      BY <1>4, PathLessElements
    <2>3. i \in Nat \ {0} /\ j \in Nat \ {0} /\ i <= Len(q) /\ j <= Len(r)
      BY <1>1, <2>1, <2>2
    <2>4. CASE i < j
      <3>1. q[i] = r[i] /\ i \in 1 .. Len(r)
        BY <1>1, <2>2, <2>3, <2>4
      <3>2. \A k \in 1 .. i - 1 : p[k] = r[k]
        BY <2>1, <2>2, <2>3, <2>4
      <3>3. i = Len(p) + 1 \/ SegmentLess(p[i], r[i])
        BY <2>1, <3>1
      <3> QED
        BY <2>1, <3>1, <3>2, <3>3, PathLessElements
    <2>5. CASE j < i
      <3>1. p[j] = q[j] /\ j <= Len(p) + 1 /\ j # Len(q) + 1
        BY <1>1, <2>1, <2>3, <2>5
      <3>2. \A k \in 1 .. j - 1 : p[k] = r[k]
        BY <2>1, <2>2, <2>3, <2>5
      <3>3. SegmentLess(p[j], r[j])
        BY <2>2, <3>1
      <3> QED
        BY <2>3, <3>1, <3>2, <3>3, PathLessElements
    <2>6. CASE i = j
      <3>1. \A k \in 1 .. i - 1 : p[k] = r[k]
        BY <2>1, <2>2, <2>6
      <3>2. SegmentLess(q[i], r[i])
        BY <1>1, <2>2, <2>3, <2>6
      <3>3. i = Len(p) + 1 \/ SegmentLess(p[i], r[i])
        <4>1. CASE i # Len(p) + 1
          <5>1. p[i] \in Segment /\ q[i] \in Segment /\ r[i] \in Segment
            BY <1>1, <2>1, <2>2, <2>3, <2>6, <4>1
          <5> QED
            BY <2>1, <3>2, <4>1, <5>1, SegmentOrder
        <4> QED
          BY <4>1
      <3> QED
        BY <2>1, <2>2, <2>6, <3>1, <3>3, PathLessElements
    <2> QED
      BY <2>3, <2>4, <2>5, <2>6
  <1> QED
    BY <1>2, <1>3, <1>4

\* A set of naturals has a least element.
LEMMA LeastExists ==
    ASSUME NEW T, T \subseteq Nat, T # {}
    PROVE  \E x \in T : \A y \in T : x <= y
  <1>1. PICK x \in T : \A y \in T : ~(<<y, x>> \in OpToRel(<, Nat))
    BY NatLessThanWellFounded, WFMin
  <1>2. ASSUME NEW y \in T PROVE x <= y
    <2>1. x \in Nat /\ y \in Nat
      OBVIOUS
    <2>2. y < x => <<y, x>> \in OpToRel(<, Nat)
      BY <2>1 DEF OpToRel
    <2>3. ~(y < x)
      BY <1>1, <2>2, Zenon
    <2> QED
      BY <2>1, <2>3
  <1> QED
    BY <1>2

\* What an index says of a mailbox it knows.
LEMMA IndexEntries ==
    ASSUME NEW index \in Index
    PROVE  /\ \A b \in KnownIn(index.box) :
                 /\ b \in Box /\ index.box[b] \in BoxEntry
                 /\ index.box[b].dir \in Path /\ index.box[b].info \in Info
           /\ \A m \in Msg : index.mail[m] # None =>
                 /\ index.mail[m] \in MailEntry
                 /\ index.mail[m].dir \in Path /\ index.mail[m].in \subseteq Box
    BY DEF Index, KnownIn, BoxEntry, MailEntry

\* Of several mailboxes, one is first.
LEMMA FirstExists ==
    ASSUME NEW index \in Index, NEW s, s \subseteq KnownIn(index.box), s # {}
    PROVE  \E b \in s : \A c \in s \ {b} : Outranks(index, b, c)
  <1> DEFINE dir(b) == index.box[b].dir
             ahead(b) == {c \in s : Outranks(index, c, b)}
  <1>1. IsFiniteSet(s)
    BY BoxAssumption, FS_Subset DEF KnownIn
  <1>2. ASSUME NEW b \in s
        PROVE b \in Box /\ dir(b) \in Path /\ Rank[b] \in Int /\ Position[b] \in Int
    BY IndexEntries, BoxAssumption
  <1>3. ASSUME NEW b \in s, NEW c \in s
        PROVE  Outranks(index, b, c) <=>
                 \/ Rank[b] < Rank[c]
                 \/ Rank[b] = Rank[c] /\ PathLess(dir(b), dir(c))
                 \/ Rank[b] = Rank[c] /\ dir(b) = dir(c) /\ Position[b] < Position[c]
    BY DEF Outranks
  <1>4. ASSUME NEW b \in s PROVE ~Outranks(index, b, b)
    <2>1. ~PathLess(dir(b), dir(b))
      BY <1>2, PathOrder
    <2> QED
      BY <1>2, <1>3, <2>1
  <1>5. ASSUME NEW b \in s, NEW c \in s \ {b} PROVE Outranks(index, b, c) \/ Outranks(index, c, b)
    <2>1. dir(b) = dir(c) \/ PathLess(dir(b), dir(c)) \/ PathLess(dir(c), dir(b))
      BY <1>2, PathOrder
    <2>2. Position[b] # Position[c]
      BY <1>2, BoxAssumption
    <2> HIDE DEF dir
    <2> QED
      BY <1>2, <1>3, <2>1, <2>2
  <1>6. ASSUME NEW b \in s, NEW c \in s, NEW d \in s, Outranks(index, b, c), Outranks(index, c, d)
        PROVE  Outranks(index, b, d)
    <2>1. PathLess(dir(b), dir(c)) /\ PathLess(dir(c), dir(d)) => PathLess(dir(b), dir(d))
      BY <1>2, PathOrder
    <2> HIDE DEF dir
    <2> QED
      BY <1>2, <1>3, <1>6, <2>1
  <1>7. ASSUME NEW b \in s PROVE IsFiniteSet(ahead(b)) /\ Cardinality(ahead(b)) \in Nat
    BY <1>1, FS_Subset, FS_CardinalityType
  <1> DEFINE T == {Cardinality(ahead(b)) : b \in s}
  <1>8. PICK b \in s : \A c \in s : Cardinality(ahead(b)) <= Cardinality(ahead(c))
    <2>1. T \subseteq Nat /\ T # {}
      BY <1>7
    <2>2. PICK x \in T : \A y \in T : x <= y
      BY <2>1, LeastExists
    <2> QED
      BY <2>2
  <1>9. ASSUME NEW c \in s \ {b}, ~Outranks(index, b, c) PROVE FALSE
    <2>1. Outranks(index, c, b)
      BY <1>5, <1>9
    <2>2. ahead(c) \subseteq ahead(b)
      BY <1>6, <2>1
    <2>3. c \in ahead(b) /\ c \notin ahead(c)
      BY <1>4, <2>1
    <2>4. Cardinality(ahead(c)) < Cardinality(ahead(b))
      <3>1. /\ IsFiniteSet(ahead(b)) /\ ahead(c) # ahead(b)
            /\ Cardinality(ahead(b)) \in Nat /\ Cardinality(ahead(c)) \in Nat
        BY <1>7, <2>3
      <3> HIDE DEF ahead
      <3> QED
        BY <2>2, <3>1, FS_Subset
    <2>5. Cardinality(ahead(b)) <= Cardinality(ahead(c))
      BY <1>8
    <2>6. Cardinality(ahead(b)) \in Nat /\ Cardinality(ahead(c)) \in Nat
      BY <1>7
    <2> HIDE DEF ahead
    <2> QED
      BY <2>4, <2>5, <2>6
  <1> QED
    BY <1>9

\* Mail goes to the directory of one of its mailboxes, if any is known.
LEMMA DirForMail ==
    ASSUME NEW index \in Index, NEW in
    PROVE  LET known == in \cap KnownIn(index.box) IN
           /\ known = {} => DirFor(index, in) = Unfiled
           /\ known # {} => \E b \in known : DirFor(index, in) = index.box[b].dir
  <1> DEFINE known == in \cap KnownIn(index.box)
             first(b) == \A c \in known \ {b} : Outranks(index, b, c)
  <1>1. ASSUME known # {} PROVE (CHOOSE b \in known : first(b)) \in known
    <2>1. \E b \in known : first(b)
      BY <1>1, FirstExists
    <2> HIDE DEF known, first
    <2> QED
      BY <2>1
  <1> QED
    BY <1>1 DEF DirFor

\* The directory of unfiled mail is a path, and so is that of any mail.
LEMMA DirForPath ==
    ASSUME NEW index \in Index, NEW in
    PROVE  /\ Unfiled \in Path /\ Len(Unfiled) = 1 /\ Unfiled # <<>>
           /\ Unfiled[1] = <<"_unfiled", None>>
           /\ DirFor(index, in) \in Path
  <1>1. <<"_unfiled", None>> \in Segment
    BY LayoutAssumption DEF Segment
  <1>2. Unfiled \in Path /\ Len(Unfiled) = 1 /\ Unfiled # <<>> /\ Unfiled[1] = <<"_unfiled", None>>
    BY <1>1 DEF Unfiled, Path
  <1> QED
    BY <1>2, DirForMail, IndexEntries

-----------------------------------------------------------------------------
(* Types.                                                                   *)

Worktree == [dirs : SUBSET (Path \ {<<>>}), card : SUBSET CardFile,
             eml : SUBSET EmlFile, side : SUBSET SideFile]
File == ({"card"} \X Path) \cup ({"eml", "sidecar"} \X Path \X Msg)
Edits == {e \in [up : SUBSET File, rm : SUBSET File] : e.up \cap e.rm = {}}
FiniteCards(t) == IsFiniteSet(t.card) /\ IsFiniteSet(t.side)

AccountTyped ==
    /\ boxes \in [Box -> Info \cup {None}] /\ retired \subseteq Box
    /\ mail \in [Msg -> SUBSET Box]
    /\ version \in 1 .. MaxVersion /\ touched \in [Msg -> 0 .. MaxVersion]
    /\ {git, calm} \subseteq BOOLEAN
StoreTyped ==
    /\ disk \in Worktree /\ FiniteCards(disk)
    /\ head \in Tree /\ FiniteCards(head)
    /\ saved \in Saved \cup {None}
ProcessTyped == ix \in Index /\ edits \in Edits
PassTyped ==
    /\ pc \in {"idle", "list", "plan", "upsert", "card", "mail", "prune", "commit", "save"}
    /\ stage \in {"none", "sync", "refresh", "backfill"}
    /\ delta \in [changed : SUBSET Msg, destroyed : SUBSET Msg]
    /\ plan \in [add : SUBSET Msg, update : SUBSET Msg, delete : SUBSET Msg,
                 in : [Msg -> SUBSET Box], uncommitted : BOOLEAN]
    /\ listed \in [Box -> Info \cup {None}]
    /\ todo \subseteq Box /\ gone \subseteq Box /\ target \in 0 .. MaxVersion
    /\ done \in {"none", "sync", "refresh", "backfill", "failed"}
    /\ pc = "idle" => todo = {} /\ plan = NoPlan
    /\ pc # "idle" => stage # "none"
    /\ {wrecked} \subseteq BOOLEAN /\ stops \in 0 .. MaxStops

\* What waits in a queue is there: mailboxes to write are on the list,
\* mailboxes to remove and mail to update are in the index.
QueuesKnown ==
    /\ pc \in {"plan", "upsert", "card"} => todo \subseteq KnownIn(listed)
    /\ pc = "idle" => gone = {}
    /\ pc \in {"plan", "upsert", "card", "mail"} => gone \subseteq KnownIn(ix.box)
    /\ pc = "prune" => todo \subseteq KnownIn(ix.box)
    /\ pc \in {"list", "plan", "upsert", "card", "mail"} =>
          \A m \in plan.update : ix.mail[m] # None

TypeInv == AccountTyped /\ StoreTyped /\ ProcessTyped /\ PassTyped /\ QueuesKnown

\* The parts make up the type invariant.
LEMMA TypeParts ==
    AccountTyped /\ StoreTyped /\ ProcessTyped /\ PassTyped => TypeOK
    BY DEF AccountTyped, StoreTyped, ProcessTyped, PassTyped, TypeOK, Worktree, File, Edits

\* The image of a finite set.
LEMMA ImageFinite ==
    ASSUME NEW S, NEW T, IsFiniteSet(S), NEW f \in [S -> T], \A y \in T : \E x \in S : f[x] = y
    PROVE  IsFiniteSet(T)
  <1>1. f \in Surjection(S, T)
    BY DEF Surjection
  <1> QED
    BY <1>1, FS_Surjection

\* create_dir_all makes paths.
LEMMA AncestorsTyped ==
    ASSUME NEW p \in Path
    PROVE  Ancestors(p) \subseteq Path \ {<<>>}
    BY AncestorsArePrefixes

\* Writing a card.
LEMMA PutCardTyped ==
    ASSUME NEW d \in Worktree, FiniteCards(d), NEW p \in Path, NEW b \in Box, NEW info \in Info
    PROVE  PutCard(d, p, b, info) \in Worktree /\ FiniteCards(PutCard(d, p, b, info))
  <1> DEFINE cards == (d.card \ CardAt(d, p)) \cup {[at |-> p, box |-> b, info |-> info]}
  <1>1. PutCard(d, p, b, info) = [d EXCEPT !.dirs = d.dirs \cup Ancestors(p), !.card = cards]
    BY DEF PutCard
  <1>2. cards \subseteq CardFile
    BY DEF CardFile, Worktree
  <1>3. IsFiniteSet(cards)
    BY FS_Difference, FS_AddElement DEF FiniteCards
  <1>4. d.dirs \cup Ancestors(p) \subseteq Path \ {<<>>}
    BY AncestorsTyped DEF Worktree
  <1> HIDE DEF cards
  <1> QED
    BY <1>1, <1>2, <1>3, <1>4 DEF Worktree, FiniteCards

\* Writing a sidecar, with or without the mail, and removing both.
LEMMA PutSideTyped ==
    ASSUME NEW d \in Worktree, FiniteCards(d), NEW p \in Path, NEW m \in Msg, NEW in \in SUBSET Box
    PROVE  /\ PutSide(d, p, m, in) \in Worktree /\ FiniteCards(PutSide(d, p, m, in))
           /\ PutMail(d, p, m, in) \in Worktree /\ FiniteCards(PutMail(d, p, m, in))
           /\ DropMail(d, p, m) \in Worktree /\ FiniteCards(DropMail(d, p, m))
  <1> DEFINE sides == (d.side \ SideAt(d, p, m)) \cup {[at |-> p, msg |-> m, in |-> in]}
  <1>1. PutSide(d, p, m, in) = [d EXCEPT !.dirs = d.dirs \cup Ancestors(p), !.side = sides]
    BY DEF PutSide
  <1>2. sides \subseteq SideFile /\ d.eml \cup {<<p, m>>} \subseteq EmlFile
    BY DEF SideFile, EmlFile, Worktree
  <1>3. IsFiniteSet(sides) /\ IsFiniteSet(d.side \ SideAt(d, p, m))
    BY FS_Difference, FS_AddElement DEF FiniteCards
  <1>4. d.dirs \cup Ancestors(p) \subseteq Path \ {<<>>}
    BY AncestorsTyped DEF Worktree
  <1>5. PutSide(d, p, m, in) \in Worktree /\ FiniteCards(PutSide(d, p, m, in))
    <2> HIDE DEF sides
    <2> QED
      BY <1>1, <1>2, <1>3, <1>4 DEF Worktree, FiniteCards
  <1>6. PutSide(d, p, m, in).eml = d.eml
    BY DEF PutSide, Worktree
  <1>7. PutMail(d, p, m, in) = [PutSide(d, p, m, in) EXCEPT !.eml = d.eml \cup {<<p, m>>}]
    BY <1>6 DEF PutMail
  <1>8. PutMail(d, p, m, in) \in Worktree /\ FiniteCards(PutMail(d, p, m, in))
    BY <1>2, <1>5, <1>7 DEF Worktree, FiniteCards
  <1>9. DropMail(d, p, m) \in Worktree /\ FiniteCards(DropMail(d, p, m))
    BY <1>3 DEF DropMail, Worktree, FiniteCards
  <1> QED
    BY <1>5, <1>8, <1>9

\* Renaming a directory.
LEMMA DirRenamedTyped ==
    ASSUME NEW d \in Worktree, FiniteCards(d), NEW from \in Path, NEW to \in Path, to # <<>>
    PROVE  DirRenamed(d, from, to) \in Worktree /\ FiniteCards(DirRenamed(d, from, to))
  <1>1. Ancestors(to) \subseteq Path \ {<<>>}
    BY AncestorsTyped
  <1>2. ASSUME NEW p \in Path PROVE Rebased(p, from, to) \in Path /\ (p # <<>> => Rebased(p, from, to) # <<>>)
    <2>1. Len(p) \in Nat /\ Len(to) \in Nat \ {0} /\ Len(from) \in Nat
      BY PathElements
    <2>2. CASE IsPrefix(from, p)
      <3>1. /\ Rebased(p, from, to) \in Path /\ Len(from) <= Len(p)
            /\ Len(Rebased(p, from, to)) = Len(to) + (Len(p) - Len(from))
        BY <2>2, RebasedElements
      <3>2. Len(Rebased(p, from, to)) # 0
        BY <2>1, <3>1
      <3> QED
        BY <3>1, <3>2, PathElements
    <2>3. CASE ~IsPrefix(from, p)
      BY <2>3, RebasedElements
    <2> QED
      BY <2>2, <2>3
  <1> DEFINE move(f) == [f EXCEPT !.at = Rebased(f.at, from, to)]
             cards == {move(c) : c \in d.card}
             sides == {move(c) : c \in d.side}
             emls == {<<Rebased(f[1], from, to), f[2]>> : f \in d.eml}
             dirs == {Rebased(p, from, to) : p \in d.dirs} \cup Ancestors(to)
  <1>3. cards \subseteq CardFile /\ sides \subseteq SideFile
    BY <1>2 DEF Worktree, CardFile, SideFile
  <1>4. emls \subseteq EmlFile /\ dirs \subseteq Path \ {<<>>}
    BY <1>1, <1>2 DEF Worktree, EmlFile
  <1>5. IsFiniteSet(cards) /\ IsFiniteSet(sides)
    <2> DEFINE f == [c \in d.card |-> move(c)]
               g == [c \in d.side |-> move(c)]
    <2>1. f \in [d.card -> cards] /\ \A y \in cards : \E c \in d.card : f[c] = y
      OBVIOUS
    <2>2. g \in [d.side -> sides] /\ \A y \in sides : \E c \in d.side : g[c] = y
      OBVIOUS
    <2> HIDE DEF f, g, cards, sides
    <2>3. IsFiniteSet(cards)
      BY <2>1, ImageFinite, Zenon DEF FiniteCards
    <2>4. IsFiniteSet(sides)
      BY <2>2, ImageFinite, Zenon DEF FiniteCards
    <2> QED
      BY <2>3, <2>4
  <1>6. CASE from \in d.dirs
    <2>1. DirRenamed(d, from, to) = [dirs |-> dirs, card |-> cards, side |-> sides, eml |-> emls]
      BY <1>6 DEF DirRenamed
    <2> HIDE DEF dirs, cards, sides, emls
    <2> QED
      BY <1>3, <1>4, <1>5, <2>1 DEF Worktree, FiniteCards
  <1>7. CASE from \notin d.dirs
    <2>1. DirRenamed(d, from, to) = [d EXCEPT !.dirs = d.dirs \cup Ancestors(to)]
      BY <1>7 DEF DirRenamed
    <2> QED
      BY <1>1, <2>1 DEF Worktree, FiniteCards
  <1> QED
    BY <1>6, <1>7

\* Renaming in the index changes no mailbox and no message but for the path.
LEMMA IndexRebasedTyped ==
    ASSUME ix \in Index, NEW from \in Path, NEW to \in Path
    PROVE  /\ IndexRebased(from, to) \in Index
           /\ \A b \in Box :
                IndexRebased(from, to).box[b] =
                  IF ix.box[b] = None THEN None
                  ELSE [info |-> ix.box[b].info, dir |-> Rebased(ix.box[b].dir, from, to)]
           /\ \A m \in Msg :
                IndexRebased(from, to).mail[m] =
                  IF ix.mail[m] = None THEN None
                  ELSE [in |-> ix.mail[m].in, dir |-> Rebased(ix.mail[m].dir, from, to)]
           /\ KnownIn(IndexRebased(from, to).box) = KnownIn(ix.box)
           /\ \A m \in Msg : IndexRebased(from, to).mail[m] = None <=> ix.mail[m] = None
  <1> DEFINE new == IndexRebased(from, to)
             boxEntry(b) == [info |-> ix.box[b].info, dir |-> Rebased(ix.box[b].dir, from, to)]
             mailEntry(m) == [in |-> ix.mail[m].in, dir |-> Rebased(ix.mail[m].dir, from, to)]
  <1> DEFINE moved(e) == IF e = None THEN None ELSE [e EXCEPT !.dir = Rebased(e.dir, from, to)]
  <1>0. /\ \A b \in Box : new.box[b] = moved(ix.box[b])
        /\ \A m \in Msg : new.mail[m] = moved(ix.mail[m])
    BY DEF IndexRebased
  <1>1. ASSUME NEW b \in Box
        PROVE  /\ ix.box[b] # None => ix.box[b] \in BoxEntry /\ boxEntry(b) \in BoxEntry
               /\ new.box[b] = IF ix.box[b] = None THEN None ELSE boxEntry(b)
    <2>1. CASE ix.box[b] # None
      <3>1. ix.box[b] \in BoxEntry
        BY <2>1 DEF Index
      <3>2. Rebased(ix.box[b].dir, from, to) \in Path
        BY <3>1, RebasedElements DEF BoxEntry
      <3>3. [ix.box[b] EXCEPT !.dir = Rebased(ix.box[b].dir, from, to)] = boxEntry(b)
        BY <3>1 DEF BoxEntry
      <3> QED
        BY <1>0, <2>1, <3>1, <3>2, <3>3 DEF BoxEntry
    <2>2. CASE ix.box[b] = None
      BY <1>0, <2>2
    <2> QED
      BY <2>1, <2>2
  <1>2. ASSUME NEW m \in Msg
        PROVE  /\ ix.mail[m] # None => ix.mail[m] \in MailEntry /\ mailEntry(m) \in MailEntry
               /\ new.mail[m] = IF ix.mail[m] = None THEN None ELSE mailEntry(m)
    <2>1. CASE ix.mail[m] # None
      <3>1. ix.mail[m] \in MailEntry
        BY <2>1 DEF Index
      <3>2. Rebased(ix.mail[m].dir, from, to) \in Path
        BY <3>1, RebasedElements DEF MailEntry
      <3>3. [ix.mail[m] EXCEPT !.dir = Rebased(ix.mail[m].dir, from, to)] = mailEntry(m)
        BY <3>1 DEF MailEntry
      <3> QED
        BY <1>0, <2>1, <3>1, <3>2, <3>3 DEF MailEntry
    <2>2. CASE ix.mail[m] = None
      BY <1>0, <2>2
    <2> QED
      BY <2>1, <2>2
  <1>3. new \in Index
    <2>1. \A b \in Box : new.box[b] \in BoxEntry \cup {None}
      BY <1>1
    <2>2. \A m \in Msg : new.mail[m] \in MailEntry \cup {None}
      BY <1>2
    <2>3. new = [box |-> new.box, mail |-> new.mail]
      BY DEF IndexRebased
    <2>4. new.box = [b \in Box |-> new.box[b]] /\ new.mail = [m \in Msg |-> new.mail[m]]
      BY DEF IndexRebased
    <2>5. new.box \in [Box -> BoxEntry \cup {None}]
      <3> HIDE DEF new
      <3> QED
        BY <2>1, <2>4
    <2>6. new.mail \in [Msg -> MailEntry \cup {None}]
      <3> HIDE DEF new
      <3> QED
        BY <2>2, <2>4
    <2> HIDE DEF new
    <2> QED
      BY <2>3, <2>5, <2>6 DEF Index
  <1>4. ASSUME NEW b \in Box PROVE new.box[b] = None <=> ix.box[b] = None
    BY <1>1, NoneAssumption
  <1>5. ASSUME NEW m \in Msg PROVE new.mail[m] = None <=> ix.mail[m] = None
    BY <1>2, NoneAssumption
  <1>6. KnownIn(new.box) = KnownIn(ix.box)
    BY <1>4 DEF KnownIn
  <1> QED
    BY <1>1, <1>2, <1>3, <1>5, <1>6

\* Recording edits.
LEMMA EditsTyped ==
    ASSUME NEW e \in Edits, NEW fs \in SUBSET File
    PROVE  Upserting(e, fs) \in Edits /\ Removing(e, fs) \in Edits
    BY DEF Edits, Upserting, Removing

\* The files of an index.
LEMMA FilesTyped ==
    /\ \A p \in Path : Card(p) \in File
    /\ \A p \in Path, m \in Msg : Mail(p, m) \subseteq File
    /\ \A index \in Index : \A dir : FilesUnder(index, dir) \subseteq File
  <1>1. \A p \in Path : Card(p) \in File
    BY DEF Card, File
  <1>2. \A p \in Path, m \in Msg : Mail(p, m) \subseteq File
    BY DEF Mail, Eml, Sidecar, File
  <1>3. ASSUME NEW index \in Index, NEW dir PROVE FilesUnder(index, dir) \subseteq File
    <2> DEFINE cards == {b \in KnownIn(index.box) : index.box[b].dir = dir \/ Above(dir, index.box[b].dir)}
               mails == {m \in Msg : index.mail[m] # None
                            /\ (index.mail[m].dir = dir \/ Above(dir, index.mail[m].dir))}
    <2>1. {Card(index.box[b].dir) : b \in cards} \subseteq File
      BY <1>1, IndexEntries
    <2>2. UNION {Mail(index.mail[m].dir, m) : m \in mails} \subseteq File
      BY <1>2, IndexEntries
    <2> QED
      BY <2>1, <2>2 DEF FilesUnder
  <1> QED
    BY <1>1, <1>2, <1>3

\* What is committed is a tree.
LEMMA BuiltTreeTyped ==
    ASSUME StoreTyped
    PROVE  BuiltTree \in Tree /\ FiniteCards(BuiltTree)
  <1>1. /\ BuiltTree.card \subseteq head.card \cup disk.card
        /\ BuiltTree.eml \subseteq head.eml \cup disk.eml
        /\ BuiltTree.side \subseteq head.side \cup disk.side
        /\ BuiltTree = [card |-> BuiltTree.card, eml |-> BuiltTree.eml, side |-> BuiltTree.side]
    BY DEF BuiltTree
  <1>2. /\ IsFiniteSet(head.card \cup disk.card) /\ IsFiniteSet(head.side \cup disk.side)
    BY FS_Union DEF StoreTyped, FiniteCards
  <1>3. FiniteCards(BuiltTree)
    BY <1>1, <1>2, FS_Subset DEF FiniteCards
  <1>4. /\ head.card \cup disk.card \subseteq CardFile
        /\ head.eml \cup disk.eml \subseteq EmlFile
        /\ head.side \cup disk.side \subseteq SideFile
    BY DEF StoreTyped, Worktree, Tree
  <1>5. BuiltTree \in Tree
    BY <1>1, <1>4 DEF Tree
  <1> QED
    BY <1>3, <1>5

\* A set of numbers with 1 in it and another at least that.
LEMMA AtMostOne ==
    ASSUME NEW n \in Nat
    PROVE  Min({1, n}) = IF n = 0 THEN 0 ELSE 1
    BY DEF Min

\* A scan gives indexes.
LEMMA RebuiltTyped ==
    ASSUME NEW t, t \in Tree \/ t \in Worktree, FiniteCards(t)
    PROVE  Rebuilt(t) \subseteq Index
  <1> DEFINE cards(b) == {c \in t.card : c.box = b}
             copies(m) == {f \in t.side : f.msg = m}
             once(s) == /\ \A b \in Box : Cardinality(s \cap cards(b)) = Min({1, Cardinality(cards(b))})
                        /\ \A m \in Msg : Cardinality(s \cap copies(m)) = Min({1, Cardinality(copies(m))})
             last == {s \in SUBSET (t.card \cup t.side) : once(s)}
             card(s, b) == CHOOSE c \in s : c \in cards(b)
             copy(s, m) == CHOOSE f \in s : f \in copies(m)
             found(s) == [box |-> [b \in Box |-> IF cards(b) = {} THEN None
                                     ELSE [info |-> card(s, b).info, dir |-> card(s, b).at]],
                          mail |-> [m \in Msg |-> IF copies(m) = {} THEN None
                                     ELSE [in |-> copy(s, m).in, dir |-> copy(s, m).at]]]
  <1>1. Rebuilt(t) = {found(s) : s \in last}
    BY DEF Rebuilt
  <1>2. t.card \subseteq CardFile /\ t.side \subseteq SideFile
    BY DEF Tree, Worktree
  <1>3. ASSUME NEW C, NEW s, IsFiniteSet(C), C # {}, Cardinality(s \cap C) = Min({1, Cardinality(C)})
        PROVE  \E c \in s : c \in C
    <2>1. Cardinality(C) \in Nat /\ Cardinality(C) # 0
      BY <1>3, FS_CardinalityType, FS_EmptySet
    <2>2. Cardinality(s \cap C) = 1
      BY <1>3, <2>1, AtMostOne
    <2>3. s \cap C # {}
      BY <2>2, FS_EmptySet
    <2> QED
      BY <2>3
  <1>4. ASSUME NEW b \in Box PROVE IsFiniteSet(cards(b))
    BY FS_Subset DEF FiniteCards
  <1>5. ASSUME NEW m \in Msg PROVE IsFiniteSet(copies(m))
    BY FS_Subset DEF FiniteCards
  <1>6. ASSUME NEW s \in last, NEW b \in Box, cards(b) # {}
        PROVE  card(s, b) \in CardFile
    <2>1. Cardinality(s \cap cards(b)) = Min({1, Cardinality(cards(b))})
      OBVIOUS
    <2>2. \E c \in s : c \in cards(b)
      <3> HIDE DEF cards
      <3> QED
        BY <1>3, <1>4, <1>6, <2>1
    <2>3. card(s, b) \in cards(b)
      <3> HIDE DEF cards
      <3> QED
        BY <2>2
    <2> QED
      BY <1>2, <2>3
  <1>7. ASSUME NEW s \in last, NEW m \in Msg, copies(m) # {}
        PROVE  copy(s, m) \in SideFile
    <2>1. Cardinality(s \cap copies(m)) = Min({1, Cardinality(copies(m))})
      OBVIOUS
    <2>2. \E f \in s : f \in copies(m)
      <3> HIDE DEF copies
      <3> QED
        BY <1>3, <1>5, <1>7, <2>1
    <2>3. copy(s, m) \in copies(m)
      <3> HIDE DEF copies
      <3> QED
        BY <2>2
    <2> QED
      BY <1>2, <2>3
  <1>8. ASSUME NEW s \in last PROVE found(s) \in Index
    <2>1. found(s).box \in [Box -> BoxEntry \cup {None}]
      <3>1. ASSUME NEW b \in Box, cards(b) # {}
            PROVE  [info |-> card(s, b).info, dir |-> card(s, b).at] \in BoxEntry
        <4>1. card(s, b) \in CardFile
          BY <1>6, <3>1
        <4> HIDE DEF card
        <4> QED
          BY <4>1 DEF CardFile, BoxEntry
      <3> HIDE DEF card, cards
      <3> QED
        BY <3>1
    <2>2. found(s).mail \in [Msg -> MailEntry \cup {None}]
      <3>1. ASSUME NEW m \in Msg, copies(m) # {}
            PROVE  [in |-> copy(s, m).in, dir |-> copy(s, m).at] \in MailEntry
        <4>1. copy(s, m) \in SideFile
          BY <1>7, <3>1
        <4> HIDE DEF copy
        <4> QED
          BY <4>1 DEF SideFile, MailEntry
      <3> HIDE DEF copy, copies
      <3> QED
        BY <3>1
    <2>3. found(s) = [box |-> found(s).box, mail |-> found(s).mail]
      OBVIOUS
    <2> HIDE DEF found
    <2> QED
      BY <2>1, <2>2, <2>3 DEF Index
  <1> HIDE DEF found, last
  <1> QED
    BY <1>1, <1>8

\* The index a pass opens.
LEMMA OpenIndexTyped ==
    ASSUME StoreTyped
    PROVE  OpenIndex \subseteq Index
  <1>1. saved # None => saved.index \in Index
    BY DEF StoreTyped, Saved
  <1>2. Rebuilt(head) \subseteq Index /\ Rebuilt(disk) \subseteq Index
    BY RebuiltTyped DEF StoreTyped
  <1> QED
    BY <1>1, <1>2 DEF OpenIndex

\* The index a pass begins with.
LEMMA IndexAtHandTyped ==
    ASSUME StoreTyped
    PROVE  IndexAtHand \subseteq Index
  <1>1. saved # None => saved.index \in Index
    BY DEF StoreTyped, Saved
  <1> QED
    BY <1>1, OpenIndexTyped DEF IndexAtHand

\* The directories that are chosen for a mailbox are its parent's and a segment
\* of its own name, hashed with its own id if at all.
LEMMA AssignedDirs ==
    ASSUME ix \in Index, listed \in [Box -> Info \cup {None}], NEW b \in KnownIn(listed)
    PROVE  LET prefix == ParentDir(listed[b]) IN
           /\ prefix \in Path
           /\ \A dir \in {NewDir(b), MovedDir(b)} :
                /\ dir \in Path /\ dir # <<>> /\ Front(dir) = prefix
                /\ Last(dir)[2] \in {None, b}
  <1> DEFINE prefix == ParentDir(listed[b])
             dir(taken) == Append(prefix, Assigned(b, listed[b].name, taken))
             first == dir(Taken(b, prefix))
  <1>1. b \in Box /\ listed[b] \in Info
    BY DEF KnownIn
  <1>2. prefix \in Path
    <2>1. listed[b].parent # None /\ ix.box[listed[b].parent] # None =>
             listed[b].parent \in KnownIn(ix.box)
      BY <1>1 DEF Info, KnownIn
    <2>2. <<>> \in Path
      BY EmptySeq DEF Path
    <2> QED
      BY <2>1, <2>2, IndexEntries DEF ParentDir
  <1>3. ASSUME NEW taken
        PROVE  /\ Assigned(b, listed[b].name, taken) \in Segment
               /\ Assigned(b, listed[b].name, taken)[2] \in {None, b}
    BY <1>1, LayoutAssumption DEF Assigned, Segment, Info
  <1>4. ASSUME NEW taken
        PROVE  /\ dir(taken) \in Path /\ dir(taken) # <<>> /\ Front(dir(taken)) = prefix
               /\ Last(dir(taken))[2] \in {None, b}
    BY <1>2, <1>3, AppendToPath
  <1>5. MovedDir(b) = dir(Taken(b, prefix))
    BY DEF MovedDir
  <1>6. \E taken : NewDir(b) = dir(taken)
    <2>1. NewDir(b) = IF \E c \in CardAt(disk, first) : c.box # b
                      THEN dir(Taken(b, prefix) \cup {Fold(Last(first))}) ELSE dir(Taken(b, prefix))
      BY DEF NewDir
    <2> HIDE DEF dir
    <2> QED
      BY <2>1
  <1> HIDE DEF dir, prefix
  <1>7. QED
    BY <1>2, <1>4, <1>5, <1>6 DEF prefix

\* At first everything has its type.
LEMMA InitTyped ==
    ASSUME Init
    PROVE  TypeInv
  <1>1. PICK s \in Starts : /\ boxes = s.boxes /\ mail = s.mail /\ filter = s.filter
                            /\ git = s.git /\ calm = TRUE
    BY DEF Init
  <1>2. AccountTyped
    BY <1>1, StartsAssumption, TreeBounds DEF Init, AccountTyped, KnownIn
  <1>3. StoreTyped
    BY FS_EmptySet DEF Init, StoreTyped, EmptyDisk, EmptyTree, Worktree, Tree, FiniteCards
  <1>4. ProcessTyped
    BY DEF Init, ProcessTyped, EmptyIndex, Index, NoEdits, Edits
  <1>5. PassTyped
    <2>1. listed \in [Box -> Info \cup {None}] /\ todo = {} /\ gone = {} /\ target \in 0 .. MaxVersion
      BY TreeBounds DEF Init
    <2>2. delta = NoDelta /\ NoDelta \in [changed : SUBSET Msg, destroyed : SUBSET Msg]
      BY DEF Init, NoDelta
    <2>3. /\ plan = NoPlan
          /\ NoPlan \in [add : SUBSET Msg, update : SUBSET Msg, delete : SUBSET Msg,
                         in : [Msg -> SUBSET Box], uncommitted : BOOLEAN]
      BY DEF Init, NoPlan
    <2>4. /\ pc = "idle" /\ stage = "none" /\ done = "none" /\ wrecked = FALSE
          /\ stops \in 0 .. MaxStops
      BY TreeBounds DEF Init
    <2> QED
      BY <2>1, <2>2, <2>3, <2>4 DEF PassTyped
  <1>6. QueuesKnown
    BY DEF Init, QueuesKnown, NoPlan
  <1> QED
    BY <1>2, <1>3, <1>4, <1>5, <1>6 DEF TypeInv

\* The account changes nothing but itself.
LEMMA AccountStepTyped ==
    ASSUME TypeInv, Account
    PROVE  TypeInv'
  <1>1. AccountTyped
    BY DEF TypeInv
  <1>2. version < MaxVersion /\ version' = version + 1 /\ UNCHANGED git /\ calm' \in BOOLEAN
    BY DEF Account, CreateBox, RelocateBox, DestroyBox, FileMessage, ServerBoxes, ServerStep
  <1>3. version' \in 1 .. MaxVersion
    BY <1>1, <1>2, TreeBounds DEF AccountTyped
  <1>4. boxes' \in [Box -> Info \cup {None}] /\ retired' \subseteq Box
    <2>1. ASSUME NEW b \in Box, NEW name \in Name, NEW parent \in Box \cup {None},
                 CreateBox(b, name, parent) \/ RelocateBox(b, name, parent)
          PROVE  boxes' \in [Box -> Info \cup {None}] /\ retired' \subseteq Box
      <3>1. [name |-> name, parent |-> parent] \in Info
        BY DEF Info
      <3>2. boxes' = [boxes EXCEPT ![b] = [name |-> name, parent |-> parent]] /\ retired' = retired
        BY <2>1 DEF CreateBox, RelocateBox, ServerBoxes
      <3> QED
        BY <1>1, <3>1, <3>2 DEF AccountTyped
    <2>2. ASSUME NEW b \in Box, DestroyBox(b)
          PROVE  boxes' \in [Box -> Info \cup {None}] /\ retired' \subseteq Box
      BY <1>1, <2>2 DEF AccountTyped, DestroyBox
    <2>3. ASSUME NEW m \in Msg, NEW in \in SUBSET Box, FileMessage(m, in)
          PROVE  boxes' \in [Box -> Info \cup {None}] /\ retired' \subseteq Box
      BY <1>1, <2>3 DEF AccountTyped, FileMessage
    <2> QED
      BY <2>1, <2>2, <2>3 DEF Account
  <1>5. mail' \in [Msg -> SUBSET Box]
    <2>1. ASSUME NEW b \in Box, DestroyBox(b) PROVE mail' \in [Msg -> SUBSET Box]
      BY <1>1, <2>1 DEF AccountTyped, DestroyBox
    <2>2. ASSUME NEW m \in Msg, NEW in \in SUBSET Box, FileMessage(m, in)
          PROVE  mail' \in [Msg -> SUBSET Box]
      BY <1>1, <2>2 DEF AccountTyped, FileMessage
    <2> QED
      BY <1>1, <2>1, <2>2 DEF AccountTyped, Account, CreateBox, RelocateBox
  <1>6. touched' \in [Msg -> 0 .. MaxVersion]
    <2>1. version + 1 \in 0 .. MaxVersion
      BY <1>2, <1>3
    <2>2. ASSUME NEW b \in Box, DestroyBox(b) PROVE touched' \in [Msg -> 0 .. MaxVersion]
      BY <1>1, <2>1, <2>2 DEF AccountTyped, DestroyBox
    <2>3. ASSUME NEW m \in Msg, NEW in \in SUBSET Box, FileMessage(m, in)
          PROVE  touched' \in [Msg -> 0 .. MaxVersion]
      BY <1>1, <2>1, <2>3 DEF AccountTyped, FileMessage
    <2> QED
      BY <1>1, <2>2, <2>3 DEF AccountTyped, Account, CreateBox, RelocateBox
  <1>7. AccountTyped'
    BY <1>1, <1>2, <1>3, <1>4, <1>5, <1>6 DEF AccountTyped
  <1>8. UNCHANGED <<durable, process, pc, todo, pass, faults>>
    BY DEF Account, CreateBox, RelocateBox, DestroyBox, FileMessage, ServerBoxes, ServerStep
  <1>9. StoreTyped' /\ ProcessTyped' /\ PassTyped' /\ QueuesKnown'
    BY <1>8 DEF TypeInv, durable, process, pass, faults, StoreTyped, ProcessTyped, PassTyped, QueuesKnown
  <1> QED
    BY <1>7, <1>9 DEF TypeInv

\* A pass that ends forgets what it held in memory.
LEMMA ForgetTyped ==
    ASSUME TypeInv, Forget, edits' \in Edits, StoreTyped', UNCHANGED <<server, git>>, calm' \in BOOLEAN,
           done' \in {"sync", "refresh", "backfill", "failed"}, wrecked' \in BOOLEAN,
           stops' \in 0 .. MaxStops
    PROVE  TypeInv'
  <1>1. AccountTyped'
    BY DEF TypeInv, AccountTyped, server
  <1>2. ProcessTyped'
    BY DEF Forget, ProcessTyped, EmptyIndex, Index
  <1>3. PassTyped'
    BY TreeBounds DEF Forget, PassTyped, NoDelta, NoPlan
  <1>4. QueuesKnown'
    BY DEF Forget, QueuesKnown, NoPlan
  <1> QED
    BY <1>1, <1>2, <1>3, <1>4 DEF TypeInv

\* The start of a pass, and its plans.
LEMMA PlanningTyped ==
    ASSUME TypeInv,
           \/ \E kind \in {"sync", "refresh"} : Begin(kind)
           \/ ListMailboxes \/ PlanSync \/ PlanAll \/ UpsertsDone
    PROVE  TypeInv'
  <1>1. AccountTyped /\ StoreTyped /\ ProcessTyped /\ PassTyped /\ QueuesKnown
    BY DEF TypeInv
  <1>2. ASSUME NEW kind \in {"sync", "refresh"}, Begin(kind) PROVE TypeInv'
    <2>1. /\ UNCHANGED <<server, git, durable, edits, todo, listed, gone, plan, faults>>
          /\ calm' \in BOOLEAN
      BY <1>2 DEF Begin
    <2>2. AccountTyped' /\ StoreTyped'
      BY <1>1, <2>1 DEF AccountTyped, StoreTyped, server, durable
    <2>3. ProcessTyped'
      BY <1>1, <1>2, <2>1, IndexAtHandTyped DEF Begin, ProcessTyped
    <2>4. target' \in 0 .. MaxVersion
      <3>1. version \in 0 .. MaxVersion
        BY <1>1 DEF AccountTyped
      <3>2. saved # None => saved.start \in 0 .. MaxVersion
        BY <1>1 DEF StoreTyped, Saved
      <3> QED
        BY <1>2, <3>1, <3>2 DEF Begin
    <2>5. delta' \in [changed : SUBSET Msg, destroyed : SUBSET Msg]
      BY <1>2 DEF Begin, NoDelta
    <2>6. pc = "idle" /\ pc' \in {"plan", "list"} /\ done' = "none"
          /\ stage' \in {"backfill", "sync", "refresh"}
      BY <1>2 DEF Begin
    <2>7. PassTyped'
      BY <1>1, <2>1, <2>4, <2>5, <2>6 DEF PassTyped, faults
    <2>8. QueuesKnown'
      <3>1. todo' = {} /\ plan' = NoPlan
        BY <1>1, <2>1, <2>6 DEF PassTyped
      <3>2. gone' = {}
        BY <1>1, <2>1, <2>6 DEF QueuesKnown
      <3> QED
        BY <2>6, <3>1, <3>2 DEF QueuesKnown, NoPlan
    <2> QED
      BY <2>2, <2>3, <2>7, <2>8 DEF TypeInv
  <1>3. CASE ListMailboxes
    <2>1. UNCHANGED <<account, durable, process, stage, delta, plan, target, done, faults>>
      BY <1>3 DEF ListMailboxes
    <2>2. AccountTyped' /\ StoreTyped' /\ ProcessTyped'
      BY <1>1, <2>1 DEF AccountTyped, StoreTyped, ProcessTyped, account, durable, process
    <2>3. /\ listed' = boxes /\ todo' \subseteq KnownIn(boxes) /\ gone' \subseteq KnownIn(ix.box)
          /\ pc = "list" /\ pc' \in {"plan", "upsert"}
      BY <1>3 DEF ListMailboxes
    <2>4. PassTyped'
      BY <1>1, <2>1, <2>3 DEF PassTyped, faults, KnownIn, AccountTyped
    <2>5. pc = "list" /\ UNCHANGED ix /\ UNCHANGED plan
      BY <1>3, <2>1 DEF ListMailboxes, process
    <2>6. QueuesKnown'
      BY <1>1, <2>3, <2>5 DEF QueuesKnown
    <2> QED
      BY <2>2, <2>4, <2>6 DEF TypeInv
  <1>4. CASE PlanSync
    <2> DEFINE there == {m \in delta.changed : mail[m] # {}}
               wanted == {m \in there : Matches(InfoOf(ix), mail[m])}
               planned == [add |-> {m \in wanted : ~Known(m)},
                           update |-> {m \in wanted : Known(m)},
                           delete |-> delta.destroyed \cup {m \in there \ wanted : Known(m)},
                           in |-> mail, uncommitted |-> FALSE]
    <2>1. pc = "plan" /\ UNCHANGED <<account, durable, edits, faults>>
      BY <1>4 DEF PlanSync
    <2>2. CASE Forget /\ done' = "sync"
      <3>1. StoreTyped' /\ edits' \in Edits /\ wrecked' \in BOOLEAN /\ stops' \in 0 .. MaxStops
        BY <1>1, <2>1 DEF StoreTyped, durable, ProcessTyped, PassTyped, faults
      <3> QED
        BY <1>1, <2>1, <2>2, <3>1, ForgetTyped DEF account, server, AccountTyped
    <2>3. CASE plan' = planned /\ pc' = "upsert"
               /\ UNCHANGED <<ix, todo, stage, delta, listed, gone, target, done>>
      <3>1. AccountTyped' /\ StoreTyped' /\ ProcessTyped'
        BY <1>1, <2>1, <2>3 DEF AccountTyped, StoreTyped, ProcessTyped, account, durable
      <3>2. /\ planned \in [add : SUBSET Msg, update : SUBSET Msg, delete : SUBSET Msg,
                            in : [Msg -> SUBSET Box], uncommitted : BOOLEAN]
            /\ planned.update \subseteq {m \in Msg : ix.mail[m] # None}
        <4>1. /\ there \subseteq Msg /\ delta.destroyed \subseteq Msg /\ wanted \subseteq there
              /\ mail \in [Msg -> SUBSET Box]
          BY <1>1 DEF PassTyped, AccountTyped
        <4> HIDE DEF there, wanted
        <4> QED
          BY <4>1 DEF Known
      <3>3. PassTyped'
        <4> HIDE DEF planned
        <4> QED
          BY <1>1, <2>1, <2>3, <3>2 DEF PassTyped, faults
      <3>4. QueuesKnown'
        <4> HIDE DEF planned
        <4> QED
          BY <1>1, <2>1, <2>3, <3>2 DEF QueuesKnown
      <3> QED
        BY <3>1, <3>3, <3>4 DEF TypeInv
    <2> QED
      BY <1>4, <2>2, <2>3 DEF PlanSync
  <1>5. CASE PlanAll
    <2>1. /\ pc = "plan" /\ pc' = "mail"
          /\ UNCHANGED <<server, git, durable, process, todo, stage, delta, listed, gone,
                         target, done, faults>>
          /\ calm' \in BOOLEAN
      BY <1>5 DEF PlanAll
    <2>2. AccountTyped' /\ StoreTyped' /\ ProcessTyped'
      BY <1>1, <2>1 DEF AccountTyped, StoreTyped, ProcessTyped, server, durable, process
    <2>3. mail \in [Msg -> SUBSET Box]
      BY <1>1 DEF AccountTyped
    <2>4. /\ plan' \in [add : SUBSET Msg, update : SUBSET Msg, delete : SUBSET Msg,
                         in : [Msg -> SUBSET Box], uncommitted : BOOLEAN]
          /\ plan'.update \subseteq {m \in Msg : ix.mail[m] # None}
      BY <1>5, <2>3 DEF PlanAll, Known
    <2>5. PassTyped'
      BY <1>1, <2>1, <2>4 DEF PassTyped, faults
    <2>6. QueuesKnown'
      BY <1>1, <2>1, <2>4 DEF QueuesKnown, process
    <2> QED
      BY <2>2, <2>5, <2>6 DEF TypeInv
  <1>6. CASE UpsertsDone
    <2>1. /\ pc = "upsert" /\ todo = {} /\ pc' \in {"mail", "plan"}
          /\ UNCHANGED <<account, durable, process, todo, pass, faults>>
      BY <1>6 DEF UpsertsDone
    <2>2. AccountTyped' /\ StoreTyped' /\ ProcessTyped'
      BY <1>1, <2>1 DEF AccountTyped, StoreTyped, ProcessTyped, account, durable, process
    <2>3. PassTyped' /\ QueuesKnown'
      BY <1>1, <2>1 DEF PassTyped, QueuesKnown, pass, faults, process
    <2> QED
      BY <2>2, <2>3 DEF TypeInv
  <1> QED
    BY <1>2, <1>3, <1>4, <1>5, <1>6

\* Renames, new directories and cards.
LEMMA UpsertTyped ==
    ASSUME TypeInv, NEW b \in Box,
           RenameDir(b) \/ RenameFails(b) \/ MakeDir(b) \/ WriteCard(b)
    PROVE  TypeInv'
  <1>1. AccountTyped /\ StoreTyped /\ ProcessTyped /\ PassTyped /\ QueuesKnown
    BY DEF TypeInv
  <1>2. pc \in {"upsert", "card"} /\ b \in todo /\ b \in KnownIn(listed)
    BY <1>1 DEF RenameDir, RenameFails, MakeDir, WriteCard, Turn, QueuesKnown
  <1>3. /\ listed[b] \in Info
        /\ NewDir(b) \in Path /\ NewDir(b) # <<>>
        /\ MovedDir(b) \in Path /\ MovedDir(b) # <<>>
        /\ Front(MovedDir(b)) \in Path
    <2>1. ix \in Index /\ listed \in [Box -> Info \cup {None}]
      BY <1>1 DEF ProcessTyped, PassTyped
    <2> QED
      BY <1>2, <2>1, AssignedDirs DEF KnownIn
  <1>4. AccountTyped' /\ head' \in Tree /\ FiniteCards(head)' /\ saved' \in Saved \cup {None}
    BY <1>1 DEF RenameDir, RenameFails, MakeDir, WriteCard, AccountTyped, account, StoreTyped, FiniteCards
  <1>5. CASE RenameDir(b)
    <2> DEFINE from == ix.box[b].dir
               to == MovedDir(b)
    <2>1. /\ ix.box[b] # None /\ pc' = "card" /\ UNCHANGED <<account, head, saved, todo, pass, faults>>
          /\ disk' = DirRenamed(disk, from, to)
          /\ edits' = RenameEdits(from, to)
          /\ ix' = IndexRebased(from, to)
      BY <1>5 DEF RenameDir, Moves
    <2>2. ix \in Index /\ from \in Path /\ to \in Path /\ to # <<>>
      BY <1>1, <1>3, <2>1, IndexEntries DEF ProcessTyped, KnownIn
    <2>3. StoreTyped'
      <3>1. disk' \in Worktree /\ FiniteCards(disk')
        BY <1>1, <2>1, <2>2, DirRenamedTyped DEF StoreTyped
      <3> QED
        BY <1>4, <3>1 DEF StoreTyped
    <2>4. ix' \in Index /\ KnownIn(ix'.box) = KnownIn(ix.box)
          /\ \A m \in Msg : ix'.mail[m] = None <=> ix.mail[m] = None
      BY <2>1, <2>2, IndexRebasedTyped
    <2>5. edits' \in Edits
      <3>1. FilesUnder(ix, from) \subseteq File /\ FilesUnder(IndexRebased(from, to), to) \subseteq File
        BY <2>1, <2>2, <2>4, FilesTyped
      <3> QED
        BY <1>1, <2>1, <3>1, EditsTyped DEF RenameEdits, ProcessTyped
    <2>6. PassTyped'
      BY <1>1, <1>2, <2>1 DEF PassTyped, pass, faults
    <2>7. QueuesKnown'
      BY <1>1, <1>2, <2>1, <2>4 DEF QueuesKnown, pass, PassTyped
    <2> QED
      BY <1>4, <2>3, <2>4, <2>5, <2>6, <2>7 DEF TypeInv, ProcessTyped
  <1>6. CASE RenameFails(b)
    <2>1. /\ FailPass /\ UNCHANGED <<account, head, saved, edits, stops>>
          /\ disk' = [disk EXCEPT !.dirs = disk.dirs \cup Ancestors(Front(MovedDir(b)))]
      BY <1>6 DEF RenameFails
    <2>2. Ancestors(Front(MovedDir(b))) \subseteq Path \ {<<>>}
      BY <1>3, AncestorsTyped
    <2>3. disk' \in Worktree /\ FiniteCards(disk')
      BY <1>1, <2>1, <2>2 DEF StoreTyped, Worktree, FiniteCards
    <2>4. StoreTyped'
      BY <1>4, <2>3 DEF StoreTyped
    <2>5. edits' \in Edits /\ stops' \in 0 .. MaxStops
      BY <1>1, <2>1 DEF ProcessTyped, PassTyped
    <2> QED
      BY <1>1, <2>1, <2>4, <2>5, ForgetTyped DEF FailPass, account, server, AccountTyped
  <1>7. CASE MakeDir(b)
    <2>1. /\ disk' = [disk EXCEPT !.dirs = disk.dirs \cup Ancestors(NewDir(b))] /\ pc' = "card"
          /\ UNCHANGED <<account, head, saved, process, todo, pass, faults>>
      BY <1>7 DEF MakeDir
    <2>2. Ancestors(NewDir(b)) \subseteq Path \ {<<>>}
      BY <1>3, AncestorsTyped
    <2>3. disk' \in Worktree /\ FiniteCards(disk')
      BY <1>1, <2>1, <2>2 DEF StoreTyped, Worktree, FiniteCards
    <2>4. StoreTyped' /\ ProcessTyped'
      BY <1>1, <1>4, <2>1, <2>3 DEF StoreTyped, ProcessTyped, process
    <2>5. PassTyped' /\ QueuesKnown'
      BY <1>1, <1>2, <2>1 DEF PassTyped, QueuesKnown, pass, faults, process
    <2> QED
      BY <1>4, <2>4, <2>5 DEF TypeInv
  <1>8. CASE WriteCard(b)
    <2> DEFINE dir == IF ix.box[b] = None THEN NewDir(b) ELSE ix.box[b].dir
    <2>1. /\ pc' = "upsert" /\ UNCHANGED <<account, head, saved, pass, faults>>
          /\ disk' = PutCard(disk, dir, b, listed[b])
          /\ edits' = Upserting(edits, {Card(dir)})
          /\ ix' = [ix EXCEPT !.box[b] = [info |-> listed[b], dir |-> dir]]
          /\ todo' = todo \ {b}
      BY <1>8 DEF WriteCard
    <2>2. ix \in Index /\ dir \in Path
      BY <1>1, <1>3, IndexEntries DEF ProcessTyped, KnownIn
    <2>3. StoreTyped'
      <3>1. disk' \in Worktree /\ FiniteCards(disk')
        BY <1>1, <1>3, <2>1, <2>2, PutCardTyped DEF StoreTyped
      <3> QED
        BY <1>4, <3>1 DEF StoreTyped
    <2>4. edits' \in Edits
      BY <1>1, <2>1, <2>2, FilesTyped, EditsTyped DEF ProcessTyped
    <2>5. /\ ix' \in Index /\ ix'.mail = ix.mail
          /\ KnownIn(ix.box) \subseteq KnownIn(ix'.box)
      <3>1. [info |-> listed[b], dir |-> dir] \in BoxEntry
        BY <1>3, <2>2 DEF BoxEntry
      <3>2. [info |-> listed[b], dir |-> dir] # None
        BY <3>1, NoneAssumption
      <3> HIDE DEF dir
      <3> QED
        BY <2>1, <2>2, <3>1, <3>2 DEF Index, KnownIn
    <2>6. PassTyped'
      BY <1>1, <1>2, <2>1 DEF PassTyped, pass, faults
    <2>7. QueuesKnown'
      BY <1>1, <1>2, <2>1, <2>5 DEF QueuesKnown, pass, PassTyped
    <2> QED
      BY <1>4, <2>3, <2>4, <2>5, <2>6, <2>7 DEF TypeInv, ProcessTyped
  <1> QED
    BY <1>5, <1>6, <1>7, <1>8

\* The changes of mail.
LEMMA MailTyped ==
    ASSUME TypeInv, NEW m \in Msg, AddMail(m) \/ UpdateMail(m) \/ DeleteMail(m)
    PROVE  TypeInv'
  <1>1. AccountTyped /\ StoreTyped /\ ProcessTyped /\ PassTyped /\ QueuesKnown
    BY DEF TypeInv
  <1>2. /\ pc = "mail" /\ UNCHANGED <<account, head, saved, pc, stage, delta, listed, todo, gone, target, done, faults>>
    BY DEF AddMail, UpdateMail, DeleteMail
  <1>3. /\ plan'.add \subseteq plan.add /\ plan'.update \subseteq plan.update
        /\ plan' \in [add : SUBSET Msg, update : SUBSET Msg, delete : SUBSET Msg,
                      in : [Msg -> SUBSET Box], uncommitted : BOOLEAN]
    <2>1. plan \in [add : SUBSET Msg, update : SUBSET Msg, delete : SUBSET Msg,
                    in : [Msg -> SUBSET Box], uncommitted : BOOLEAN]
      BY <1>1 DEF PassTyped
    <2>2. \/ plan' = [plan EXCEPT !.add = plan.add \ {m}, !.uncommitted = TRUE]
          \/ plan' = [plan EXCEPT !.update = plan.update \ {m}]
          \/ plan' = [plan EXCEPT !.delete = plan.delete \ {m}]
      BY DEF AddMail, UpdateMail, DeleteMail
    <2> QED
      BY <2>1, <2>2
  <1>4. /\ AccountTyped' /\ PassTyped'
    BY <1>1, <1>2, <1>3 DEF AccountTyped, account, PassTyped, faults
  <1>5. head' \in Tree /\ FiniteCards(head)' /\ saved' \in Saved \cup {None}
    BY <1>1, <1>2 DEF StoreTyped, FiniteCards
  <1>6. /\ ix \in Index /\ edits \in Edits /\ disk \in Worktree /\ FiniteCards(disk)
        /\ plan.in[m] \in SUBSET Box
        /\ DirFor(ix, plan.in[m]) \in Path
    BY <1>1, DirForPath DEF ProcessTyped, StoreTyped, PassTyped
  <1>7. ASSUME ix.mail[m] # None PROVE ix.mail[m].dir \in Path
    BY <1>6, <1>7, IndexEntries
  <1>8. ASSUME NEW dir \in Path, NEW entry \in MailEntry,
               ix' = [ix EXCEPT !.mail[m] = entry]
        PROVE  ix' \in Index /\ ix'.box = ix.box
               /\ \A k \in Msg : ix.mail[k] # None => ix'.mail[k] # None
    BY <1>6, <1>8, NoneAssumption DEF Index
  <1>9. ASSUME disk' \in Worktree, FiniteCards(disk'), edits' \in Edits, ix' \in Index, QueuesKnown'
        PROVE  TypeInv'
    BY <1>4, <1>5, <1>9 DEF TypeInv, StoreTyped, ProcessTyped
  <1>10. CASE AddMail(m)
    <2> DEFINE dir == DirFor(ix, plan.in[m])
               entry == [in |-> plan.in[m], dir |-> dir]
    <2>1. /\ disk' = PutMail(disk, dir, m, plan.in[m])
          /\ edits' = Upserting(edits, Mail(dir, m))
          /\ ix' = [ix EXCEPT !.mail[m] = entry]
      BY <1>10 DEF AddMail
    <2>2. entry \in MailEntry /\ Mail(dir, m) \subseteq File
      BY <1>6, FilesTyped DEF MailEntry
    <2>3. disk' \in Worktree /\ FiniteCards(disk') /\ edits' \in Edits
      BY <1>6, <2>1, <2>2, PutSideTyped, EditsTyped
    <2>4. ix' \in Index /\ ix'.box = ix.box /\ \A k \in Msg : ix.mail[k] # None => ix'.mail[k] # None
      <3> HIDE DEF entry
      <3> QED
        BY <1>6, <1>8, <2>1, <2>2
    <2>5. QueuesKnown'
      BY <1>1, <1>2, <1>3, <2>4 DEF QueuesKnown, PassTyped
    <2> QED
      BY <1>9, <2>3, <2>4, <2>5
  <1>11. CASE UpdateMail(m)
    <2> DEFINE from == ix.mail[m].dir
               to == DirFor(ix, plan.in[m])
               entry == [in |-> plan.in[m], dir |-> to]
    <2>0. m \in plan.update /\ ix.mail[m] # None
      BY <1>1, <1>11 DEF UpdateMail, QueuesKnown
    <2>1. from \in Path /\ to \in Path /\ entry \in MailEntry
      BY <1>6, <1>7, <2>0 DEF MailEntry
    <2>2. CASE UNCHANGED <<disk, edits, ix>>
      <3>1. QueuesKnown'
        BY <1>1, <1>2, <1>3, <2>2 DEF QueuesKnown, PassTyped
      <3> QED
        BY <1>1, <1>6, <1>9, <2>2, <3>1 DEF FiniteCards
    <2>3. CASE ~ UNCHANGED <<disk, edits, ix>>
      <3>1. /\ \/ disk' = PutMail(DropMail(disk, from, m), to, m, plan.in[m])
               \/ disk' = PutSide(disk, to, m, plan.in[m])
            /\ \/ edits' = Upserting(Removing(edits, Mail(from, m)), Mail(to, m))
               \/ edits' = Upserting(edits, {Sidecar(to, m)})
               \/ edits' = edits
            /\ ix' = [ix EXCEPT !.mail[m] = entry]
        BY <1>11, <2>3 DEF UpdateMail
      <3>2. disk' \in Worktree /\ FiniteCards(disk')
        <4>1. DropMail(disk, from, m) \in Worktree /\ FiniteCards(DropMail(disk, from, m))
          BY <1>6, <2>1, PutSideTyped
        <4> QED
          BY <1>6, <2>1, <3>1, <4>1, PutSideTyped
      <3>3. edits' \in Edits
        <4>1. Mail(from, m) \subseteq File /\ Mail(to, m) \subseteq File /\ {Sidecar(to, m)} \subseteq File
          BY <2>1, FilesTyped DEF Mail
        <4>2. Removing(edits, Mail(from, m)) \in Edits
          BY <1>6, <4>1, EditsTyped
        <4> QED
          BY <1>6, <3>1, <4>1, <4>2, EditsTyped
      <3>4. ix' \in Index /\ ix'.box = ix.box /\ \A k \in Msg : ix.mail[k] # None => ix'.mail[k] # None
        <4> HIDE DEF entry
        <4> QED
          BY <1>8, <2>1, <3>1
      <3>5. QueuesKnown'
        BY <1>1, <1>2, <1>3, <3>4 DEF QueuesKnown, PassTyped
      <3> QED
        BY <1>9, <3>2, <3>3, <3>4, <3>5
    <2> QED
      BY <2>2, <2>3
  <1>12. CASE DeleteMail(m)
    <2>1. plan'.update = {} /\ UNCHANGED ix.box
      BY <1>12, <1>1, <1>6 DEF DeleteMail, PassTyped, Index
    <2>2. QueuesKnown'
      BY <1>1, <1>2, <2>1 DEF QueuesKnown, PassTyped
    <2>3. CASE ix.mail[m] # None
      <3>1. /\ disk' = DropMail(disk, ix.mail[m].dir, m)
            /\ edits' = Removing(edits, Mail(ix.mail[m].dir, m))
            /\ ix' = [ix EXCEPT !.mail[m] = None]
        BY <1>12, <2>3 DEF DeleteMail, Known
      <3>2. disk' \in Worktree /\ FiniteCards(disk') /\ edits' \in Edits
        BY <1>6, <1>7, <2>3, <3>1, PutSideTyped, EditsTyped, FilesTyped
      <3>3. ix' \in Index
        BY <1>6, <3>1 DEF Index
      <3> QED
        BY <1>9, <2>2, <3>2, <3>3
    <2>4. CASE ix.mail[m] = None
      <3>1. UNCHANGED <<disk, edits, ix>>
        BY <1>12, <2>4 DEF DeleteMail, Known
      <3> QED
        BY <1>6, <1>9, <2>2, <3>1 DEF FiniteCards
    <2> QED
      BY <2>3, <2>4
  <1> QED
    BY <1>10, <1>11, <1>12

\* Days, removals, commits and saves.
LEMMA ConcludingTyped ==
    ASSUME TypeInv,
           \/ CommitDay \/ MailDone \/ (\E b \in Box : Prune(b)) \/ PruneDone
           \/ Commit \/ CommitFails \/ Save \/ Interrupt
    PROVE  TypeInv'
  <1>1. AccountTyped /\ StoreTyped /\ ProcessTyped /\ PassTyped /\ QueuesKnown
    BY DEF TypeInv
  <1>2. UNCHANGED <<server, git>> /\ calm' \in BOOLEAN
    BY <1>1 DEF AccountTyped, account, server, CommitDay, MailDone, Prune, PruneDone, Commit,
                CommitFails, Save, Interrupt
  <1>0. AccountTyped'
    BY <1>1, <1>2 DEF AccountTyped, server
  <1>3. BuiltTree \in Tree /\ FiniteCards(BuiltTree) /\ NoEdits \in Edits
    BY <1>1, BuiltTreeTyped DEF NoEdits, Edits
  <1>4. Cursor \in 0 .. MaxVersion
    BY <1>1, TreeBounds DEF Cursor, StoreTyped, Saved
  <1>5. CASE CommitDay
    <2>1. /\ head' = IF git THEN BuiltTree ELSE head
          /\ saved' = [index |-> ix, cursor |-> Cursor, start |-> target, head |-> head']
          /\ edits' = NoEdits
          /\ plan' = [plan EXCEPT !.uncommitted = FALSE]
          /\ UNCHANGED <<account, disk, ix, pc, stage, delta, listed, todo, gone, target, done, faults>>
      BY <1>5 DEF CommitDay
    <2>2. head' \in Tree /\ FiniteCards(head')
      BY <1>1, <1>3, <2>1 DEF StoreTyped
    <2>3. saved' \in Saved
      BY <1>1, <1>4, <2>1, <2>2 DEF ProcessTyped, PassTyped, Saved
    <2>4. StoreTyped' /\ ProcessTyped'
      BY <1>1, <1>3, <2>1, <2>2, <2>3 DEF StoreTyped, ProcessTyped, FiniteCards
    <2>5. PassTyped'
      BY <1>1, <1>5, <2>1 DEF PassTyped, faults, CommitDay
    <2>6. QueuesKnown'
      BY <1>1, <2>1 DEF QueuesKnown, PassTyped
    <2> QED
      BY <1>0, <2>4, <2>5, <2>6 DEF TypeInv
  <1>6. CASE MailDone
    <2>1. /\ pc = "mail" /\ pc' = "prune" /\ todo' = gone
          /\ UNCHANGED <<account, durable, process, pass, faults>>
      BY <1>6 DEF MailDone
    <2>2. StoreTyped' /\ ProcessTyped' /\ PassTyped'
      BY <1>1, <2>1 DEF StoreTyped, ProcessTyped, PassTyped, durable, process, pass, faults
    <2>3. QueuesKnown'
      BY <1>1, <2>1 DEF QueuesKnown, process, pass
    <2> QED
      BY <1>0, <2>2, <2>3 DEF TypeInv
  <1>7. ASSUME NEW b \in Box, Prune(b) PROVE TypeInv'
    <2> DEFINE dir == ix.box[b].dir
               bare == [disk EXCEPT !.card = disk.card \ CardAt(disk, dir)]
    <2>1. /\ pc = "prune" /\ b \in todo /\ todo' = todo \ {b}
          /\ UNCHANGED <<account, head, saved, pc, pass, faults>>
          /\ \/ UNCHANGED <<disk, edits, ix>>
             \/ /\ disk' = bare \/ disk' = [bare EXCEPT !.dirs = bare.dirs \ {dir}]
                /\ edits' = Removing(edits, {Card(dir)})
                /\ ix' = [ix EXCEPT !.box[b] = None]
      BY <1>7 DEF Prune
    <2>2. b \in KnownIn(ix.box) /\ ix \in Index /\ dir \in Path
      BY <1>1, <2>1, IndexEntries DEF QueuesKnown, ProcessTyped
    <2>3. /\ disk \in Worktree /\ FiniteCards(disk)
          /\ bare \in Worktree /\ FiniteCards(bare)
          /\ [bare EXCEPT !.dirs = bare.dirs \ {dir}] \in Worktree
          /\ FiniteCards([bare EXCEPT !.dirs = bare.dirs \ {dir}])
      <3>1. disk \in Worktree /\ FiniteCards(disk)
        BY <1>1 DEF StoreTyped
      <3>2. bare \in Worktree /\ FiniteCards(bare)
        BY <3>1, FS_Difference DEF Worktree, FiniteCards
      <3> HIDE DEF bare
      <3> QED
        BY <3>1, <3>2 DEF Worktree, FiniteCards
    <2>4. StoreTyped'
      <3>1. disk' \in Worktree /\ FiniteCards(disk')
        <4> HIDE DEF bare
        <4> QED
          BY <2>1, <2>3
      <3> QED
        BY <1>1, <2>1, <3>1 DEF StoreTyped, FiniteCards
    <2>5. /\ ix' \in Index /\ edits' \in Edits
          /\ \A c \in KnownIn(ix.box) \ {b} : c \in KnownIn(ix'.box)
      BY <1>1, <2>1, <2>2, EditsTyped, FilesTyped DEF ProcessTyped, Index, KnownIn
    <2>6. PassTyped'
      BY <1>1, <2>1 DEF PassTyped, pass, faults
    <2>7. QueuesKnown'
      BY <1>1, <2>1, <2>5 DEF QueuesKnown, pass, KnownIn
    <2> QED
      BY <1>0, <2>4, <2>5, <2>6, <2>7 DEF TypeInv, ProcessTyped
  <1>8. CASE PruneDone
    <2>1. /\ todo = {} /\ pc = "prune" /\ pc' \in {"commit", "save"}
          /\ UNCHANGED <<account, durable, process, todo, pass, faults>>
      BY <1>8 DEF PruneDone
    <2>2. StoreTyped' /\ ProcessTyped' /\ PassTyped' /\ QueuesKnown'
      BY <1>1, <2>1 DEF StoreTyped, ProcessTyped, PassTyped, QueuesKnown, durable, process, pass, faults
    <2> QED
      BY <1>0, <2>2 DEF TypeInv
  <1>9. CASE Commit
    <2>1. /\ head' = BuiltTree /\ edits' = NoEdits /\ pc = "commit" /\ pc' = "save"
          /\ UNCHANGED <<account, disk, saved, ix, todo, pass, faults>>
      BY <1>9 DEF Commit
    <2>2. StoreTyped'
      BY <1>1, <1>3, <2>1 DEF StoreTyped, FiniteCards
    <2>3. ProcessTyped' /\ PassTyped' /\ QueuesKnown'
      BY <1>1, <1>3, <2>1 DEF ProcessTyped, PassTyped, QueuesKnown, pass, faults
    <2> QED
      BY <1>0, <2>2, <2>3 DEF TypeInv
  <1>10. CASE CommitFails
    <2>1. FailPass /\ edits' = NoEdits /\ UNCHANGED <<account, durable, stops>>
      BY <1>10 DEF CommitFails
    <2>2. StoreTyped'
      BY <1>1, <2>1 DEF StoreTyped, durable
    <2> QED
      BY <1>1, <1>2, <1>3, <2>1, <2>2, ForgetTyped DEF FailPass, PassTyped
  <1>11. CASE Save
    <2>1. /\ pc = "save" /\ edits' \in {NoEdits, edits} /\ done' = stage /\ wrecked' = FALSE /\ Forget
          /\ UNCHANGED <<account, disk, head, stops>>
          /\ saved' = [index |-> ix, cursor |-> target, start |-> target,
                       head |-> IF git /\ NoDays THEN (IF saved = None THEN None ELSE saved.head)
                                ELSE head]
      BY <1>11 DEF Save
    <2>2. saved # None => saved.head \in Tree \cup {None}
      BY <1>1 DEF StoreTyped, Saved
    <2>3. (IF git /\ NoDays THEN (IF saved = None THEN None ELSE saved.head) ELSE head) \in Tree \cup {None}
      BY <1>1, <2>2 DEF StoreTyped
    <2>4. saved' \in Saved
      BY <1>1, <2>1, <2>3 DEF Saved, ProcessTyped, PassTyped
    <2>5. StoreTyped'
      BY <1>1, <2>1, <2>4 DEF StoreTyped, FiniteCards
    <2>6. done' \in {"sync", "refresh", "backfill", "failed"}
      BY <1>1, <2>1 DEF PassTyped, Save
    <2>7. edits' \in Edits
      BY <1>1, <1>3, <2>1 DEF ProcessTyped
    <2> QED
      BY <1>1, <1>2, <2>1, <2>5, <2>6, <2>7, ForgetTyped DEF PassTyped
  <1>12. CASE Interrupt
    <2>1. /\ FailPass /\ edits' \in {edits, NoEdits} /\ stops' = stops + 1 /\ stops < MaxStops
          /\ UNCHANGED durable
      BY <1>12 DEF Interrupt
    <2>2. StoreTyped' /\ edits' \in Edits
      BY <1>1, <1>3, <2>1 DEF StoreTyped, durable, ProcessTyped
    <2>3. stops' \in 0 .. MaxStops
      BY <1>1, <2>1, TreeBounds DEF PassTyped
    <2> QED
      BY <1>2, <2>1, <2>2, <2>3, ForgetTyped DEF FailPass
  <1> QED
    BY <1>5, <1>6, <1>7, <1>8, <1>9, <1>10, <1>11, <1>12

\* Every step keeps the types and the queues.
LEMMA StepTyped ==
    ASSUME TypeInv, [Next]_vars
    PROVE  TypeInv'
  <1>1. CASE Account
    BY <1>1, AccountStepTyped
  <1>2. CASE Pass
    <2>1. CASE \/ \E kind \in {"sync", "refresh"} : Begin(kind)
               \/ ListMailboxes \/ PlanSync \/ PlanAll \/ UpsertsDone
      BY <2>1, PlanningTyped
    <2>2. ASSUME NEW b \in Box, RenameDir(b) \/ RenameFails(b) \/ MakeDir(b) \/ WriteCard(b)
          PROVE  TypeInv'
      BY <2>2, UpsertTyped
    <2>3. ASSUME NEW m \in Msg, AddMail(m) \/ UpdateMail(m) \/ DeleteMail(m)
          PROVE  TypeInv'
      BY <2>3, MailTyped
    <2>4. CASE CommitDay \/ MailDone \/ (\E b \in Box : Prune(b)) \/ PruneDone
               \/ Commit \/ CommitFails \/ Save
      BY <2>4, ConcludingTyped
    <2> QED
      BY <1>2, <2>1, <2>2, <2>3, <2>4 DEF Pass
  <1>3. CASE Interrupt
    BY <1>3, ConcludingTyped
  <1>4. CASE UNCHANGED vars
    <2>1. UNCHANGED <<account, durable, process, pc, todo, pass, faults>>
      BY <1>4 DEF vars
    <2>2. AccountTyped' /\ StoreTyped' /\ ProcessTyped' /\ PassTyped' /\ QueuesKnown'
      BY <2>1 DEF TypeInv, AccountTyped, StoreTyped, ProcessTyped, PassTyped, QueuesKnown,
                  account, durable, process, pass, faults
    <2> QED
      BY <2>2 DEF TypeInv
  <1> QED
    BY <1>1, <1>2, <1>3, <1>4 DEF Next

\* Typing and the queues, in every reachable state.
LEMMA SpecTyped == Spec => []TypeInv
  <1>1. Init => TypeInv
    BY InitTyped
  <1>2. TypeInv /\ [Next]_vars => TypeInv'
    BY StepTyped
  <1> QED
    BY <1>1, <1>2, PTL DEF Spec

\* Every variable has its type, whatever the account and the interruptions.
THEOREM TypeCorrect == Spec => []TypeOK
  <1>1. TypeInv => TypeOK
    BY TypeParts DEF TypeInv
  <1> QED
    BY <1>1, SpecTyped, PTL

-----------------------------------------------------------------------------
(* Mailboxes as a tree.                                                     *)

TreeOfBoxes == [Box -> Info \cup {None}]
\* A set of mailboxes with those above them.
Closed(t, S) == \A c \in S : t[c].parent \in KnownIn(t) => t[c].parent \in S

\* What a mailbox on the list is.
LEMMA KnownBoxes ==
    ASSUME NEW t \in TreeOfBoxes
    PROVE  /\ KnownIn(t) \subseteq Box /\ None \notin KnownIn(t) /\ IsFiniteSet(KnownIn(t))
           /\ \A b \in KnownIn(t) : t[b] \in Info /\ t[b].parent \in Box \cup {None}
    BY BoxAssumption, FS_Subset DEF TreeOfBoxes, KnownIn, Info

\* A mailbox's line is the least closed set it is in.
LEMMA LineIsLeast ==
    ASSUME NEW t, NEW b \in KnownIn(t)
    PROVE  /\ Line(t, b) \subseteq KnownIn(t) /\ b \in Line(t, b) /\ Closed(t, Line(t, b))
           /\ \A S \in SUBSET KnownIn(t) : b \in S /\ Closed(t, S) => Line(t, b) \subseteq S
  <1> DEFINE line == Line(t, b)
  <1>1. \A c : c \in line <=> c \in Box /\ \A S \in SUBSET KnownIn(t) : b \in S /\ Closed(t, S) => c \in S
    BY DEF Line, Closed
  <1>2. KnownIn(t) \subseteq Box /\ Closed(t, KnownIn(t))
    BY DEF KnownIn, Closed
  <1>3. line \subseteq KnownIn(t)
    BY <1>1, <1>2
  <1>4. b \in line
    BY <1>1, <1>2
  <1>5. ASSUME NEW c \in line, t[c].parent \in KnownIn(t) PROVE t[c].parent \in line
    <2>1. ASSUME NEW S \in SUBSET KnownIn(t), b \in S, Closed(t, S) PROVE t[c].parent \in S
      <3>1. c \in S
        BY <1>1, <2>1
      <3> QED
        BY <1>5, <2>1, <3>1 DEF Closed
    <2> QED
      BY <1>1, <1>2, <1>5, <2>1
  <1>6. Closed(t, line)
    BY <1>5 DEF Closed
  <1> QED
    BY <1>1, <1>3, <1>4, <1>6

\* The lines of the mailboxes on a line are parts of it.
LEMMA LineOfLine ==
    ASSUME NEW t, NEW b \in KnownIn(t), NEW a \in Line(t, b)
    PROVE  a \in KnownIn(t) /\ Line(t, a) \subseteq Line(t, b)
    BY LineIsLeast

\* No mailbox is above itself.
LEMMA LineIsAcyclic ==
    ASSUME NEW t \in TreeOfBoxes, IsForest(t), NEW b \in KnownIn(t), NEW a \in Line(t, b), a # b
    PROVE  b \notin Line(t, a)
  <1> SUFFICES ASSUME b \in Line(t, a) PROVE FALSE
    OBVIOUS
  <1> DEFINE S == {c \in Line(t, b) : b \in Line(t, c)}
  <1>1. a \in S /\ S \subseteq KnownIn(t)
    BY LineIsLeast
  <1>2. ASSUME NEW c \in S, c # b PROVE t[c].parent \in S
    <2>1. c \in KnownIn(t) /\ c \in Line(t, b) /\ b \in Line(t, c)
      BY <1>1
    <2>2. t[c].parent \in KnownIn(t) \cup {None}
      BY <2>1 DEF IsForest
    <2>3. CASE t[c].parent = None
      <3>1. Closed(t, {c})
        BY <2>3, KnownBoxes DEF Closed
      <3>2. Line(t, c) \subseteq {c}
        BY <2>1, <3>1, LineIsLeast
      <3> QED
        BY <1>2, <2>1, <3>2
    <2>4. CASE t[c].parent \in KnownIn(t)
      <3> DEFINE p == t[c].parent
      <3>1. p \in Line(t, b)
        BY <2>1, <2>4, LineIsLeast DEF Closed
      <3>2. Line(t, p) \subseteq KnownIn(t) /\ p \in Line(t, p) /\ Closed(t, Line(t, p))
        BY <2>4, LineIsLeast
      <3>3. Closed(t, {c} \cup Line(t, p))
        BY <3>2 DEF Closed
      <3>4. Line(t, c) \subseteq {c} \cup Line(t, p)
        BY <2>1, <3>2, <3>3, LineIsLeast
      <3> QED
        BY <1>2, <2>1, <3>1, <3>4
    <2> QED
      BY <2>2, <2>3, <2>4
  <1>3. t[b].parent \in S
    \* The line of b without those that b is above.
    <2>1. t[b].parent \in KnownIn(t) \cup {None}
      BY DEF IsForest
    <2>2. CASE t[b].parent = None
      <3>1. Closed(t, {b})
        BY <2>2, KnownBoxes DEF Closed
      <3>2. Line(t, b) \subseteq {b}
        BY <3>1, LineIsLeast
      <3> QED
        BY <3>2
    <2>3. CASE t[b].parent \in KnownIn(t)
      <3> DEFINE p == t[b].parent
      <3>1. p \in Line(t, b)
        BY <2>3, LineIsLeast DEF Closed
      <3>2. Line(t, p) \subseteq KnownIn(t) /\ p \in Line(t, p) /\ Closed(t, Line(t, p))
        BY <2>3, LineIsLeast
      <3>3. Closed(t, {b} \cup Line(t, p))
        BY <3>2 DEF Closed
      <3>4. Line(t, b) \subseteq {b} \cup Line(t, p)
        BY <3>2, <3>3, LineIsLeast
      <3>5. a \in Line(t, p)
        BY <3>4
      <3>6. b \in Line(t, p)
        BY <2>3, <3>5, LineOfLine
      <3> QED
        BY <3>1, <3>6
    <2> QED
      BY <2>1, <2>2, <2>3
  <1>4. \A c \in S : t[c].parent \in S
    BY <1>2, <1>3
  <1> QED
    BY <1>1, <1>4 DEF IsForest

\* A mailbox's parent is on its line, and is another.
LEMMA ParentOnLine ==
    ASSUME NEW t \in TreeOfBoxes, IsForest(t), NEW b \in KnownIn(t), t[b].parent # None
    PROVE  t[b].parent \in KnownIn(t) /\ t[b].parent \in Line(t, b) /\ t[b].parent # b
  <1>1. t[b].parent \in KnownIn(t) /\ t[b].parent \in Line(t, b)
    BY LineIsLeast DEF IsForest, Closed
  <1>2. t[b].parent # b
    <2>1. {b} \in SUBSET KnownIn(t) /\ {b} # {}
      OBVIOUS
    <2>2. \E c \in {b} : t[c].parent \notin {b}
      BY <2>1 DEF IsForest
    <2> QED
      BY <2>2
  <1> QED
    BY <1>1, <1>2

-----------------------------------------------------------------------------
(* The order of the list.                                                   *)

\* A mailbox comes after those above it.
LEMMA LineComesFirst ==
    ASSUME listed \in TreeOfBoxes, IsForest(listed), NEW b \in KnownIn(listed),
           NEW a \in Line(listed, b), a # b
    PROVE  Before(a, b) /\ ~Before(b, a)
  <1> DEFINE back(c) == {d \in Line(listed, c) : /\ listed[d].parent \in KnownIn(listed)
                                                 /\ Position[listed[d].parent] > Position[d]}
  <1>1. ASSUME NEW c \in KnownIn(listed)
        PROVE  /\ back(c) \subseteq KnownIn(listed) /\ IsFiniteSet(back(c)) /\ Waits(c) = Cardinality(back(c))
               /\ Waits(c) \in Nat /\ c \in Box /\ Position[c] \in Nat
    <2>1. back(c) \subseteq KnownIn(listed)
      BY LineIsLeast
    <2>2. IsFiniteSet(back(c)) /\ c \in Box
      BY <2>1, KnownBoxes, FS_Subset
    <2>3. Waits(c) = Cardinality(back(c))
      BY DEF Waits
    <2> QED
      BY <2>1, <2>2, <2>3, FS_CardinalityType, BoxAssumption
  <1>2. ASSUME NEW c \in KnownIn(listed), listed[c].parent \in KnownIn(listed)
        PROVE  Before(listed[c].parent, c)
    <2> DEFINE p == listed[c].parent
    <2>1. p # None
      BY <1>2, KnownBoxes
    <2>2. p \in Line(listed, c) /\ p # c
      BY <2>1, ParentOnLine
    <2>3. c \notin Line(listed, p)
      BY <2>2, LineIsAcyclic
    <2>4. back(p) \subseteq back(c) /\ c \notin back(p)
      BY <2>2, <2>3, LineOfLine
    <2>5. c \in back(c) <=> Position[p] > Position[c]
      BY <1>2, LineIsLeast
    <2>6. Waits(p) <= Waits(c) /\ (Waits(p) = Waits(c) => back(p) = back(c))
      <3>1. back(p) \in SUBSET back(c) /\ IsFiniteSet(back(c))
            /\ Waits(p) = Cardinality(back(p)) /\ Waits(c) = Cardinality(back(c))
        BY <1>1, <1>2, <2>4
      <3> HIDE DEF back
      <3> QED
        BY <3>1, FS_Subset
    <2>7. Waits(p) \in Nat /\ Waits(c) \in Nat /\ Position[p] \in Nat /\ Position[c] \in Nat
      BY <1>1, <1>2
    <2>8. Position[p] # Position[c]
      BY <1>1, <1>2, <2>2, BoxAssumption
    <2>9. Waits(p) = Waits(c) => ~(Position[p] > Position[c])
      BY <2>4, <2>5, <2>6
    <2> QED
      BY <2>6, <2>7, <2>8, <2>9 DEF Before
  <1>3. ASSUME NEW c \in KnownIn(listed), NEW d \in KnownIn(listed), NEW e \in KnownIn(listed),
               Before(c, d), Before(d, e)
        PROVE  Before(c, e)
    <2>1. /\ Waits(c) \in Nat /\ Position[c] \in Nat /\ Waits(d) \in Nat /\ Position[d] \in Nat
          /\ Waits(e) \in Nat /\ Position[e] \in Nat
      BY <1>1
    <2> QED
      BY <1>3, <2>1 DEF Before
  <1> DEFINE S == {c \in KnownIn(listed) : c = b \/ Before(c, b)}
  <1>4. Closed(listed, S)
    <2>1. ASSUME NEW c \in S, listed[c].parent \in KnownIn(listed) PROVE listed[c].parent \in S
      <3>1. c \in KnownIn(listed) /\ Before(listed[c].parent, c)
        BY <1>2, <2>1
      <3>2. CASE c = b
        BY <2>1, <3>1, <3>2
      <3>3. CASE Before(c, b)
        <4>1. Before(listed[c].parent, b)
          BY <1>3, <2>1, <3>1, <3>3
        <4> QED
          BY <2>1, <4>1
      <3> QED
        BY <3>2, <3>3
    <2> QED
      BY <2>1 DEF Closed
  <1>5. Before(a, b)
    BY <1>4, LineIsLeast
  <1>6. a \in KnownIn(listed)
    BY LineIsLeast
  <1>7. ~Before(b, a)
    <2>1. /\ Waits(a) \in Nat /\ Position[a] \in Nat /\ Waits(b) \in Nat /\ Position[b] \in Nat
      BY <1>1, <1>6
    <2> QED
      BY <1>5, <2>1 DEF Before
  <1> QED
    BY <1>5, <1>7

\* At most one mailbox has its turn, and those above it have had theirs.
LEMMA TurnOrder ==
    ASSUME listed \in TreeOfBoxes, IsForest(listed), todo \subseteq KnownIn(listed),
           NEW b \in Box, Turn(b)
    PROVE  /\ b \in todo /\ b \in KnownIn(listed)
           /\ \A a \in Line(listed, b) : a # b => a \in KnownIn(listed) \ todo
           /\ \A c \in Box : Turn(c) => c = b
  <1>1. b \in todo /\ b \in KnownIn(listed)
    BY DEF Turn
  <1>2. ASSUME NEW a \in Line(listed, b), a # b PROVE a \in KnownIn(listed) \ todo
    <2>1. ~Before(b, a) /\ a \in KnownIn(listed)
      BY <1>1, <1>2, LineComesFirst, LineIsLeast
    <2> QED
      BY <1>2, <2>1 DEF Turn
  <1>3. ASSUME NEW c \in Box, Turn(c), c # b PROVE FALSE
    <2>1. Before(b, c) /\ Before(c, b) /\ c \in KnownIn(listed)
      BY <1>3 DEF Turn
    <2>2. Waits(b) \in Nat /\ Waits(c) \in Nat /\ Position[b] \in Nat /\ Position[c] \in Nat
      <3>1. ASSUME NEW d \in KnownIn(listed) PROVE Waits(d) \in Nat
        <4> DEFINE back == {e \in Line(listed, d) : /\ listed[e].parent \in KnownIn(listed)
                                                   /\ Position[listed[e].parent] > Position[e]}
        <4>1. IsFiniteSet(back)
          BY LineIsLeast, KnownBoxes, FS_Subset
        <4> QED
          BY <4>1, FS_CardinalityType DEF Waits
      <3> QED
        BY <1>1, <2>1, <3>1, BoxAssumption
    <2> QED
      BY <2>1, <2>2 DEF Before
  <1> QED
    BY <1>1, <1>2, <1>3

\* The account stays a forest.
LEMMA AccountStaysForest ==
    ASSUME boxes \in TreeOfBoxes, IsForest(boxes), Account
    PROVE  IsForest(boxes')
  <1> USE DEF TreeOfBoxes
  <1>1. ASSUME NEW b \in Box, NEW name \in Name, NEW parent \in Box \cup {None},
               CreateBox(b, name, parent)
        PROVE  IsForest(boxes')
    <2> DEFINE info == [name |-> name, parent |-> parent]
    <2>1. /\ boxes' = [boxes EXCEPT ![b] = info] /\ b \notin KnownIn(boxes)
          /\ parent \in KnownIn(boxes) \cup {None}
      BY <1>1 DEF CreateBox, Exists, KnownIn
    <2>2. info \in Info /\ info # None
      BY NoneAssumption DEF Info
    <2>3. /\ KnownIn(boxes') = KnownIn(boxes) \cup {b} /\ boxes'[b].parent = parent
          /\ \A c \in KnownIn(boxes) : boxes'[c] = boxes[c]
      BY <2>1, <2>2 DEF KnownIn
    <2>4. \A c \in KnownIn(boxes') : boxes'[c].parent \in KnownIn(boxes') \cup {None}
      BY <2>1, <2>3 DEF IsForest
    <2>5. ASSUME NEW S \in SUBSET KnownIn(boxes'), S # {}
          PROVE  \E c \in S : boxes'[c].parent \notin S
      <3>1. CASE S \ {b} = {}
        <4>1. b \in S /\ parent \notin S
          BY <2>1, <2>5, <3>1, BoxAssumption
        <4> QED
          BY <2>3, <4>1
      <3>2. CASE S \ {b} # {}
        <4>1. PICK c \in S \ {b} : boxes[c].parent \notin S \ {b}
          BY <2>3, <3>2 DEF IsForest
        <4>2. c \in KnownIn(boxes)
          BY <2>3, <4>1
        <4>3. boxes[c].parent \in KnownIn(boxes) \cup {None}
          BY <4>2 DEF IsForest
        <4>4. boxes[c].parent # b
          BY <2>1, <4>3, BoxAssumption
        <4> QED
          BY <2>3, <4>1, <4>2, <4>4
      <3> QED
        BY <3>1, <3>2
    <2> QED
      BY <2>4, <2>5 DEF IsForest
  <1>2. ASSUME NEW b \in Box, NEW name \in Name, NEW parent \in Box \cup {None},
               RelocateBox(b, name, parent)
        PROVE  IsForest(boxes')
    <2> DEFINE info == [name |-> name, parent |-> parent]
    <2>1. /\ boxes' = [boxes EXCEPT ![b] = info] /\ b \in KnownIn(boxes)
          /\ parent # None => parent \in KnownIn(boxes) /\ b \notin Line(boxes, parent)
      BY <1>2 DEF RelocateBox, Exists, KnownIn
    <2>2. info \in Info /\ info # None
      BY NoneAssumption DEF Info
    <2>3. /\ KnownIn(boxes') = KnownIn(boxes) /\ boxes'[b].parent = parent
          /\ \A c \in KnownIn(boxes) \ {b} : boxes'[c] = boxes[c]
      BY <2>1, <2>2 DEF KnownIn
    <2>4. \A c \in KnownIn(boxes') : boxes'[c].parent \in KnownIn(boxes') \cup {None}
      BY <2>1, <2>3 DEF IsForest
    <2>5. ASSUME NEW S \in SUBSET KnownIn(boxes'), S # {}, \A c \in S : boxes'[c].parent \in S
          PROVE  FALSE
      <3>1. CASE b \notin S
        <4>1. PICK c \in S : boxes[c].parent \notin S
          BY <2>3, <2>5 DEF IsForest
        <4> QED
          BY <2>3, <2>5, <3>1, <4>1
      <3>2. CASE b \in S
        <4>1. parent \in S /\ parent # None
          BY <2>3, <2>5, <3>2, KnownBoxes
        <4>2. /\ parent \in KnownIn(boxes) /\ parent \in Line(boxes, parent)
              /\ b \notin Line(boxes, parent) /\ Line(boxes, parent) \subseteq KnownIn(boxes)
              /\ Closed(boxes, Line(boxes, parent))
          BY <2>1, <4>1, LineIsLeast
        <4> DEFINE U == S \cap Line(boxes, parent)
        <4>3. U # {} /\ U \subseteq KnownIn(boxes)
          BY <4>1, <4>2
        <4>4. PICK c \in U : boxes[c].parent \notin U
          BY <4>3 DEF IsForest
        <4>5. boxes[c].parent \in S
          BY <2>3, <2>5, <4>2, <4>4
        <4>6. boxes[c].parent \in Line(boxes, parent)
          BY <2>3, <4>2, <4>4, <4>5 DEF Closed
        <4> QED
          BY <4>4, <4>5, <4>6
      <3> QED
        BY <3>1, <3>2
    <2> QED
      BY <2>4, <2>5 DEF IsForest
  <1>3. ASSUME NEW b \in Box, DestroyBox(b) PROVE IsForest(boxes')
    <2>1. /\ boxes' = [boxes EXCEPT ![b] = None]
          /\ \A c \in KnownIn(boxes) : boxes[c].parent # b
      BY <1>3 DEF DestroyBox, Exists, KnownIn
    <2>2. /\ KnownIn(boxes') = KnownIn(boxes) \ {b}
          /\ \A c \in KnownIn(boxes') : boxes'[c] = boxes[c]
      BY <2>1 DEF KnownIn
    <2>3. \A c \in KnownIn(boxes') : boxes'[c].parent \in KnownIn(boxes') \cup {None}
      <3>1. \A c \in KnownIn(boxes) : boxes[c].parent \in KnownIn(boxes) \cup {None}
        BY DEF IsForest
      <3> QED
        BY <2>1, <2>2, <3>1
    <2>4. ASSUME NEW S \in SUBSET KnownIn(boxes'), S # {}
          PROVE  \E c \in S : boxes'[c].parent \notin S
      <3>1. PICK c \in S : boxes[c].parent \notin S
        BY <2>2, <2>4 DEF IsForest
      <3> QED
        BY <2>2, <3>1
    <2> QED
      BY <2>3, <2>4 DEF IsForest
  <1>4. ASSUME NEW m \in Msg, NEW in \in SUBSET Box, FileMessage(m, in) PROVE IsForest(boxes')
    BY <1>4 DEF FileMessage, IsForest
  <1> QED
    BY <1>1, <1>2, <1>3, <1>4 DEF Account

-----------------------------------------------------------------------------
(* Where mailboxes are put.                                                 *)

\* The directories of an index nest as its mailboxes do, if f says what they are;
\* siblings have names apart, and a suffix is a mailbox's own.
NestedAs(index, f) ==
    \A b \in KnownIn(index.box) :
       /\ index.box[b].dir # <<>>
       /\ f[b].parent = None => Front(index.box[b].dir) = <<>>
       /\ f[b].parent # None => /\ f[b].parent \in KnownIn(index.box)
                                /\ Front(index.box[b].dir) = index.box[f[b].parent].dir
SiblingsApart(index) ==
    \A b \in KnownIn(index.box) :
       /\ Front(index.box[b].dir) = <<>> => Fold(Last(index.box[b].dir)) # Fold(Unfiled[1])
       /\ \A c \in KnownIn(index.box) \ {b} :
             Front(index.box[b].dir) = Front(index.box[c].dir) =>
                Fold(Last(index.box[b].dir)) # Fold(Last(index.box[c].dir))
OwnSuffix(index) ==
    \A b \in KnownIn(index.box) : Last(index.box[b].dir)[2] \in {None, b}
WellPlaced(index, f) == NestedAs(index, f) /\ SiblingsApart(index) /\ OwnSuffix(index)

\* What is above a mailbox's directory is a mailbox's directory.
LEMMA PrefixIsDir ==
    ASSUME NEW index \in Index, NEW f, NestedAs(index, f),
           NEW b \in KnownIn(index.box), NEW p \in Path, p # <<>>, IsPrefix(p, index.box[b].dir)
    PROVE  \E c \in KnownIn(index.box) : index.box[c].dir = p
  <1> DEFINE below == {c \in KnownIn(index.box) : IsPrefix(p, index.box[c].dir)}
             T == {Len(index.box[c].dir) : c \in below}
  <1>1. \A c \in below : index.box[c].dir \in Path /\ Len(index.box[c].dir) \in Nat
    BY IndexEntries, PathElements
  <1>2. PICK c \in below : \A d \in below : Len(index.box[c].dir) <= Len(index.box[d].dir)
    <2>1. T \subseteq Nat /\ T # {}
      BY <1>1
    <2>2. PICK x \in T : \A y \in T : x <= y
      BY <2>1, LeastExists
    <2> QED
      BY <2>2
  <1>3. index.box[c].dir = p
    <2> SUFFICES ASSUME index.box[c].dir # p PROVE FALSE
      OBVIOUS
    <2>1. Above(p, index.box[c].dir) /\ index.box[c].dir # <<>>
      BY <1>1, AboveIsPrefix DEF NestedAs
    <2>2. IsPrefix(p, Front(index.box[c].dir))
      BY <1>1, <2>1, PrefixOfFront
    <2>3. f[c].parent # None
      <3>1. Front(index.box[c].dir) # <<>>
        BY <2>2, PrefixOrder
      <3> QED
        BY <3>1 DEF NestedAs
    <2>4. f[c].parent \in below /\ index.box[f[c].parent].dir = Front(index.box[c].dir)
      BY <2>2, <2>3 DEF NestedAs
    <2>5. Len(Front(index.box[c].dir)) = Len(index.box[c].dir) - 1
      BY <1>1, <2>1, FrontOfPath
    <2> QED
      BY <1>1, <1>2, <2>4, <2>5
  <1> QED
    BY <1>3

\* Folding a path.
LEMMA FoldedPath ==
    ASSUME NEW p \in Path, p # <<>>, NEW q \in Path, q # <<>>, Folded(p) = Folded(q)
    PROVE  /\ Len(p) = Len(q) /\ Fold(Last(p)) = Fold(Last(q))
           /\ Folded(Front(p)) = Folded(Front(q))
           /\ Front(p) = <<>> <=> Front(q) = <<>>
  <1>1. /\ DOMAIN p = 1 .. Len(p) /\ DOMAIN q = 1 .. Len(q)
        /\ Len(p) \in Nat \ {0} /\ Len(q) \in Nat \ {0}
    BY PathElements
  <1>2. DOMAIN Folded(p) = DOMAIN p /\ DOMAIN Folded(q) = DOMAIN q
    BY DEF Folded
  <1>3. 1 .. Len(p) = 1 .. Len(q)
    BY <1>1, <1>2
  <1>4. Len(p) = Len(q)
    <2>1. Len(p) \in Nat \ {0} /\ Len(q) \in Nat \ {0}
      BY <1>1
    <2>2. Len(p) \in 1 .. Len(p) /\ Len(q) \in 1 .. Len(q)
      BY <2>1
    <2>3. Len(p) \in 1 .. Len(q) /\ Len(q) \in 1 .. Len(p)
      BY <1>3, <2>2, Zenon
    <2>4. Len(p) <= Len(q) /\ Len(q) <= Len(p)
      BY <2>1, <2>3
    <2> QED
      BY <2>1, <2>4
  <1>5. \A i \in 1 .. Len(p) : Fold(p[i]) = Fold(q[i])
    <2>1. \A i \in 1 .. Len(p) : Folded(p)[i] = Fold(p[i]) /\ Folded(q)[i] = Fold(q[i])
      BY <1>1, <1>4 DEF Folded
    <2> QED
      BY <2>1
  <1>6. /\ Front(p) \in Path /\ Len(Front(p)) = Len(p) - 1 /\ Last(p) = p[Len(p)]
        /\ \A i \in 1 .. Len(p) - 1 : Front(p)[i] = p[i]
        /\ Front(q) \in Path /\ Len(Front(q)) = Len(q) - 1 /\ Last(q) = q[Len(q)]
        /\ \A i \in 1 .. Len(q) - 1 : Front(q)[i] = q[i]
    BY FrontOfPath
  <1>7. Fold(Last(p)) = Fold(Last(q))
    BY <1>1, <1>4, <1>5, <1>6
  <1>8. DOMAIN Front(p) = 1 .. Len(p) - 1 /\ DOMAIN Front(q) = 1 .. Len(p) - 1
    BY <1>4, <1>6, PathElements
  <1>9. \A i \in 1 .. Len(p) - 1 : Fold(Front(p)[i]) = Fold(Front(q)[i])
    <2>1. ASSUME NEW i \in 1 .. Len(p) - 1 PROVE Fold(Front(p)[i]) = Fold(Front(q)[i])
      <3>1. i \in 1 .. Len(p) /\ Front(p)[i] = p[i] /\ Front(q)[i] = q[i]
        BY <1>1, <1>4, <1>6
      <3> QED
        BY <1>5, <3>1
    <2> QED
      BY <2>1
  <1>10. Folded(Front(p)) = Folded(Front(q))
    BY <1>8, <1>9 DEF Folded
  <1>11. Front(p) = <<>> <=> Front(q) = <<>>
    BY <1>4, <1>6, PathElements
  <1> QED
    BY <1>4, <1>7, <1>10, <1>11

\* Mailboxes that are well placed are apart, and apart from unfiled mail.
LEMMA WellPlacedApart ==
    ASSUME NEW index \in Index, NEW f, WellPlaced(index, f)
    PROVE  \A b \in KnownIn(index.box) :
              /\ Folded(index.box[b].dir) # Unfiled
              /\ index.box[b].dir # Unfiled
              /\ \A c \in KnownIn(index.box) \ {b} :
                    /\ Folded(index.box[c].dir) # Folded(index.box[b].dir)
                    /\ index.box[c].dir # index.box[b].dir
  <1> DEFINE dir(b) == index.box[b].dir
             clash == {p \in KnownIn(index.box) \X KnownIn(index.box) :
                          p[1] # p[2] /\ Folded(dir(p[1])) = Folded(dir(p[2]))}
             T == {Len(dir(p[1])) : p \in clash}
  <1>1. \A b \in KnownIn(index.box) : dir(b) \in Path /\ dir(b) # <<>> /\ Len(dir(b)) \in Nat
    BY IndexEntries, PathElements DEF WellPlaced, NestedAs
  <1>2. clash = {}
    <2> SUFFICES ASSUME clash # {} PROVE FALSE
      OBVIOUS
    <2>1. PICK p \in clash : \A q \in clash : Len(dir(p[1])) <= Len(dir(q[1]))
      <3>1. T \subseteq Nat /\ T # {}
        BY <1>1
      <3>2. PICK x \in T : \A y \in T : x <= y
        BY <3>1, LeastExists
      <3>3. PICK p \in clash : x = Len(dir(p[1]))
        BY <3>2
      <3>4. \A q \in clash : Len(dir(q[1])) \in T
        OBVIOUS
      <3> HIDE DEF clash, T
      <3> QED
        BY <3>2, <3>3, <3>4
    <2> DEFINE b == p[1]
               c == p[2]
    <2>2. b \in KnownIn(index.box) /\ c \in KnownIn(index.box) /\ b # c /\ Folded(dir(b)) = Folded(dir(c))
      BY <2>1
    <2> HIDE DEF dir
    <2>3. /\ Len(dir(b)) = Len(dir(c)) /\ Fold(Last(dir(b))) = Fold(Last(dir(c)))
          /\ Folded(Front(dir(b))) = Folded(Front(dir(c)))
          /\ Front(dir(b)) = <<>> <=> Front(dir(c)) = <<>>
      BY <1>1, <2>2, FoldedPath
    <2>4. Front(dir(b)) # Front(dir(c))
      BY <2>2, <2>3 DEF WellPlaced, SiblingsApart, dir
    <2>5. f[b].parent # None /\ f[c].parent # None
      BY <2>2, <2>3, <2>4 DEF WellPlaced, NestedAs, dir
    <2>6. /\ f[b].parent \in KnownIn(index.box) /\ Front(dir(b)) = dir(f[b].parent)
          /\ f[c].parent \in KnownIn(index.box) /\ Front(dir(c)) = dir(f[c].parent)
      BY <2>2, <2>5 DEF WellPlaced, NestedAs, dir
    <2>7. <<f[b].parent, f[c].parent>> \in clash
      BY <2>3, <2>4, <2>6
    <2>8. Len(dir(b)) <= Len(dir(f[b].parent))
      BY <2>1, <2>7
    <2>9. Len(Front(dir(b))) = Len(dir(b)) - 1
      BY <1>1, <2>2, FrontOfPath
    <2> QED
      BY <1>1, <2>2, <2>6, <2>8, <2>9
  <1>3. \A b \in KnownIn(index.box), c \in KnownIn(index.box) :
           b # c => Folded(dir(b)) # Folded(dir(c)) /\ dir(b) # dir(c)
    <2>1. ASSUME NEW b \in KnownIn(index.box), NEW c \in KnownIn(index.box), b # c
          PROVE  Folded(dir(b)) # Folded(dir(c))
      <3>1. <<b, c>> \notin clash
        BY <1>2
      <3> QED
        BY <2>1, <3>1
    <2> QED
      BY <2>1
  <1>4. ASSUME NEW b \in KnownIn(index.box), Folded(dir(b)) = Unfiled \/ dir(b) = Unfiled PROVE FALSE
    <2>1. Unfiled \in Path /\ Len(Unfiled) = 1 /\ Unfiled # <<>> /\ Unfiled[1] = <<"_unfiled", None>>
      BY DirForPath, IndexEntries
    <2>2. Fold(Unfiled[1]) = Unfiled[1]
      BY <2>1, LayoutAssumption DEF Fold
    <2>3. Folded(Unfiled) = Unfiled
      <3>1. DOMAIN Unfiled = 1 .. 1
        BY <2>1, PathElements
      <3>2. Folded(Unfiled) = [i \in 1 .. 1 |-> Unfiled[1]]
        BY <2>2, <3>1 DEF Folded
      <3>3. Unfiled = [i \in 1 .. 1 |-> Unfiled[i]]
        <4>1. Unfiled \in [1 .. 1 -> Segment]
          BY <2>1, PathElements
        <4> QED
          BY <4>1
      <3>4. \A i \in 1 .. 1 : i = 1
        OBVIOUS
      <3> QED
        BY <3>2, <3>3, <3>4
    <2>4. Folded(dir(b)) = Folded(Unfiled)
      BY <1>4, <2>3
    <2>5. Len(dir(b)) = Len(Unfiled) /\ Fold(Last(dir(b))) = Fold(Last(Unfiled))
      BY <1>1, <2>1, <2>4, FoldedPath
    <2>6. Last(Unfiled) = Unfiled[1]
      BY <2>1, FrontOfPath
    <2>7. Front(dir(b)) = <<>>
      <3>1. Front(dir(b)) \in Path /\ Len(Front(dir(b))) = 0
        BY <1>1, <2>1, <2>5, FrontOfPath
      <3> QED
        BY <3>1, PathElements
    <2> QED
      BY <2>5, <2>6, <2>7 DEF WellPlaced, SiblingsApart
  <1> QED
    BY <1>3, <1>4

-----------------------------------------------------------------------------
(* A mailbox whose turn it is.                                              *)

\* Mailboxes that are no longer waiting are placed.
AtTurn(b) ==
    /\ ix \in Index /\ listed \in TreeOfBoxes /\ IsForest(listed) /\ todo \subseteq KnownIn(listed)
    /\ b \in Box /\ Turn(b)
    /\ \A a \in KnownIn(listed) \ todo : a \in KnownIn(ix.box) /\ ix.box[a].info = listed[a]

\* Its parent is placed, so it goes into its parent's directory.
LEMMA ParentPlaced ==
    ASSUME NEW b, AtTurn(b)
    PROVE  /\ b \in KnownIn(listed) /\ listed[b] \in Info
           /\ \A a \in Line(listed, b) \ {b} : a \in KnownIn(ix.box) /\ ix.box[a].info = listed[a]
           /\ listed[b].parent = None => ParentDir(listed[b]) = <<>>
           /\ listed[b].parent # None =>
                /\ listed[b].parent \in Line(listed, b) \ {b}
                /\ listed[b].parent \in KnownIn(ix.box)
                /\ ParentDir(listed[b]) = ix.box[listed[b].parent].dir
  <1>1. b \in KnownIn(listed) /\ \A a \in Line(listed, b) : a # b => a \in KnownIn(listed) \ todo
    BY TurnOrder DEF AtTurn
  <1>2. listed[b] \in Info
    BY <1>1, KnownBoxes DEF AtTurn
  <1>3. \A a \in Line(listed, b) \ {b} : a \in KnownIn(ix.box) /\ ix.box[a].info = listed[a]
    BY <1>1 DEF AtTurn
  <1>4. listed[b].parent # None => listed[b].parent \in Line(listed, b) \ {b}
    BY <1>1, ParentOnLine DEF AtTurn
  <1>5. listed[b].parent # None => listed[b].parent \in KnownIn(ix.box)
    BY <1>3, <1>4
  <1> QED
    BY <1>1, <1>2, <1>3, <1>4, <1>5 DEF ParentDir, KnownIn

\* The name it gets is not one that a sibling or unfiled mail has.
LEMMA NameIsFree ==
    ASSUME NEW b, AtTurn(b), OwnSuffix(ix), NEW dir \in {NewDir(b), MovedDir(b)}
    PROVE  LET prefix == ParentDir(listed[b]) IN
           /\ dir \in Path /\ dir # <<>> /\ Front(dir) = prefix /\ Last(dir)[2] \in {None, b}
           /\ prefix = <<>> => Fold(Last(dir)) # Fold(Unfiled[1])
           /\ \A c \in KnownIn(ix.box) \ {b} :
                 Front(ix.box[c].dir) = prefix => Fold(Last(dir)) # Fold(Last(ix.box[c].dir))
  <1> DEFINE prefix == ParentDir(listed[b])
             name == listed[b].name
             at(taken) == Append(prefix, Assigned(b, name, taken))
             first == at(Taken(b, prefix))
  <1>1. /\ prefix \in Path /\ dir \in Path /\ dir # <<>> /\ Front(dir) = prefix
        /\ Last(dir)[2] \in {None, b} /\ listed[b] \in Info
    BY ParentPlaced, AssignedDirs DEF AtTurn, TreeOfBoxes
  <1>2. \E taken : Taken(b, prefix) \subseteq taken /\ dir = at(taken)
    <2>1. MovedDir(b) = at(Taken(b, prefix))
      BY DEF MovedDir
    <2>2. NewDir(b) = IF \E c \in CardAt(disk, first) : c.box # b
                      THEN at(Taken(b, prefix) \cup {Fold(Last(first))}) ELSE at(Taken(b, prefix))
      BY DEF NewDir
    <2> HIDE DEF at
    <2> QED
      BY <2>1, <2>2
  <1>3. PICK taken : Taken(b, prefix) \subseteq taken /\ dir = at(taken)
    BY <1>2
  <1>4. Assigned(b, name, taken) \in Segment
    BY <1>1, LayoutAssumption DEF Assigned, Segment, Info, AtTurn
  <1>5. Last(dir) = Assigned(b, name, taken)
    BY <1>1, <1>3, <1>4, AppendToPath
  <1>6. Fold(Last(dir)) \notin taken \/ Last(dir) = <<Sanitized[name], b>>
    BY <1>5 DEF Assigned
  <1>7. None # b
    BY BoxAssumption DEF AtTurn
  <1>8. ASSUME prefix = <<>>, Fold(Last(dir)) = Fold(Unfiled[1]) PROVE FALSE
    <2>1. Fold(Unfiled[1]) \in Taken(b, prefix)
      BY <1>8 DEF Taken
    <2>2. Last(dir) = <<Sanitized[name], b>>
      BY <1>3, <1>6, <1>8, <2>1
    <2>3. Fold(Last(dir))[2] = b /\ Fold(Unfiled[1])[2] = None
      BY <2>2 DEF Fold, Unfiled
    <2> QED
      BY <1>7, <1>8, <2>3
  <1>9. ASSUME NEW c \in KnownIn(ix.box) \ {b}, Front(ix.box[c].dir) = prefix,
               Fold(Last(dir)) = Fold(Last(ix.box[c].dir))
        PROVE  FALSE
    <2>1. Fold(Last(ix.box[c].dir)) \in Taken(b, prefix)
      BY <1>9 DEF Taken
    <2>2. Last(dir) = <<Sanitized[name], b>>
      BY <1>3, <1>6, <1>9, <2>1
    <2>3. Fold(Last(dir))[2] = b /\ Fold(Last(ix.box[c].dir))[2] = Last(ix.box[c].dir)[2]
      BY <2>2 DEF Fold
    <2>4. Last(ix.box[c].dir)[2] \in {None, c}
      BY DEF OwnSuffix
    <2> QED
      BY <1>7, <1>9, <2>3, <2>4
  <1> QED
    BY <1>1, <1>8, <1>9

\* Nothing is at or below the directory it gets, unless that is its own.
LEMMA DirIsFree ==
    ASSUME NEW b, AtTurn(b), NEW f, WellPlaced(ix, f), NEW dir \in {NewDir(b), MovedDir(b)},
           b \in KnownIn(ix.box) => dir # ix.box[b].dir
    PROVE  \A c \in KnownIn(ix.box) : ~IsPrefix(dir, ix.box[c].dir)
  <1> SUFFICES ASSUME NEW c \in KnownIn(ix.box), IsPrefix(dir, ix.box[c].dir) PROVE FALSE
    OBVIOUS
  <1>1. /\ dir \in Path /\ dir # <<>> /\ Front(dir) = ParentDir(listed[b])
        /\ \A d \in KnownIn(ix.box) \ {b} :
              Front(ix.box[d].dir) = ParentDir(listed[b]) => Fold(Last(dir)) # Fold(Last(ix.box[d].dir))
    BY NameIsFree DEF WellPlaced
  <1>2. PICK d \in KnownIn(ix.box) : ix.box[d].dir = dir
    BY <1>1, PrefixIsDir DEF AtTurn, WellPlaced
  <1> QED
    BY <1>1, <1>2

\* It does not move into its own directory.
LEMMA NotIntoItself ==
    ASSUME NEW b, AtTurn(b), WellPlaced(ix, InfoOf(ix)), b \in KnownIn(ix.box)
    PROVE  ~IsPrefix(ix.box[b].dir, ParentDir(listed[b]))
  <1> SUFFICES ASSUME IsPrefix(ix.box[b].dir, ParentDir(listed[b])) PROVE FALSE
    OBVIOUS
  <1> DEFINE dir(a) == ix.box[a].dir
             S == {a \in Line(listed, b) \ {b} : IsPrefix(dir(b), dir(a))}
             T == {Len(dir(a)) : a \in S}
  <1>1. \A a \in KnownIn(ix.box) : dir(a) \in Path /\ dir(a) # <<>> /\ Len(dir(a)) \in Nat
    BY IndexEntries, PathElements DEF AtTurn, WellPlaced, NestedAs
  <1>2. /\ listed[b].parent # None
        /\ listed[b].parent \in Line(listed, b) \ {b} /\ ParentDir(listed[b]) = dir(listed[b].parent)
    <2>1. ParentDir(listed[b]) # <<>>
      BY <1>1, PrefixOrder
    <2> QED
      BY <2>1, ParentPlaced
  <1>3. listed[b].parent \in S
    BY <1>2
  <1>4. \A a \in S : a \in KnownIn(ix.box) /\ ix.box[a].info = listed[a] /\ a \in Line(listed, b) /\ a # b
                     /\ IsPrefix(dir(b), dir(a))
    BY ParentPlaced
  <1>5. PICK a \in S : \A c \in S : Len(dir(a)) <= Len(dir(c))
    <2>1. T \subseteq Nat /\ T # {}
      BY <1>1, <1>3, <1>4
    <2>2. PICK x \in T : \A y \in T : x <= y
      BY <2>1, LeastExists
    <2> QED
      BY <2>2
  <1> HIDE DEF S, T, dir
  <1>6. dir(a) # dir(b)
    BY <1>4, <1>5, WellPlacedApart DEF dir, AtTurn
  <1>7. IsPrefix(dir(b), Front(dir(a)))
    BY <1>1, <1>4, <1>5, <1>6, AboveIsPrefix, PrefixOfFront
  <1>8. Front(dir(a)) # <<>>
    BY <1>1, <1>7, PrefixOrder
  <1>9. InfoOf(ix)[a] = listed[a]
    BY <1>4, <1>5 DEF InfoOf, KnownIn
  <1>10. listed[a].parent # None /\ listed[a].parent \in KnownIn(ix.box) /\ Front(dir(a)) = dir(listed[a].parent)
    BY <1>4, <1>5, <1>8, <1>9 DEF WellPlaced, NestedAs, dir
  <1>11. b \in KnownIn(listed) /\ a \in KnownIn(listed)
    BY <1>4, <1>5, ParentPlaced, LineIsLeast
  <1>12. /\ listed[a].parent \in Line(listed, a) /\ Line(listed, a) \subseteq Line(listed, b)
         /\ b \notin Line(listed, a)
    BY <1>4, <1>5, <1>10, <1>11, ParentOnLine, LineOfLine, LineIsAcyclic DEF AtTurn
  <1>13. listed[a].parent \in S
    BY <1>7, <1>10, <1>12 DEF S
  <1>14. Len(dir(listed[a].parent)) = Len(dir(a)) - 1
    BY <1>1, <1>4, <1>5, <1>10, FrontOfPath
  <1> QED
    BY <1>1, <1>4, <1>5, <1>10, <1>13, <1>14

\* A path that is renamed is a path.
LEMMA RebasedNonEmpty ==
    ASSUME NEW p \in Path, NEW from \in Path, NEW to \in Path, to # <<>>, p # <<>>
    PROVE  Rebased(p, from, to) \in Path /\ Rebased(p, from, to) # <<>>
  <1>1. Len(p) \in Nat /\ Len(to) \in Nat \ {0} /\ Len(from) \in Nat
    BY PathElements
  <1>2. CASE IsPrefix(from, p)
    <2>1. /\ Rebased(p, from, to) \in Path /\ Len(from) <= Len(p)
          /\ Len(Rebased(p, from, to)) = Len(to) + (Len(p) - Len(from))
      BY <1>2, RebasedElements
    <2>2. Len(Rebased(p, from, to)) # 0
      BY <1>1, <2>1
    <2> QED
      BY <2>1, <2>2, PathElements
  <1>3. CASE ~IsPrefix(from, p)
    BY <1>3, RebasedElements
  <1> QED
    BY <1>2, <1>3

\* A rename takes the mailboxes below along.
LEMMA RenamePlaced ==
    ASSUME NEW b, AtTurn(b), WellPlaced(ix, InfoOf(ix)), b \in KnownIn(ix.box),
           MovedDir(b) # ix.box[b].dir,
           NEW f, f[b] = listed[b], \A c \in KnownIn(ix.box) \ {b} : f[c] = ix.box[c].info
    PROVE  WellPlaced(IndexRebased(ix.box[b].dir, MovedDir(b)), f)
  <1> DEFINE from == ix.box[b].dir
             to == MovedDir(b)
             old(c) == ix.box[c].dir
             new(c) == Rebased(ix.box[c].dir, from, to)
             K == KnownIn(ix.box)
             index == IndexRebased(from, to)
  <1>1. ix \in Index /\ from \in Path /\ from # <<>> /\ \A c \in K : old(c) \in Path /\ old(c) # <<>>
    BY IndexEntries DEF AtTurn, WellPlaced, NestedAs
  <1>2. /\ to \in Path /\ to # <<>> /\ Front(to) = ParentDir(listed[b]) /\ Last(to)[2] \in {None, b}
        /\ Front(to) = <<>> => Fold(Last(to)) # Fold(Unfiled[1])
        /\ \A c \in K \ {b} : Front(old(c)) = Front(to) => Fold(Last(to)) # Fold(Last(old(c)))
    BY NameIsFree DEF WellPlaced
  <1>3. \A c \in K : ~IsPrefix(to, old(c))
    BY DirIsFree
  <1>4. ~IsPrefix(from, Front(to))
    BY <1>2, NotIntoItself
  <1>5. KnownIn(index.box) = K /\ \A c \in K : index.box[c].dir = new(c)
    <2>1. /\ KnownIn(index.box) = K
          /\ \A c \in Box : index.box[c] = IF ix.box[c] = None THEN None
                                       ELSE [info |-> ix.box[c].info, dir |-> new(c)]
      BY <1>1, <1>2, IndexRebasedTyped
    <2>2. \A c \in K : c \in Box /\ ix.box[c] # None
      BY DEF KnownIn
    <2> HIDE DEF index, new, K
    <2>3. ASSUME NEW c \in K PROVE index.box[c].dir = new(c)
      <3>1. index.box[c] = [info |-> ix.box[c].info, dir |-> new(c)]
        BY <2>1, <2>2
      <3> QED
        BY <3>1
    <2>4. KnownIn(index.box) = K
      BY <2>1
    <2> QED
      BY <2>3, <2>4, Zenon
  <1>6. ASSUME NEW c \in K
        PROVE  /\ new(c) \in Path /\ new(c) # <<>>
               /\ Len(new(c)) \in Nat /\ Len(to) \in Nat
    BY <1>1, <1>2, RebasedNonEmpty, PathElements
  <1>7. new(b) = to
    BY <1>1, <1>2, RebasedElements
  <1>8. ASSUME NEW c \in K \ {b}, IsPrefix(from, old(c))
        PROVE  /\ Front(new(c)) = Rebased(Front(old(c)), from, to) /\ Last(new(c)) = Last(old(c))
               /\ IsPrefix(from, Front(old(c))) /\ IsPrefix(to, Front(new(c)))
               /\ Front(old(c)) \in Path
    <2>1. old(c) # from
      BY WellPlacedApart DEF AtTurn
    <2>2. Above(from, old(c))
      BY <1>1, <1>8, <2>1, AboveIsPrefix
    <2>3. Front(old(c)) \in Path
      BY <1>1, FrontOfPath
    <2>4. /\ Front(new(c)) = Rebased(Front(old(c)), from, to) /\ Last(new(c)) = Last(old(c))
          /\ IsPrefix(from, Front(old(c)))
      BY <1>1, <1>2, <2>2, RebasedFront
    <2>5. IsPrefix(to, Rebased(Front(old(c)), from, to))
      BY <1>1, <1>2, <2>3, <2>4, RebasedElements
    <2> QED
      BY <2>3, <2>4, <2>5
  <1>9. ASSUME NEW c \in K, ~IsPrefix(from, old(c)) PROVE new(c) = old(c) /\ c # b
    <2>1. c # b
      BY <1>1, <1>9, PrefixOrder
    <2>2. old(c) \in Path /\ from \in Path /\ to \in Path
      BY <1>1, <1>2
    <2> HIDE DEF old, from, to
    <2>3. Rebased(old(c), from, to) = old(c)
      BY <1>9, <2>2, RebasedElements
    <2> QED
      BY <2>1, <2>3 DEF old, from, to
  <1>10. ASSUME NEW c \in K
         PROVE  /\ f[c].parent = None => Front(new(c)) = <<>>
                /\ f[c].parent # None => f[c].parent \in K /\ Front(new(c)) = new(f[c].parent)
    <2>1. CASE c = b
      <3>1. f[c].parent = None => Front(new(c)) = <<>>
        BY <1>2, <1>7, <2>1, ParentPlaced
      <3>2. ASSUME f[c].parent # None PROVE f[c].parent \in K /\ Front(new(c)) = new(f[c].parent)
        <4>1. f[c].parent \in K /\ Front(to) = old(f[c].parent)
          BY <1>2, <2>1, <3>2, ParentPlaced
        <4>2. new(f[c].parent) = old(f[c].parent)
          BY <1>4, <1>9, <4>1
        <4> QED
          BY <1>7, <2>1, <4>1, <4>2
      <3> QED
        BY <3>1, <3>2
    <2>2. CASE c # b
      <3>1. f[c] = InfoOf(ix)[c]
        BY <2>2 DEF InfoOf, KnownIn
      <3>2. /\ f[c].parent = None => Front(old(c)) = <<>>
            /\ f[c].parent # None => f[c].parent \in K /\ Front(old(c)) = old(f[c].parent)
        BY <3>1 DEF WellPlaced, NestedAs
      <3>3. CASE IsPrefix(from, old(c))
        <4>1. /\ Front(new(c)) = Rebased(Front(old(c)), from, to)
              /\ IsPrefix(from, Front(old(c)))
          BY <1>8, <2>2, <3>3
        <4>2. f[c].parent # None
          BY <1>1, <3>2, <4>1, PrefixOrder
        <4> QED
          BY <3>2, <4>1, <4>2
      <3>4. CASE ~IsPrefix(from, old(c))
        <4>1. new(c) = old(c)
          BY <1>9, <3>4
        <4>2. ASSUME f[c].parent # None PROVE ~IsPrefix(from, old(f[c].parent))
          <5>1. f[c].parent \in K /\ IsPrefix(old(f[c].parent), old(c))
            BY <1>1, <3>2, <4>2, PrefixOfFront
          <5> QED
            BY <1>1, <3>4, <5>1, PrefixOrder
        <4>3. f[c].parent # None => new(f[c].parent) = old(f[c].parent)
          BY <1>9, <3>2, <4>2
        <4> QED
          BY <3>2, <4>1, <4>3
      <3> QED
        BY <3>3, <3>4
    <2> QED
      BY <2>1, <2>2
  <1>11. NestedAs(index, f)
    BY <1>5, <1>6, <1>10 DEF NestedAs
  <1>12. ASSUME NEW c \in K \ {b}
         PROVE  \/ IsPrefix(from, old(c)) /\ IsPrefix(to, Front(new(c)))
                \/ ~IsPrefix(from, old(c)) /\ new(c) = old(c)
    BY <1>8, <1>9
  <1>13. \A c \in K : Last(new(c))[2] \in {None, c}
    <2>1. ASSUME NEW c \in K \ {b} PROVE Last(new(c)) = Last(old(c))
      BY <1>8, <1>9
    <2> QED
      BY <1>2, <1>7, <2>1 DEF WellPlaced, OwnSuffix
  <1>14. ~IsPrefix(to, Front(to))
    <2>1. Front(to) \in Path /\ Above(Front(to), to)
      BY <1>2, PrefixOfFront, FrontOfPath
    <2>2. IsPrefix(Front(to), to) /\ Front(to) # to
      BY <1>2, <2>1, AboveIsPrefix
    <2> QED
      BY <1>2, <2>1, <2>2, PrefixOrder
  <1>15. ASSUME NEW c \in K \ {b}, Front(new(c)) = Front(to) PROVE Fold(Last(to)) # Fold(Last(new(c)))
    <2>1. ~IsPrefix(from, old(c)) /\ new(c) = old(c)
      BY <1>12, <1>14, <1>15
    <2> QED
      BY <1>2, <1>15, <2>1
  <1>16. ASSUME NEW c \in K \ {b}, NEW d \in K \ {b}, c # d, Front(new(c)) = Front(new(d))
         PROVE  Fold(Last(new(c))) # Fold(Last(new(d)))
    <2>1. CASE IsPrefix(from, old(c)) /\ IsPrefix(from, old(d))
      <3>1. /\ Rebased(Front(old(c)), from, to) = Rebased(Front(old(d)), from, to)
            /\ Last(new(c)) = Last(old(c)) /\ Last(new(d)) = Last(old(d))
            /\ IsPrefix(from, Front(old(c))) /\ IsPrefix(from, Front(old(d)))
            /\ Front(old(c)) \in Path /\ Front(old(d)) \in Path
        BY <1>8, <1>16, <2>1
      <3>2. Front(old(c)) = Front(old(d))
        BY <1>1, <1>2, <3>1, RebasedInjective
      <3> QED
        BY <1>16, <3>1, <3>2 DEF WellPlaced, SiblingsApart
    <2>2. CASE ~IsPrefix(from, old(c)) /\ ~IsPrefix(from, old(d))
      <3>1. new(c) = old(c) /\ new(d) = old(d)
        BY <1>9, <2>2
      <3> QED
        BY <1>16, <3>1 DEF WellPlaced, SiblingsApart
    <2>3. ASSUME NEW x \in K \ {b}, NEW y \in K \ {b}, Front(new(x)) = Front(new(y)),
                 IsPrefix(from, old(x)), ~IsPrefix(from, old(y))
          PROVE  FALSE
      <3>1. IsPrefix(to, Front(new(x))) /\ new(y) = old(y)
        BY <1>8, <1>9, <2>3
      <3>2. Front(old(y)) \in Path /\ IsPrefix(Front(old(y)), old(y))
        BY <1>1, FrontOfPath, PrefixOfFront
      <3>3. IsPrefix(to, old(y))
        BY <1>1, <1>2, <2>3, <3>1, <3>2, PrefixOrder
      <3> QED
        BY <1>3, <3>3
    <2> QED
      BY <1>16, <2>1, <2>2, <2>3
  <1>17. ASSUME NEW c \in K \ {b}, Front(new(c)) = <<>> PROVE Fold(Last(new(c))) # Fold(Unfiled[1])
    <2>1. ~IsPrefix(from, old(c)) /\ new(c) = old(c)
      BY <1>2, <1>12, <1>17, PrefixOrder
    <2> QED
      BY <1>17, <2>1 DEF WellPlaced, SiblingsApart
  <1>18. SiblingsApart(index)
    <2> HIDE DEF new, index
    <2>1. ASSUME NEW c \in K PROVE Front(new(c)) = <<>> => Fold(Last(new(c))) # Fold(Unfiled[1])
      BY <1>2, <1>7, <1>17
    <2>2. ASSUME NEW c \in K, NEW d \in K \ {c}, Front(new(c)) = Front(new(d))
          PROVE  Fold(Last(new(c))) # Fold(Last(new(d)))
      BY <1>7, <1>15, <1>16, <2>2
    <2> QED
      BY <1>5, <2>1, <2>2 DEF SiblingsApart
  <1> QED
    BY <1>5, <1>11, <1>13, <1>18 DEF WellPlaced, OwnSuffix

\* A card that is written says where the mailbox is.
LEMMA CardPlaced ==
    ASSUME NEW b, AtTurn(b), NEW f, WellPlaced(ix, f),
           \A c \in KnownIn(ix.box) \ {b} : f[c] = ix.box[c].info,
           NEW dir,
           IF b \in KnownIn(ix.box) THEN dir = ix.box[b].dir /\ Front(dir) = ParentDir(listed[b])
                                    ELSE dir = NewDir(b)
    PROVE  LET index == [ix EXCEPT !.box[b] = [info |-> listed[b], dir |-> dir]] IN
           /\ index \in Index /\ KnownIn(index.box) = KnownIn(ix.box) \cup {b}
           /\ index.box[b] = [info |-> listed[b], dir |-> dir]
           /\ \A c \in Box \ {b} : index.box[c] = ix.box[c]
           /\ index.mail = ix.mail
           /\ WellPlaced(index, InfoOf(index))
  <1> DEFINE entry == [info |-> listed[b], dir |-> dir]
             index == [ix EXCEPT !.box[b] = entry]
             K == KnownIn(ix.box)
  <1>1. ix \in Index /\ b \in Box /\ listed[b] \in Info
    BY ParentPlaced DEF AtTurn
  <1>2. /\ dir \in Path /\ dir # <<>> /\ Front(dir) = ParentDir(listed[b]) /\ Last(dir)[2] \in {None, b}
        /\ Front(dir) = <<>> => Fold(Last(dir)) # Fold(Unfiled[1])
        /\ \A c \in K \ {b} : Front(ix.box[c].dir) = Front(dir) => Fold(Last(dir)) # Fold(Last(ix.box[c].dir))
    <2>1. CASE b \in K
      BY <1>1, <2>1, IndexEntries DEF WellPlaced, NestedAs, SiblingsApart, OwnSuffix
    <2>2. CASE b \notin K
      BY <2>2, NameIsFree DEF WellPlaced
    <2> QED
      BY <2>1, <2>2
  <1>3. entry \in BoxEntry /\ entry # None
    BY <1>1, <1>2, NoneAssumption DEF BoxEntry
  <1>4. /\ index \in Index /\ index.mail = ix.mail /\ index.box[b] = entry
        /\ \A c \in Box \ {b} : index.box[c] = ix.box[c]
        /\ KnownIn(index.box) = K \cup {b}
    <2> HIDE DEF entry
    <2> QED
      BY <1>1, <1>3 DEF Index, KnownIn
  <1> HIDE DEF index
  <1>5. /\ index.box[b].dir = dir /\ index.box[b].info = listed[b]
        /\ \A c \in K \ {b} : index.box[c] = ix.box[c] /\ c \in Box
    BY <1>4 DEF KnownIn
  <1>6. \A c \in K \cup {b} : InfoOf(index)[c] = index.box[c].info
    BY <1>1, <1>4 DEF InfoOf, KnownIn
  <1>7. ASSUME NEW c \in K \cup {b}
        PROVE  /\ index.box[c].dir # <<>>
               /\ InfoOf(index)[c].parent = None => Front(index.box[c].dir) = <<>>
               /\ InfoOf(index)[c].parent # None =>
                     /\ InfoOf(index)[c].parent \in K \cup {b}
                     /\ Front(index.box[c].dir) = index.box[InfoOf(index)[c].parent].dir
    <2>1. CASE c = b
      <3>1. InfoOf(index)[c] = listed[b]
        BY <1>5, <1>6, <2>1
      <3>2. listed[b].parent # None => listed[b].parent \in K /\ listed[b].parent # b
        BY ParentPlaced
      <3> QED
        BY <1>2, <1>5, <2>1, <3>1, <3>2, ParentPlaced
    <2>2. CASE c # b
      <3>1. c \in K /\ InfoOf(index)[c] = f[c] /\ index.box[c].dir = ix.box[c].dir
        BY <1>5, <1>6, <2>2
      <3>2. /\ ix.box[c].dir # <<>>
            /\ f[c].parent = None => Front(ix.box[c].dir) = <<>>
            /\ f[c].parent # None => f[c].parent \in K /\ Front(ix.box[c].dir) = ix.box[f[c].parent].dir
        BY <3>1 DEF WellPlaced, NestedAs
      <3>3. \A d \in K : index.box[d].dir = ix.box[d].dir
        BY <1>5
      <3> QED
        BY <3>1, <3>2, <3>3
    <2> QED
      BY <2>1, <2>2
  <1>8. NestedAs(index, InfoOf(index))
    BY <1>4, <1>7 DEF NestedAs
  <1>9. SiblingsApart(index)
    BY <1>2, <1>4, <1>5 DEF SiblingsApart, WellPlaced
  <1>10. OwnSuffix(index)
    BY <1>2, <1>4, <1>5 DEF OwnSuffix, WellPlaced
  <1> QED
    BY <1>4, <1>8, <1>9, <1>10 DEF WellPlaced, index

\* A mailbox that is removed has none below it.
LEMMA PrunePlaced ==
    ASSUME ix \in Index, NEW f, WellPlaced(ix, f), NEW b \in KnownIn(ix.box), ~HasContents(ix.box[b].dir)
    PROVE  LET index == [ix EXCEPT !.box[b] = None] IN
           /\ index \in Index /\ KnownIn(index.box) = KnownIn(ix.box) \ {b}
           /\ \A c \in KnownIn(index.box) : index.box[c] = ix.box[c]
           /\ WellPlaced(index, f)
  <1> DEFINE index == [ix EXCEPT !.box[b] = None]
             K == KnownIn(ix.box)
  <1>1. /\ index \in Index /\ KnownIn(index.box) = K \ {b}
        /\ \A c \in K \ {b} : index.box[c] = ix.box[c]
    BY DEF Index, KnownIn
  <1>2. ASSUME NEW c \in K \ {b}, f[c].parent # None PROVE f[c].parent # b
    <2>1. ~Above(ix.box[b].dir, ix.box[c].dir)
      BY DEF HasContents
    <2>2. ix.box[c].dir \in Path /\ ix.box[c].dir # <<>> /\ ix.box[b].dir \in Path
      BY IndexEntries DEF WellPlaced, NestedAs
    <2>3. Above(Front(ix.box[c].dir), ix.box[c].dir)
      BY <2>2, PrefixOfFront
    <2> QED
      BY <1>2, <2>1, <2>3 DEF WellPlaced, NestedAs
  <1> HIDE DEF index
  <1>3. NestedAs(index, f)
    BY <1>1, <1>2 DEF WellPlaced, NestedAs
  <1>4. SiblingsApart(index) /\ OwnSuffix(index)
    BY <1>1 DEF WellPlaced, SiblingsApart, OwnSuffix
  <1> QED
    BY <1>1, <1>3, <1>4 DEF WellPlaced, index

-----------------------------------------------------------------------------
(* What a pass relies on: where mailboxes are, and the index it opens.      *)

\* No pass has been interrupted so far; none has, or the store is a plain one. What
\* is proved under them ends, as the properties do, where calm does: without an
\* interruption, at a reconciliation begun while mail waits for its mailbox in
\* `_unfiled`, or a backfill of a git store that meets no mail.
Unbroken == stops = 0
PlainOrUnbroken == git => Unbroken

\* What a mailbox is put as: for one whose directory has just been made or
\* renamed, what its card is about to say.
PlacedInfo == [b \in Box |-> IF pc = "card" /\ Turn(b) THEN listed[b] ELSE InfoOf(ix)[b]]

\* No mailbox is above itself, and the mailboxes that need no writing are in
\* the index as they are listed.
ForestInv ==
    /\ IsForest(boxes) /\ IsForest(listed)
    /\ pc \in {"plan", "upsert", "card"} =>
          \A a \in KnownIn(listed) \ todo : a \in KnownIn(ix.box) /\ ix.box[a].info = listed[a]

\* Directories nest as mailboxes do, no two siblings share one: in the index of
\* the pass and in the one it would open again.
PlacedInv ==
    calm => /\ WellPlaced(ix, PlacedInfo)
            /\ saved # None => WellPlaced(saved.index, InfoOf(saved.index))

\* What the first pass renames, and what HEAD is between passes.
OpeningInv ==
    /\ pc = "idle" => ix = EmptyIndex /\ KnownIn(listed) = {}
    /\ calm =>
         /\ saved = None /\ pc # "idle" => stage = "backfill"
         /\ saved = None /\ pc \in {"plan", "upsert", "card"} => todo \cap KnownIn(ix.box) = {}
         /\ git /\ pc # "save" => IF saved = None THEN head = EmptyTree ELSE saved.head = head
         /\ git /\ pc \in {"mail", "prune", "commit", "save"} => ~NoDays

PlacesInv == TypeInv /\ ForestInv /\ PlacedInv /\ OpeningInv

\* Cards are those of an index, which has its mailboxes as the account has them.
CardOf(index, b) == [at |-> index.box[b].dir, box |-> b, info |-> index.box[b].info]
CardsOf(index) == {CardOf(index, b) : b \in KnownIn(index.box)}
AsIn(index, tree) == \A b \in KnownIn(index.box) : index.box[b].info = tree[b]
Scanned(index) ==
    disk.card = CardsOf(index) /\ WellPlaced(index, InfoOf(index)) /\ AsIn(index, boxes)

\* Before the first save: a plain store has the cards of the index, or of the
\* one a scan gives when a pass was cut short; mailboxes are as they were listed,
\* and have not changed since one was.
FreshFacts ==
    /\ ~git /\ pc = "idle" => \E index \in Index : Scanned(index)
    /\ ~git /\ pc # "idle" => disk.card = CardsOf(ix)
    /\ pc = "list" => AsIn(ix, boxes)
    /\ pc \notin {"idle", "list"} => AsIn(ix, listed) /\ gone = {}
    /\ pc = "prune" => todo = {}
    /\ pc \in {"idle", "list"} /\ ~wrecked =>
          KnownIn(ix.box) = {} /\ (~git => disk.card = {})
FreshInv == calm /\ saved = None => FreshFacts

IndexInv == TypeInv /\ ForestInv /\ PlacedInv /\ OpeningInv /\ FreshInv

\* A set with all or none of at most one element.
LEMMA AllOfOne ==
    ASSUME NEW s, NEW C, NEW x, C = {x} \/ C = {}
    PROVE  /\ Cardinality(s \cap C) = Min({1, Cardinality(C)}) <=> C \subseteq s
           /\ x \in s /\ C = {x} => (CHOOSE c \in s : c \in C) = x
  <1>1. Cardinality({}) = 0 /\ Cardinality({x}) = 1 /\ Min({1, 0}) = 0 /\ Min({1, 1}) = 1
    BY AtMostOne, FS_EmptySet, FS_Singleton
  <1>2. CASE C = {}
    <2>1. s \cap C = {} /\ C \subseteq s /\ C # {x}
      BY <1>2
    <2> QED
      BY <1>1, <1>2, <2>1
  <1>3. CASE C = {x}
    <2>1. x \in s => s \cap C = {x}
      BY <1>3
    <2>2. x \notin s => s \cap C = {}
      BY <1>3
    <2> QED
      BY <1>1, <1>3, <2>1, <2>2
  <1> QED
    BY <1>2, <1>3

\* A scan finds the mailboxes whose cards are there.
LEMMA RebuiltBoxes ==
    ASSUME NEW index \in Index, NEW t, t.card = CardsOf(index), NEW i \in Rebuilt(t)
    PROVE  i.box = index.box
  <1> DEFINE cards(b) == {c \in t.card : c.box = b}
             copies(m) == {f \in t.side : f.msg = m}
             once(s) == /\ \A b \in Box : Cardinality(s \cap cards(b)) = Min({1, Cardinality(cards(b))})
                        /\ \A m \in Msg : Cardinality(s \cap copies(m)) = Min({1, Cardinality(copies(m))})
             last == {s \in SUBSET (t.card \cup t.side) : once(s)}
             box(s) == [b \in Box |-> IF cards(b) = {} THEN None
                            ELSE LET c == CHOOSE c \in s : c \in cards(b)
                                 IN  [info |-> c.info, dir |-> c.at]]
             held(s) == [m \in Msg |-> IF copies(m) = {} THEN None
                            ELSE LET f == CHOOSE f \in s : f \in copies(m)
                                 IN  [in |-> f.in, dir |-> f.at]]
             found(s) == [box |-> box(s), mail |-> held(s)]
  <1>1. Rebuilt(t) = {found(s) : s \in last}
    BY DEF Rebuilt
  <1>2. ASSUME NEW b \in Box
        PROVE  /\ b \in KnownIn(index.box) => cards(b) = {CardOf(index, b)}
               /\ b \notin KnownIn(index.box) => cards(b) = {}
    <2>1. \A c \in KnownIn(index.box) : CardOf(index, c).box = c
      BY DEF CardOf
    <2> QED
      BY <2>1 DEF CardsOf
  <1> HIDE DEF cards, copies
  <1>3. PICK s \in last : i = found(s)
    <2> HIDE DEF last, found
    <2> QED
      BY <1>1
  <1>4. \A b \in Box : Cardinality(s \cap cards(b)) = Min({1, Cardinality(cards(b))})
    OBVIOUS
  <1> HIDE DEF once, last
  <1>5. ASSUME NEW b \in Box PROVE box(s)[b] = index.box[b]
    <2>1. CASE b \notin KnownIn(index.box)
      BY <1>2, <2>1 DEF KnownIn
    <2>2. CASE b \in KnownIn(index.box)
      <3>1. cards(b) = {CardOf(index, b)} /\ cards(b) \subseteq s
        BY <1>2, <1>4, <2>2, AllOfOne
      <3>2. (CHOOSE c \in s : c \in cards(b)) = CardOf(index, b)
        BY <3>1, AllOfOne
      <3>3. box(s)[b] = [info |-> CardOf(index, b).info, dir |-> CardOf(index, b).at]
        BY <3>1, <3>2
      <3>4. index.box[b] = [info |-> index.box[b].info, dir |-> index.box[b].dir]
        BY <2>2, IndexEntries DEF BoxEntry
      <3> QED
        BY <3>3, <3>4 DEF CardOf
    <2> QED
      BY <2>1, <2>2
  <1>6. index.box = [b \in Box |-> index.box[b]]
    BY DEF Index
  <1>7. box(s) = [b \in Box |-> box(s)[b]]
    OBVIOUS
  <1>8. i.box = box(s)
    BY <1>3
  <1> HIDE DEF box
  <1> QED
    BY <1>5, <1>6, <1>7, <1>8

\* A scan of nothing.
LEMMA RebuiltEmpty ==
    ASSUME NEW t, t.card = {}, t.side = {}
    PROVE  Rebuilt(t) = {EmptyIndex}
  <1> DEFINE cards(b) == {c \in t.card : c.box = b}
             copies(m) == {f \in t.side : f.msg = m}
             once(s) == /\ \A b \in Box : Cardinality(s \cap cards(b)) = Min({1, Cardinality(cards(b))})
                        /\ \A m \in Msg : Cardinality(s \cap copies(m)) = Min({1, Cardinality(copies(m))})
             last == {s \in SUBSET (t.card \cup t.side) : once(s)}
             found(s) == [box |-> [b \in Box |-> IF cards(b) = {} THEN None
                                     ELSE LET c == CHOOSE c \in s : c \in cards(b)
                                          IN  [info |-> c.info, dir |-> c.at]],
                          mail |-> [m \in Msg |-> IF copies(m) = {} THEN None
                                     ELSE LET f == CHOOSE f \in s : f \in copies(m)
                                          IN  [in |-> f.in, dir |-> f.at]]]
  <1>1. \A b : cards(b) = {}
    OBVIOUS
  <1>2. \A m : copies(m) = {}
    OBVIOUS
  <1>3. Min({1, 0}) = 0 /\ Cardinality({}) = 0
    BY AtMostOne, FS_EmptySet
  <1>4. once({})
    <2> HIDE DEF cards, copies
    <2>1. \A b : {} \cap cards(b) = {} /\ cards(b) = {}
      BY <1>1
    <2>2. \A m : {} \cap copies(m) = {} /\ copies(m) = {}
      BY <1>2
    <2> QED
      BY <1>3, <2>1, <2>2
  <1>5. last = {{}}
    <2> HIDE DEF once
    <2> QED
      BY <1>4
  <1>6. found({}) = EmptyIndex
    <2> HIDE DEF cards, copies
    <2> QED
      BY <1>1, <1>2 DEF EmptyIndex
  <1>7. Rebuilt(t) = {found(s) : s \in last}
    BY DEF Rebuilt
  <1> HIDE DEF last, found
  <1> QED
    BY <1>5, <1>6, <1>7

\* An empty index.
LEMMA EmptyIndexPlaced ==
    /\ EmptyIndex \in Index /\ KnownIn(EmptyIndex.box) = {}
    /\ \A f : WellPlaced(EmptyIndex, f)
    BY DEF EmptyIndex, Index, KnownIn, WellPlaced, NestedAs, SiblingsApart, OwnSuffix

\* Places of mailboxes are no matter of mail.
LEMMA SameBoxes ==
    ASSUME NEW index, NEW other, other.box = index.box
    PROVE  /\ InfoOf(other) = InfoOf(index) /\ CardsOf(other) = CardsOf(index)
           /\ \A f : WellPlaced(other, f) <=> WellPlaced(index, f)
           /\ \A tree : AsIn(other, tree) <=> AsIn(index, tree)
    BY DEF InfoOf, CardsOf, CardOf, WellPlaced, NestedAs, SiblingsApart, OwnSuffix, AsIn

\* The index a pass begins with is a well placed one; without a saved one, a plain
\* store has its cards.
LEMMA OpenIndexPlaced ==
    ASSUME IndexInv, calm, pc = "idle"
    PROVE  /\ saved = None /\ git => OpenIndex = {EmptyIndex}
           /\ saved = None /\ ~git => \A index \in OpenIndex : Scanned(index)
           /\ saved # None => OpenIndex = {saved.index}
           /\ IndexAtHand = OpenIndex
           /\ \A index \in OpenIndex : WellPlaced(index, InfoOf(index))
  <1>1. saved = None /\ git => OpenIndex = {EmptyIndex}
    <2>1. EmptyTree.card = {} /\ EmptyTree.side = {}
      BY DEF EmptyTree
    <2> QED
      BY <2>1, RebuiltEmpty DEF OpenIndex, IndexInv, OpeningInv
  <1>2. ASSUME saved = None, ~git, NEW index \in OpenIndex PROVE Scanned(index)
    <2>1. index \in Rebuilt(disk)
      BY <1>2 DEF OpenIndex
    <2>2. PICK found \in Index : Scanned(found)
      BY <1>2 DEF IndexInv, FreshInv, FreshFacts
    <2>3. index.box = found.box
      BY <2>1, <2>2, RebuiltBoxes DEF Scanned
    <2> QED
      BY <2>2, <2>3, SameBoxes DEF Scanned
  <1>3. saved # None => OpenIndex = {saved.index}
    BY DEF OpenIndex, IndexInv, OpeningInv
  <1>4. IndexAtHand = OpenIndex
    BY <1>3 DEF IndexAtHand
  <1>5. ASSUME NEW index \in OpenIndex PROVE WellPlaced(index, InfoOf(index))
    <2>1. CASE saved = None /\ git
      BY <1>1, <1>5, <2>1, EmptyIndexPlaced
    <2>2. CASE saved = None /\ ~git
      BY <1>2, <1>5, <2>2 DEF Scanned
    <2>3. CASE saved # None
      BY <1>3, <1>5, <2>3 DEF IndexInv, PlacedInv
    <2> QED
      BY <2>1, <2>2, <2>3
  <1> QED
    BY <1>1, <1>2, <1>3, <1>4, <1>5

\* Mailboxes that have had their turn are placed.
LEMMA TurnIsReady ==
    ASSUME TypeInv, ForestInv, NEW b \in Box, Turn(b), pc \in {"upsert", "card"}
    PROVE  AtTurn(b) /\ \A c \in Box : Turn(c) => c = b
  <1>1. ix \in Index /\ listed \in TreeOfBoxes /\ todo \subseteq KnownIn(listed) /\ IsForest(listed)
    BY DEF TypeInv, ProcessTyped, PassTyped, QueuesKnown, ForestInv, TreeOfBoxes
  <1>2. AtTurn(b)
    BY <1>1 DEF AtTurn, ForestInv
  <1> QED
    BY <1>1, <1>2, TurnOrder

\* Between two steps that change no mailbox, nothing is put elsewhere.
LEMMA PlacedInfoAtRest ==
    ASSUME pc # "card"
    PROVE  PlacedInfo = InfoOf(ix)
  <1>1. InfoOf(ix) = [b \in Box |-> InfoOf(ix)[b]]
    BY DEF InfoOf
  <1> QED
    BY <1>1 DEF PlacedInfo

\* A store with no card has those of the empty index.
LEMMA NothingScanned ==
    ASSUME disk.card = {}
    PROVE  Scanned(EmptyIndex)
    BY EmptyIndexPlaced DEF Scanned, CardsOf, AsIn

\* The first state.
LEMMA InitPlaced ==
    ASSUME Init, TypeInv
    PROVE  IndexInv
  <1>1. PICK s \in Starts : boxes = s.boxes
    BY DEF Init
  <1>2. IsForest(boxes)
    BY <1>1, StartsAssumption
  <1>3. KnownIn(listed) = {}
    BY DEF Init, KnownIn
  <1>4. IsForest(listed)
    BY <1>3 DEF IsForest
  <1>5. ForestInv
    BY <1>2, <1>3, <1>4 DEF ForestInv
  <1>6. PlacedInv
    BY EmptyIndexPlaced DEF PlacedInv, Init
  <1>7. OpeningInv
    BY <1>3 DEF OpeningInv, Init
  <1>8. FreshInv
    <2>1. disk.card = {} /\ ix = EmptyIndex /\ pc = "idle"
      BY DEF Init, EmptyDisk
    <2> QED
      BY <2>1, NothingScanned, EmptyIndexPlaced DEF FreshInv, FreshFacts
  <1> QED
    BY <1>5, <1>6, <1>7, <1>8 DEF IndexInv

\* A pass that ends leaves what it saved.
LEMMA ForgetPlaced ==
    ASSUME IndexInv, TypeInv', Forget, UNCHANGED <<boxes, git>>, calm' => calm,
           PlacedInv => (calm /\ saved' # None => WellPlaced(saved'.index, InfoOf(saved'.index))),
           calm /\ git => IF saved' = None THEN head' = EmptyTree ELSE saved'.head = head'
    PROVE  PlacesInv'
  <1>1. UNCHANGED <<boxes, git>> /\ (calm' => calm)
    OBVIOUS
  <1>2. KnownIn(listed') = {}
    BY DEF Forget, KnownIn
  <1>3. IsForest(listed')
    BY <1>2 DEF IsForest
  <1>4. IsForest(boxes')
    BY <1>1 DEF IndexInv, ForestInv
  <1>5. ForestInv'
    BY <1>3, <1>4 DEF ForestInv, Forget
  <1>6. PlacedInv'
    BY <1>1, EmptyIndexPlaced DEF PlacedInv, Forget, IndexInv
  <1>7. OpeningInv'
    BY <1>1, <1>2 DEF OpeningInv, Forget
  <1> QED
    BY <1>5, <1>6, <1>7 DEF PlacesInv

\* The account moves no directory.
LEMMA AccountStepPlaced ==
    ASSUME IndexInv, TypeInv', Account
    PROVE  PlacesInv'
  <1>1. UNCHANGED <<git, durable, process, pc, todo, pass, faults>> /\ (calm' => calm)
    BY DEF Account, CreateBox, RelocateBox, DestroyBox, FileMessage, ServerBoxes, ServerStep
  <1>2. UNCHANGED <<disk, head, saved, ix, stage, listed, todo, plan>>
    BY <1>1 DEF durable, process, pass
  <1>3. IsForest(boxes')
    BY AccountStaysForest DEF IndexInv, TypeInv, AccountTyped, TreeOfBoxes, ForestInv
  <1>4. ForestInv'
    BY <1>1, <1>2, <1>3 DEF IndexInv, ForestInv, IsForest, KnownIn
  <1>5. PlacedInfo' = PlacedInfo
    <2>1. \A b \in Box : Turn(b)' <=> Turn(b)
      BY <1>2 DEF Turn, Before, Waits, Line, KnownIn
    <2> QED
      BY <1>1, <1>2, <2>1 DEF PlacedInfo, InfoOf
  <1>6. PlacedInv'
    BY <1>1, <1>2, <1>5 DEF IndexInv, PlacedInv
  <1>7. OpeningInv'
    BY <1>1, <1>2 DEF IndexInv, OpeningInv, NoDays, KnownIn
  <1> QED
    BY <1>4, <1>6, <1>7 DEF PlacesInv

\* The start of a pass, and its plans.
LEMMA PlanningPlaced ==
    ASSUME IndexInv, TypeInv',
           \/ \E kind \in {"sync", "refresh"} : Begin(kind)
           \/ ListMailboxes \/ PlanSync \/ PlanAll \/ UpsertsDone
    PROVE  PlacesInv'
  <1>1. TypeInv /\ ForestInv /\ PlacedInv /\ OpeningInv
    BY DEF IndexInv, PlacesInv
  <1>2. UNCHANGED <<server, git, durable>> /\ (calm' => calm)
    <2>1. CASE \E kind \in {"sync", "refresh"} : Begin(kind)
      BY <2>1 DEF Begin
    <2>2. CASE ListMailboxes \/ PlanSync \/ UpsertsDone
      BY <2>2 DEF ListMailboxes, PlanSync, UpsertsDone, account, server
    <2>3. CASE PlanAll
      BY <2>3 DEF PlanAll
    <2> QED
      BY <2>1, <2>2, <2>3
  <1>3. UNCHANGED <<boxes, git, disk, head, saved, mail>> /\ (calm' => calm)
    BY <1>2 DEF server, durable
  <1>4. ASSUME NEW kind \in {"sync", "refresh"}, Begin(kind) PROVE PlacesInv'
    <2>1. /\ pc = "idle" /\ pc' \in {"plan", "list"} /\ UNCHANGED <<todo, listed>>
          /\ ix' \in IndexAtHand
          /\ stage' = IF Cursor = 0 THEN "backfill" ELSE kind
          /\ pc' = "plan" => stage' # "backfill"
      BY <1>4 DEF Begin
    <2>2. todo = {} /\ ix' \in Index
      BY <1>1, <2>1 DEF TypeInv, PassTyped, TypeInv, ProcessTyped
    <2>3. saved = None => Cursor = 0
      BY DEF Cursor
    <2>4. KnownIn(listed) = {}
      BY <1>1, <2>1 DEF OpeningInv
    <2>5. ForestInv'
      BY <1>1, <1>3, <2>1, <2>4 DEF ForestInv, IsForest, KnownIn
    <2>6. ASSUME calm PROVE WellPlaced(ix', InfoOf(ix'))
      BY <2>1, <2>6, OpenIndexPlaced
    <2>7. PlacedInfo' = InfoOf(ix')
      <3>1. InfoOf(ix') = [b \in Box |-> InfoOf(ix')[b]]
        BY DEF InfoOf
      <3> QED
        BY <2>1, <3>1 DEF PlacedInfo
    <2>8. PlacedInv'
      BY <1>1, <1>3, <2>6, <2>7 DEF PlacedInv
    <2>9. OpeningInv'
      BY <1>1, <1>3, <2>1, <2>2, <2>3, <2>6 DEF OpeningInv
    <2> QED
      BY <2>5, <2>8, <2>9 DEF IndexInv, PlacesInv
  <1>5. ASSUME pc \notin {"idle", "card"}, pc' \notin {"idle", "card"}, UNCHANGED <<ix, stage>>,
               ForestInv', OpeningInv'
        PROVE  PlacesInv'
    <2>1. PlacedInfo = InfoOf(ix)
      BY <1>5, PlacedInfoAtRest
    <2>2. PlacedInfo' = InfoOf(ix)
      BY <1>5, <2>1 DEF PlacedInfo, InfoOf
    <2>3. PlacedInv'
      BY <1>1, <1>3, <1>5, <2>1, <2>2 DEF PlacedInv
    <2> QED
      BY <1>5, <2>3 DEF IndexInv, PlacesInv
  <1>6. CASE ListMailboxes
    <2>1. /\ pc = "list" /\ listed' = boxes /\ UNCHANGED <<ix, stage, plan>> /\ pc' \in {"plan", "upsert"}
          /\ todo' = {b \in KnownIn(boxes) : InfoOf(ix)[b] # boxes[b]}
      BY <1>6 DEF ListMailboxes, process
    <2>2. ASSUME NEW a \in KnownIn(boxes) \ todo'
          PROVE  a \in KnownIn(ix.box) /\ ix.box[a].info = boxes[a]
      <3>1. InfoOf(ix)[a] = boxes[a] /\ a \in Box /\ boxes[a] # None
        BY <2>1 DEF KnownIn
      <3> QED
        BY <3>1 DEF InfoOf, KnownIn
    <2>3. ForestInv'
      BY <1>1, <1>3, <2>1, <2>2 DEF ForestInv, IsForest, KnownIn
    <2>4. OpeningInv'
      <3>1. calm /\ saved = None => \A b \in KnownIn(ix.box) : b \notin todo'
        <4>1. calm /\ saved = None => \A b \in KnownIn(ix.box) : ix.box[b].info = boxes[b]
          BY <2>1 DEF IndexInv, FreshInv, FreshFacts, AsIn
        <4> QED
          BY <2>1, <4>1 DEF InfoOf, KnownIn
      <3> QED
        BY <1>1, <1>3, <2>1, <3>1 DEF OpeningInv
    <2> QED
      BY <1>5, <2>1, <2>3, <2>4
  <1>7. CASE PlanSync
    <2>1. CASE Forget
      <3>1. pc = "plan" /\ stage = "sync"
        BY <1>7 DEF PlanSync
      <3>2. calm => saved # None
        BY <1>1, <3>1 DEF OpeningInv
      <3>3. calm /\ git => IF saved' = None THEN head' = EmptyTree ELSE saved'.head = head'
        BY <1>1, <1>3, <3>1 DEF OpeningInv
      <3>4. PlacedInv => (calm /\ saved' # None => WellPlaced(saved'.index, InfoOf(saved'.index)))
        BY <1>3 DEF PlacedInv
      <3> QED
        BY <1>3, <2>1, <3>2, <3>3, <3>4, ForgetPlaced
    <2>2. CASE pc' = "upsert" /\ UNCHANGED <<ix, todo, stage, delta, listed, gone, target, done>>
      <3>1. pc = "plan"
        BY <1>7 DEF PlanSync
      <3>2. ForestInv'
        BY <1>1, <1>3, <2>2, <3>1 DEF ForestInv, IsForest, KnownIn
      <3>3. OpeningInv'
        BY <1>1, <1>3, <2>2, <3>1 DEF OpeningInv
      <3> QED
        BY <1>5, <2>2, <3>1, <3>2, <3>3
    <2> QED
      BY <1>7, <2>1, <2>2 DEF PlanSync
  <1>8. CASE PlanAll
    <2>1. /\ pc = "plan" /\ pc' = "mail" /\ UNCHANGED <<ix, todo, stage, listed>>
          /\ calm' /\ git /\ stage = "backfill" => {m \in Msg : mail[m] # {}} # {}
          /\ plan'.in = mail
      BY <1>8 DEF PlanAll, process
    <2>2. ForestInv'
      BY <1>1, <1>3, <2>1 DEF ForestInv, IsForest, KnownIn
    <2>3. calm' /\ git => ~NoDays'
      BY <2>1 DEF NoDays
    <2>4. OpeningInv'
      BY <1>1, <1>3, <2>1, <2>3 DEF OpeningInv
    <2> QED
      BY <1>5, <2>1, <2>2, <2>4
  <1>9. CASE UpsertsDone
    <2>1. /\ pc = "upsert" /\ todo = {} /\ pc' = (IF stage = "sync" THEN "mail" ELSE "plan")
          /\ UNCHANGED <<ix, todo, stage, listed, plan>>
      BY <1>9 DEF UpsertsDone, process, pass
    <2>2. ForestInv'
      BY <1>1, <1>3, <2>1 DEF ForestInv, IsForest, KnownIn
    <2>3. pc' = "mail" => ~NoDays'
      BY <2>1 DEF NoDays
    <2>4. OpeningInv'
      BY <1>1, <1>3, <2>1, <2>3 DEF OpeningInv
    <2> QED
      BY <1>5, <2>1, <2>2, <2>4
  <1> QED
    BY <1>4, <1>6, <1>7, <1>8, <1>9

\* Renames, new directories and cards.
LEMMA UpsertPlaced ==
    ASSUME IndexInv, TypeInv', NEW b \in Box,
           RenameDir(b) \/ RenameFails(b) \/ MakeDir(b) \/ WriteCard(b)
    PROVE  PlacesInv'
  <1>1. TypeInv /\ ForestInv /\ PlacedInv /\ OpeningInv
    BY DEF IndexInv, PlacesInv
  <1>2. /\ pc \in {"upsert", "card"} /\ Turn(b) /\ UNCHANGED account /\ UNCHANGED <<head, saved>>
    BY DEF RenameDir, RenameFails, MakeDir, WriteCard
  <1>3. UNCHANGED <<boxes, git, calm>>
    BY <1>2 DEF account
  <1>4. AtTurn(b) /\ \A c \in Box : Turn(c) => c = b
    BY <1>1, <1>2, TurnIsReady
  <1>5. b \in KnownIn(listed) /\ b \in todo
    BY <1>4, ParentPlaced DEF Turn, AtTurn
  <1>6. calm /\ saved = None => b \notin KnownIn(ix.box)
    BY <1>1, <1>2, <1>5 DEF OpeningInv
  <1>7. ASSUME UNCHANGED <<listed, todo>> PROVE \A c \in Box : Turn(c)' <=> c = b
    <2>1. \A c \in Box : Turn(c)' <=> Turn(c)
      BY <1>7 DEF Turn, Before, Waits, Line, KnownIn
    <2> QED
      BY <1>2, <1>4, <2>1
  <1>8. CASE RenameDir(b)
    <2> DEFINE from == ix.box[b].dir
               to == MovedDir(b)
    <2>1. /\ pc = "upsert" /\ pc' = "card" /\ UNCHANGED <<listed, todo, stage>>
          /\ ix' = IndexRebased(from, to) /\ b \in KnownIn(ix.box) /\ to # from
      BY <1>8 DEF RenameDir, Moves, pass, KnownIn
    <2>2. ix \in Index /\ from \in Path /\ to \in Path
      <3>1. ix \in Index /\ listed \in [Box -> Info \cup {None}]
        BY <1>1 DEF TypeInv, ProcessTyped, PassTyped
      <3> QED
        BY <1>5, <2>1, <3>1, IndexEntries, AssignedDirs
    <2>3. /\ KnownIn(ix'.box) = KnownIn(ix.box)
          /\ \A c \in KnownIn(ix.box) : ix'.box[c].info = ix.box[c].info
      <3>1. /\ KnownIn(ix'.box) = KnownIn(ix.box)
            /\ \A c \in Box : ix'.box[c] = IF ix.box[c] = None THEN None
                       ELSE [info |-> ix.box[c].info, dir |-> Rebased(ix.box[c].dir, from, to)]
        BY <2>1, <2>2, IndexRebasedTyped
      <3>2. ASSUME NEW c \in KnownIn(ix.box) PROVE ix'.box[c].info = ix.box[c].info
        <4>1. ix'.box[c] = [info |-> ix.box[c].info, dir |-> Rebased(ix.box[c].dir, from, to)]
          BY <3>1 DEF KnownIn
        <4> QED
          BY <4>1
      <3> QED
        BY <3>1, <3>2
    <2>4. ForestInv'
      BY <1>1, <1>3, <2>1, <2>3 DEF ForestInv
    <2>5. PlacedInfo'[b] = listed[b]
      BY <1>7, <2>1 DEF PlacedInfo
    <2>6. \A c \in KnownIn(ix.box) \ {b} : PlacedInfo'[c] = ix.box[c].info
      <3>1. ASSUME NEW c \in KnownIn(ix.box) \ {b} PROVE PlacedInfo'[c] = ix.box[c].info
        <4>1. c \in Box /\ c \in KnownIn(ix'.box) /\ ~Turn(c)'
          BY <1>7, <2>1, <2>3 DEF KnownIn
        <4>2. PlacedInfo'[c] = InfoOf(ix')[c]
          BY <4>1 DEF PlacedInfo
        <4>3. InfoOf(ix')[c] = ix'.box[c].info
          BY <4>1 DEF InfoOf, KnownIn
        <4> QED
          BY <2>3, <4>2, <4>3
      <3> QED
        BY <3>1
    <2>7. PlacedInv'
      <3>1. ASSUME calm PROVE WellPlaced(ix', PlacedInfo')
        <4>1. WellPlaced(ix, InfoOf(ix))
          BY <1>1, <2>1, <3>1, PlacedInfoAtRest DEF PlacedInv
        <4> HIDE DEF PlacedInfo
        <4> QED
          BY <1>4, <2>1, <2>5, <2>6, <4>1, RenamePlaced
      <3> QED
        BY <1>1, <1>2, <1>3, <3>1 DEF PlacedInv
    <2>8. OpeningInv'
      BY <1>1, <1>2, <1>3, <2>1, <2>3 DEF OpeningInv
    <2> QED
      BY <2>4, <2>7, <2>8 DEF IndexInv, PlacesInv
  <1>9. CASE RenameFails(b)
    <2>1. pc = "upsert" /\ FailPass /\ UNCHANGED account /\ b \in KnownIn(ix.box)
      BY <1>9 DEF RenameFails, Moves, KnownIn
    <2>2. calm => saved # None
      BY <1>6, <2>1
    <2>3. calm /\ git => saved'.head = head' /\ saved' # None
      BY <1>1, <1>2, <2>1, <2>2 DEF OpeningInv
    <2>4. PlacedInv => (calm /\ saved' # None => WellPlaced(saved'.index, InfoOf(saved'.index)))
      BY <1>2 DEF PlacedInv
    <2> QED
      BY <1>3, <2>1, <2>2, <2>3, <2>4, ForgetPlaced DEF FailPass
  <1>10. CASE MakeDir(b)
    <2>1. /\ pc = "upsert" /\ pc' = "card" /\ UNCHANGED <<ix, listed, todo, stage>> /\ b \notin KnownIn(ix.box)
      BY <1>10 DEF MakeDir, process, pass, KnownIn
    <2>2. ForestInv'
      BY <1>1, <1>3, <2>1 DEF ForestInv
    <2>3. \A c \in KnownIn(ix.box) : PlacedInfo'[c] = InfoOf(ix)[c]
      <3>1. \A c \in KnownIn(ix.box) : c \in Box /\ ~Turn(c)'
        BY <1>7, <2>1 DEF KnownIn
      <3> QED
        BY <2>1, <3>1 DEF PlacedInfo, InfoOf
    <2>4. ASSUME calm PROVE WellPlaced(ix', PlacedInfo')
      <3>1. WellPlaced(ix, InfoOf(ix))
        BY <1>1, <2>1, <2>4, PlacedInfoAtRest DEF PlacedInv
      <3> HIDE DEF PlacedInfo
      <3> QED
        BY <2>1, <2>3, <3>1 DEF WellPlaced, NestedAs
    <2>5. PlacedInv'
      BY <1>1, <1>2, <1>3, <2>4 DEF PlacedInv
    <2>6. OpeningInv'
      BY <1>1, <1>2, <1>3, <2>1 DEF OpeningInv
    <2> QED
      BY <2>2, <2>5, <2>6 DEF IndexInv, PlacesInv
  <1>11. CASE WriteCard(b)
    <2> DEFINE dir == IF ix.box[b] = None THEN NewDir(b) ELSE ix.box[b].dir
    <2>1. /\ pc' = "upsert" /\ UNCHANGED <<listed, stage>> /\ todo' = todo \ {b}
          /\ ix' = [ix EXCEPT !.box[b] = [info |-> listed[b], dir |-> dir]]
          /\ pc = "upsert" => b \in KnownIn(ix.box) /\ MovedDir(b) = ix.box[b].dir
      BY <1>11 DEF WriteCard, Moves, pass, KnownIn
    <2>2. b \in KnownIn(ix.box) <=> ix.box[b] # None
      BY DEF KnownIn
    <2>3. \A c \in KnownIn(ix.box) \ {b} : PlacedInfo[c] = ix.box[c].info
      <3>1. \A c \in KnownIn(ix.box) \ {b} : c \in Box /\ ~Turn(c) /\ ix.box[c] # None
        BY <1>4 DEF KnownIn
      <3> QED
        BY <3>1 DEF PlacedInfo, InfoOf
    <2>4. ASSUME calm, b \in KnownIn(ix.box) PROVE Front(ix.box[b].dir) = ParentDir(listed[b])
      <3>1. CASE pc = "upsert"
        <4>1. ix \in Index /\ listed \in [Box -> Info \cup {None}]
          BY <1>1 DEF TypeInv, ProcessTyped, PassTyped
        <4>2. Front(MovedDir(b)) = ParentDir(listed[b])
          BY <1>5, <4>1, AssignedDirs
        <4> QED
          BY <2>1, <3>1, <4>2
      <3>2. CASE pc = "card"
        <4>1. PlacedInfo[b] = listed[b]
          BY <1>2, <3>2 DEF PlacedInfo
        <4>2. NestedAs(ix, PlacedInfo)
          BY <1>1, <2>4 DEF PlacedInv, WellPlaced
        <4> HIDE DEF PlacedInfo
        <4> QED
          BY <1>4, <2>4, <4>1, <4>2, ParentPlaced DEF NestedAs
      <3> QED
        BY <1>2, <3>1, <3>2
    <2>5. /\ b \in KnownIn(ix'.box) /\ ix'.box[b].info = listed[b]
          /\ \A c \in Box \ {b} : ix'.box[c] = ix.box[c]
      <3>1. [info |-> listed[b], dir |-> dir] # None
        <4>1. ix' \in Index /\ ix \in Index /\ listed[b] \in Info
          BY <1>1, <1>4, ParentPlaced DEF TypeInv, ProcessTyped
        <4>2. dir \in Path
          <5>1. ix \in Index /\ listed \in [Box -> Info \cup {None}]
            BY <1>1 DEF TypeInv, ProcessTyped, PassTyped
          <5> QED
            BY <1>5, <2>2, <5>1, AssignedDirs, IndexEntries
        <4>3. [info |-> listed[b], dir |-> dir] \in BoxEntry
          <5> HIDE DEF dir
          <5> QED
            BY <4>1, <4>2 DEF BoxEntry
        <4> QED
          BY <4>3, NoneAssumption
      <3>2. ix \in Index
        BY <1>1 DEF TypeInv, ProcessTyped
      <3> HIDE DEF dir
      <3> QED
        BY <2>1, <3>1, <3>2 DEF Index, KnownIn
    <2>6. ForestInv'
      <3>1. ASSUME NEW a \in KnownIn(listed) \ todo'
            PROVE  a \in KnownIn(ix'.box) /\ ix'.box[a].info = listed[a]
        <4>1. CASE a = b
          BY <2>5, <4>1
        <4>2. CASE a # b
          <5>1. a \in KnownIn(listed) \ todo /\ a \in Box
            BY <2>1, <4>2 DEF KnownIn
          <5>2. a \in KnownIn(ix.box) /\ ix.box[a].info = listed[a]
            BY <1>4, <5>1 DEF AtTurn
          <5> QED
            BY <2>5, <4>2, <5>1, <5>2 DEF KnownIn
        <4> QED
          BY <4>1, <4>2
      <3> QED
        BY <1>1, <1>3, <2>1, <3>1 DEF ForestInv
    <2>7. PlacedInv'
      <3>1. ASSUME calm PROVE WellPlaced(ix', InfoOf(ix'))
        <4>1. WellPlaced(ix, PlacedInfo)
          BY <1>1, <3>1 DEF PlacedInv
        <4>2. IF b \in KnownIn(ix.box) THEN dir = ix.box[b].dir /\ Front(dir) = ParentDir(listed[b])
                                       ELSE dir = NewDir(b)
          BY <2>2, <2>4, <3>1
        <4> HIDE DEF dir, PlacedInfo
        <4> QED
          BY <1>4, <2>1, <2>3, <4>1, <4>2, CardPlaced
      <3>2. PlacedInfo' = InfoOf(ix')
        <4>1. InfoOf(ix') = [c \in Box |-> InfoOf(ix')[c]]
          BY DEF InfoOf
        <4> QED
          BY <2>1, <4>1 DEF PlacedInfo
      <3> QED
        BY <1>1, <1>2, <1>3, <3>1, <3>2 DEF PlacedInv
    <2>8. OpeningInv'
      <3>1. ASSUME calm, saved = None PROVE todo' \cap KnownIn(ix'.box) = {}
        <4>1. todo \cap KnownIn(ix.box) = {}
          BY <1>1, <1>2, <3>1 DEF OpeningInv
        <4>2. \A c \in todo' : c \in todo /\ c # b /\ c \in Box
          BY <1>1, <2>1 DEF TypeInv, PassTyped
        <4>3. \A c \in todo' : c \in KnownIn(ix'.box) => c \in KnownIn(ix.box)
          BY <2>5, <4>2 DEF KnownIn
        <4> QED
          BY <4>1, <4>2, <4>3
      <3> QED
        BY <1>1, <1>2, <1>3, <2>1, <3>1 DEF OpeningInv
    <2> QED
      BY <2>6, <2>7, <2>8 DEF IndexInv, PlacesInv
  <1> QED
    BY <1>8, <1>9, <1>10, <1>11

\* Mail moves no mailbox.
LEMMA MailPlaced ==
    ASSUME IndexInv, TypeInv', NEW m \in Msg, AddMail(m) \/ UpdateMail(m) \/ DeleteMail(m)
    PROVE  PlacesInv'
  <1>1. TypeInv /\ ForestInv /\ PlacedInv /\ OpeningInv
    BY DEF IndexInv, PlacesInv
  <1>2. /\ pc = "mail" /\ UNCHANGED <<account, head, saved, pc, stage, listed, todo>>
    BY DEF AddMail, UpdateMail, DeleteMail
  <1>3. UNCHANGED <<boxes, git, calm, mail>>
    BY <1>2 DEF account
  <1>4. plan'.in = plan.in /\ ix'.box = ix.box
    <2>1. /\ plan \in [add : SUBSET Msg, update : SUBSET Msg, delete : SUBSET Msg,
                       in : [Msg -> SUBSET Box], uncommitted : BOOLEAN]
          /\ ix \in Index
      BY <1>1 DEF TypeInv, PassTyped, ProcessTyped
    <2>2. \/ plan' = [plan EXCEPT !.add = plan.add \ {m}, !.uncommitted = TRUE]
          \/ plan' = [plan EXCEPT !.update = plan.update \ {m}]
          \/ plan' = [plan EXCEPT !.delete = plan.delete \ {m}]
      BY DEF AddMail, UpdateMail, DeleteMail
    <2>3. \/ ix' = ix \/ \E e : ix' = [ix EXCEPT !.mail[m] = e]
      BY DEF AddMail, UpdateMail, DeleteMail
    <2> QED
      BY <2>1, <2>2, <2>3 DEF Index
  <1>5. ForestInv'
    BY <1>1, <1>2, <1>3 DEF ForestInv, IsForest, KnownIn
  <1>6. PlacedInfo = InfoOf(ix) /\ PlacedInfo' = InfoOf(ix)
    BY <1>2, <1>4 DEF PlacedInfo, InfoOf
  <1>7. WellPlaced(ix, InfoOf(ix)) => WellPlaced(ix', InfoOf(ix))
    BY <1>4 DEF WellPlaced, NestedAs, SiblingsApart, OwnSuffix
  <1>8. PlacedInv'
    BY <1>1, <1>2, <1>3, <1>6, <1>7 DEF PlacedInv
  <1>9. OpeningInv'
    BY <1>1, <1>2, <1>3, <1>4 DEF OpeningInv, NoDays
  <1> QED
    BY <1>5, <1>8, <1>9 DEF IndexInv, PlacesInv

\* Checkpoints, removals and the end of a pass.
LEMMA ConcludingPlaced ==
    ASSUME IndexInv, TypeInv', PlainOrUnbroken',
           \/ CommitDay \/ MailDone \/ (\E b \in Box : Prune(b)) \/ PruneDone
           \/ Commit \/ CommitFails \/ Save \/ Interrupt
    PROVE  PlacesInv'
  <1>1. TypeInv /\ ForestInv /\ PlacedInv /\ OpeningInv
    BY DEF IndexInv, PlacesInv
  <1>3. UNCHANGED <<boxes, git>> /\ (calm' => calm)
    <2>1. CASE Interrupt
      BY <2>1 DEF Interrupt, server
    <2>2. CASE CommitDay \/ MailDone \/ PruneDone \/ Commit \/ CommitFails \/ Save
      BY <2>2 DEF CommitDay, MailDone, PruneDone, Commit, CommitFails, Save, account
    <2>3. ASSUME NEW b \in Box, Prune(b) PROVE UNCHANGED <<boxes, git>> /\ (calm' => calm)
      BY <2>3 DEF Prune, account
    <2> QED
      BY <2>1, <2>2, <2>3
  <1>4. ASSUME pc \in {"mail", "prune", "commit", "save"}, calm PROVE WellPlaced(ix, InfoOf(ix))
    BY <1>1, <1>4, PlacedInfoAtRest DEF PlacedInv
  <1>5. ASSUME pc \in {"mail", "prune", "commit", "save"}, pc' \in {"mail", "prune", "commit", "save"},
               UNCHANGED <<ix, stage, listed>>, plan'.in = plan.in,
               calm /\ saved' # None => WellPlaced(saved'.index, InfoOf(saved'.index)),
               saved' # None \/ saved' = saved,
               calm /\ git /\ pc' # "save" => IF saved' = None THEN head' = EmptyTree ELSE saved'.head = head'
        PROVE  PlacesInv'
    <2>1. ForestInv'
      BY <1>1, <1>3, <1>5 DEF ForestInv, IsForest, KnownIn
    <2>2. PlacedInfo' = InfoOf(ix)
      BY <1>5 DEF PlacedInfo, InfoOf
    <2>3. PlacedInv'
      BY <1>3, <1>4, <1>5, <2>2 DEF PlacedInv
    <2>4. OpeningInv'
      BY <1>1, <1>3, <1>5 DEF OpeningInv, NoDays
    <2> QED
      BY <2>1, <2>3, <2>4 DEF IndexInv, PlacesInv
  <1>6. CASE CommitDay
    <2>1. /\ pc = "mail" /\ plan' = [plan EXCEPT !.uncommitted = FALSE] /\ UNCHANGED <<ix, pc, stage, listed>>
          /\ saved' = [index |-> ix, cursor |-> Cursor, start |-> target, head |-> head']
      BY <1>6 DEF CommitDay
    <2>2. plan'.in = plan.in
      BY <1>1, <2>1 DEF TypeInv, PassTyped
    <2>3. saved'.index = ix /\ saved'.head = head' /\ saved' # None
      <3>1. Cursor \in 0 .. MaxVersion
        BY <1>1, TreeBounds DEF Cursor, TypeInv, StoreTyped, Saved
      <3>2. head' \in Tree /\ ix \in Index /\ target \in 0 .. MaxVersion
        BY <1>1 DEF TypeInv, StoreTyped, ProcessTyped, PassTyped
      <3>3. saved' \in Saved
        BY <2>1, <3>1, <3>2 DEF Saved
      <3> QED
        BY <2>1, <3>3, NoneAssumption
    <2> QED
      BY <1>4, <1>5, <2>1, <2>2, <2>3
  <1>7. CASE MailDone
    <2>1. /\ pc = "mail" /\ pc' = "prune" /\ UNCHANGED <<ix, stage, listed, plan, saved, head>>
      BY <1>7 DEF MailDone, durable, process, pass
    <2> QED
      BY <1>1, <1>5, <2>1 DEF PlacedInv, OpeningInv
  <1>8. ASSUME NEW b \in Box, Prune(b) PROVE PlacesInv'
    <2>1. /\ pc = "prune" /\ b \in todo /\ UNCHANGED <<pc, stage, listed, plan, saved, head>>
          /\ \/ UNCHANGED <<ix>>
             \/ ix' = [ix EXCEPT !.box[b] = None] /\ ~HasContents(ix.box[b].dir)
      BY <1>8 DEF Prune, pass
    <2>2. CASE UNCHANGED ix
      BY <1>1, <1>5, <2>1, <2>2 DEF PlacedInv, OpeningInv
    <2>3. CASE ix' = [ix EXCEPT !.box[b] = None] /\ ~HasContents(ix.box[b].dir)
      <3>1. ix \in Index /\ b \in KnownIn(ix.box)
        BY <1>1, <2>1 DEF TypeInv, ProcessTyped, QueuesKnown
      <3>2. ForestInv'
        BY <1>1, <1>3, <2>1 DEF ForestInv, IsForest, KnownIn
      <3>3. OpeningInv'
        BY <1>1, <1>3, <2>1 DEF OpeningInv, NoDays
      <3>4. ASSUME calm PROVE WellPlaced(ix', InfoOf(ix'))
        <4>1. /\ KnownIn(ix'.box) \subseteq KnownIn(ix.box)
              /\ \A c \in KnownIn(ix'.box) : ix'.box[c] = ix.box[c]
              /\ WellPlaced(ix', InfoOf(ix))
          <5>1. WellPlaced(ix, InfoOf(ix))
            BY <1>4, <2>1, <3>4
          <5> QED
            BY <2>3, <3>1, <5>1, PrunePlaced
        <4>2. \A c \in KnownIn(ix'.box) : InfoOf(ix')[c] = InfoOf(ix)[c]
          BY <4>1 DEF InfoOf, KnownIn
        <4> QED
          BY <4>1, <4>2 DEF WellPlaced, NestedAs
      <3>5. PlacedInfo' = InfoOf(ix')
        <4>1. InfoOf(ix') = [c \in Box |-> InfoOf(ix')[c]]
          BY DEF InfoOf
        <4> QED
          BY <2>1, <4>1 DEF PlacedInfo
      <3>6. PlacedInv'
        BY <1>1, <1>3, <2>1, <3>4, <3>5 DEF PlacedInv
      <3> QED
        BY <3>2, <3>3, <3>6 DEF IndexInv, PlacesInv
    <2> QED
      BY <2>1, <2>2, <2>3
  <1>9. CASE PruneDone
    <2>1. /\ pc = "prune" /\ pc' \in {"commit", "save"} /\ UNCHANGED <<ix, stage, listed, plan, saved, head>>
      BY <1>9 DEF PruneDone, durable, process, pass
    <2> QED
      BY <1>1, <1>5, <2>1 DEF PlacedInv, OpeningInv
  <1>10. CASE Commit
    <2>1. /\ pc = "commit" /\ pc' = "save" /\ UNCHANGED <<ix, stage, listed, plan, saved>>
      BY <1>10 DEF Commit, pass
    <2> QED
      BY <1>1, <1>5, <2>1 DEF PlacedInv
  <1>11. CASE CommitFails
    <2>1. /\ git /\ Forget /\ UNCHANGED <<disk, head, saved>> /\ pc \in {"mail", "commit"}
      BY <1>11 DEF CommitFails, FailPass, durable
    <2> QED
      BY <1>1, <1>3, <2>1, ForgetPlaced DEF PlacedInv, OpeningInv
  <1>12. CASE Save
    <2>1. /\ pc = "save" /\ Forget /\ UNCHANGED <<disk, head>>
          /\ saved' = [index |-> ix, cursor |-> target, start |-> target,
                       head |-> IF git /\ NoDays THEN (IF saved = None THEN None ELSE saved.head)
                                ELSE head]
      BY <1>12 DEF Save
    <2>2. saved' # None /\ saved'.index = ix
      <3>1. saved' \in Saved
        <4> DEFINE tree == IF git /\ NoDays THEN (IF saved = None THEN None ELSE saved.head) ELSE head
        <4>1. tree \in Tree \cup {None}
          BY <1>1 DEF TypeInv, StoreTyped, Saved
        <4> HIDE DEF tree
        <4> QED
          BY <1>1, <2>1, <4>1 DEF TypeInv, PassTyped, ProcessTyped, Saved, tree
      <3> QED
        BY <2>1, <3>1, NoneAssumption
    <2>3. calm /\ git => saved'.head = head'
      BY <1>1, <2>1 DEF OpeningInv
    <2> QED
      BY <1>3, <1>4, <2>1, <2>2, <2>3, ForgetPlaced
  <1>13. CASE Interrupt
    <2>1. /\ Forget /\ UNCHANGED <<disk, head, saved>>
          /\ pc # "idle"
      BY <1>13 DEF Interrupt, FailPass, durable
    <2>2. ~git
      <3>1. stops \in 0 .. MaxStops /\ stops' = stops + 1
        BY <1>1, <1>13 DEF TypeInv, PassTyped, Interrupt
      <3>2. ~Unbroken'
        BY <3>1, TreeBounds DEF Unbroken
      <3> QED
        BY <1>3, <3>2 DEF PlainOrUnbroken
    <2> QED
      BY <1>1, <1>3, <2>1, <2>2, ForgetPlaced DEF PlacedInv, OpeningInv
  <1> QED
    BY <1>6, <1>7, <1>8, <1>9, <1>10, <1>11, <1>12, <1>13

\* An interruption is counted for good.
LEMMA StopsStay ==
    ASSUME TypeInv, [Next]_vars
    PROVE  git' = git /\ (Unbroken' => Unbroken)
  <1>1. stops \in Nat
    BY TreeBounds DEF TypeInv, PassTyped
  <1>2. CASE Account
    BY <1>2 DEF Account, CreateBox, RelocateBox, DestroyBox, FileMessage, ServerBoxes, ServerStep, faults, Unbroken
  <1>3. CASE Pass
    BY <1>3 DEF Pass, Begin, ListMailboxes, PlanSync, PlanAll, UpsertsDone, RenameDir, RenameFails, MakeDir,
                WriteCard, AddMail, UpdateMail, DeleteMail, CommitDay, MailDone, Prune, PruneDone, Commit,
                CommitFails, Save, account, faults, Unbroken
  <1>4. CASE Interrupt
    BY <1>1, <1>4 DEF Interrupt, Unbroken
  <1>5. CASE UNCHANGED vars
    BY <1>5 DEF vars, account, faults, Unbroken
  <1> QED
    BY <1>2, <1>3, <1>4, <1>5 DEF Next

\* What the properties do not speak of stays so.
LEMMA CalmStays ==
    ASSUME [Next]_vars
    PROVE  calm' => calm
  <1>1. CASE Account
    BY <1>1 DEF Account, CreateBox, RelocateBox, DestroyBox, FileMessage, ServerBoxes, ServerStep
  <1>2. CASE Interrupt \/ UNCHANGED vars
    BY <1>2 DEF Interrupt, vars, account
  <1>3. CASE Pass
    <2>1. CASE \/ \E kind \in {"sync", "refresh"} : Begin(kind)
               \/ ListMailboxes \/ PlanSync \/ PlanAll \/ UpsertsDone
               \/ CommitDay \/ MailDone \/ PruneDone \/ Commit \/ CommitFails \/ Save
      BY <2>1 DEF Begin, ListMailboxes, PlanSync, PlanAll, UpsertsDone, CommitDay, MailDone,
                  PruneDone, Commit, CommitFails, Save, account
    <2>2. ASSUME NEW b \in Box,
                 RenameDir(b) \/ RenameFails(b) \/ MakeDir(b) \/ WriteCard(b) \/ Prune(b)
          PROVE  calm' => calm
      BY <2>2 DEF RenameDir, RenameFails, MakeDir, WriteCard, Prune, account
    <2>3. ASSUME NEW m \in Msg, AddMail(m) \/ UpdateMail(m) \/ DeleteMail(m) PROVE calm' => calm
      BY <2>3 DEF AddMail, UpdateMail, DeleteMail, account
    <2> QED
      BY <1>3, <2>1, <2>2, <2>3 DEF Pass
  <1> QED
    BY <1>1, <1>2, <1>3 DEF Next

\* Every step keeps mailboxes placed.
LEMMA StepPlaces ==
    ASSUME IndexInv, PlainOrUnbroken', [Next]_vars
    PROVE  PlacesInv'
  <1>1. TypeInv'
    BY StepTyped DEF IndexInv, PlacesInv
  <1>2. CASE Account
    BY <1>1, <1>2, AccountStepPlaced
  <1>3. CASE Pass
    <2>1. CASE \/ \E kind \in {"sync", "refresh"} : Begin(kind)
               \/ ListMailboxes \/ PlanSync \/ PlanAll \/ UpsertsDone
      BY <1>1, <2>1, PlanningPlaced
    <2>2. ASSUME NEW b \in Box, RenameDir(b) \/ RenameFails(b) \/ MakeDir(b) \/ WriteCard(b)
          PROVE  PlacesInv'
      BY <1>1, <2>2, UpsertPlaced
    <2>3. ASSUME NEW m \in Msg, AddMail(m) \/ UpdateMail(m) \/ DeleteMail(m)
          PROVE  PlacesInv'
      BY <1>1, <2>3, MailPlaced
    <2>4. CASE CommitDay \/ MailDone \/ (\E b \in Box : Prune(b)) \/ PruneDone
               \/ Commit \/ CommitFails \/ Save
      BY <1>1, <2>4, ConcludingPlaced
    <2> QED
      BY <1>3, <2>1, <2>2, <2>3, <2>4 DEF Pass
  <1>4. CASE Interrupt
    BY <1>1, <1>4, ConcludingPlaced
  <1>5. CASE UNCHANGED vars
    <2>1. /\ UNCHANGED <<account, durable, process, pc, todo, pass, faults>>
      BY <1>5 DEF vars
    <2>2. UNCHANGED <<boxes, git, calm, disk, head, saved, ix, stage, listed, plan>>
      BY <2>1 DEF account, durable, process, pass
    <2>3. ForestInv'
      BY <2>1, <2>2 DEF IndexInv, ForestInv, IsForest, KnownIn
    <2>4. PlacedInfo' = PlacedInfo
      BY <2>1, <2>2 DEF PlacedInfo, InfoOf, Turn, Before, Waits, Line, KnownIn
    <2>5. PlacedInv'
      BY <2>1, <2>2, <2>4 DEF IndexInv, PlacedInv
    <2>6. OpeningInv'
      BY <2>1, <2>2 DEF IndexInv, OpeningInv, NoDays, KnownIn
    <2> QED
      BY <1>1, <2>3, <2>5, <2>6 DEF IndexInv, PlacesInv
  <1> QED
    BY <1>2, <1>3, <1>4, <1>5 DEF Next

\* What a checkpoint writes.
LEMMA CheckpointSaves ==
    ASSUME TypeInv, head' \in Tree, CommitDay \/ Save
    PROVE  saved' # None /\ saved'.index = ix
  <1>1. Cursor \in 0 .. MaxVersion /\ target \in 0 .. MaxVersion /\ ix \in Index
    BY TreeBounds DEF Cursor, TypeInv, StoreTyped, ProcessTyped, PassTyped, Saved
  <1>2. PICK cursor \in 0 .. MaxVersion, tree \in Tree \cup {None} :
           saved' = [index |-> ix, cursor |-> cursor, start |-> target, head |-> tree]
    <2>1. CASE CommitDay
      BY <1>1, <2>1 DEF CommitDay
    <2>2. CASE Save
      <3> DEFINE tree == IF git /\ NoDays THEN (IF saved = None THEN None ELSE saved.head) ELSE head
      <3>1. saved' = [index |-> ix, cursor |-> target, start |-> target, head |-> tree]
        BY <2>2 DEF Save
      <3>2. tree \in Tree \cup {None}
        BY DEF TypeInv, StoreTyped, Saved
      <3> HIDE DEF tree
      <3> QED
        BY <1>1, <3>1, <3>2
    <2> QED
      BY <2>1, <2>2
  <1>3. saved' \in Saved
    BY <1>1, <1>2 DEF Saved
  <1> QED
    BY <1>2, <1>3, NoneAssumption

\* What the first pass of a plain store has written is found again.
LEMMA StepFresh ==
    ASSUME IndexInv, PlacesInv', PlainOrUnbroken', [Next]_vars
    PROVE  FreshInv'
  <1> SUFFICES ASSUME calm', saved' = None PROVE FreshFacts'
    BY DEF FreshInv
  <1>1. TypeInv /\ ForestInv /\ PlacedInv /\ OpeningInv /\ FreshInv /\ TypeInv' /\ calm
    BY CalmStays DEF IndexInv, PlacesInv
  <1>2. ASSUME saved = None
        PROVE  /\ FreshFacts /\ (pc # "idle" => stage = "backfill")
               /\ (pc \in {"plan", "upsert", "card"} => todo \cap KnownIn(ix.box) = {})
    BY <1>1, <1>2 DEF FreshInv, OpeningInv
  <1>3. CASE Account
    <2>1. UNCHANGED <<git, durable, process, pc, todo, pass, faults>>
      BY <1>3 DEF Account, CreateBox, RelocateBox, DestroyBox, FileMessage, ServerBoxes, ServerStep
    <2>2. boxes' = boxes \/ ~wrecked
      BY <1>3 DEF Account, CreateBox, RelocateBox, DestroyBox, FileMessage, ServerBoxes
    <2>3. UNCHANGED <<disk, saved, ix, pc, todo, listed, gone, git, wrecked>>
      BY <2>1 DEF durable, process, pass, faults
    <2>4. FreshFacts
      BY <1>2, <2>3
    <2>5. CASE boxes' = boxes
      BY <2>3, <2>4, <2>5 DEF FreshFacts, Scanned, AsIn
    <2>6. CASE ~wrecked
      <3>1. pc = "list" => AsIn(ix, boxes)'
        BY <2>3, <2>4, <2>6 DEF FreshFacts, AsIn
      <3>2. ASSUME ~git, pc = "idle" PROVE Scanned(EmptyIndex)'
        <4>1. disk'.card = {}
          BY <2>3, <2>4, <2>6, <3>2 DEF FreshFacts
        <4> QED
          BY <4>1, EmptyIndexPlaced DEF Scanned, CardsOf, AsIn
      <3> QED
        BY <2>3, <2>4, <2>6, <3>1, <3>2, EmptyIndexPlaced DEF FreshFacts, AsIn
    <2> QED
      BY <2>2, <2>5, <2>6
  <1>4. ASSUME NEW kind \in {"sync", "refresh"}, Begin(kind) PROVE FreshFacts'
    <2>1. /\ pc = "idle" /\ ix' \in IndexAtHand
          /\ UNCHANGED <<boxes, git, disk, saved, wrecked>>
      BY <1>4 DEF Begin, server, durable, faults
    <2>2. pc' = "list"
      <3>1. Cursor = 0
        BY <2>1 DEF Cursor
      <3> QED
        BY <1>4, <3>1 DEF Begin
    <2>3. FreshFacts
      BY <1>2, <2>1
    <2>4. IndexAtHand = OpenIndex
      BY <1>1, <2>1, OpenIndexPlaced DEF IndexInv
    <2>5. CASE git
      <3>1. ix' = EmptyIndex
        BY <1>1, <2>1, <2>4, <2>5, OpenIndexPlaced
      <3> QED
        BY <2>1, <2>2, <2>5, <3>1, EmptyIndexPlaced DEF FreshFacts, AsIn
    <2>6. CASE ~git
      <3>1. Scanned(ix')
        BY <1>1, <2>1, <2>4, <2>6, OpenIndexPlaced
      <3>2. ~wrecked => KnownIn(ix'.box) = {} /\ disk.card = {}
        <4>1. ~wrecked => disk.card = {}
          BY <2>1, <2>3, <2>6 DEF FreshFacts
        <4>2. disk.card = {CardOf(ix', b) : b \in KnownIn(ix'.box)}
          BY <3>1 DEF Scanned, CardsOf
        <4> QED
          BY <4>1, <4>2
      <3>3. disk.card = CardsOf(ix') /\ AsIn(ix', boxes)
        BY <3>1 DEF Scanned
      <3> QED
        BY <2>1, <2>2, <3>2, <3>3 DEF FreshFacts, CardsOf, CardOf, AsIn
    <2> QED
      BY <2>5, <2>6
  <1>5. CASE ListMailboxes
    <2>1. /\ pc = "list" /\ pc' \in {"plan", "upsert"} /\ listed' = boxes
          /\ gone' = IF stage = "backfill" THEN {} ELSE KnownIn(ix.box) \ KnownIn(boxes)
          /\ UNCHANGED <<git, disk, saved, ix>>
      BY <1>5 DEF ListMailboxes, account, durable, process
    <2>2. FreshFacts /\ stage = "backfill"
      BY <1>2, <2>1
    <2> QED
      BY <2>1, <2>2 DEF FreshFacts, CardsOf, CardOf, AsIn
  <1>6. ASSUME pc \notin {"idle", "list"}, pc' \notin {"idle", "list"}, saved = None,
               UNCHANGED <<git, listed, gone>>, ix'.box = ix.box, disk'.card = disk.card,
               pc' = "prune" => todo' = {}
        PROVE  FreshFacts'
    <2>1. FreshFacts
      BY <1>2, <1>6
    <2>2. CardsOf(ix)' = CardsOf(ix) /\ (AsIn(ix, listed)' <=> AsIn(ix, listed))
      BY <1>6 DEF CardsOf, CardOf, AsIn
    <2> QED
      BY <1>6, <2>1, <2>2 DEF FreshFacts
  <1>7. CASE PlanSync
    <2>1. pc = "plan" /\ stage = "sync" /\ saved' = saved
      BY <1>7 DEF PlanSync, durable
    <2> QED
      BY <1>2, <2>1
  <1>8. CASE PlanAll \/ UpsertsDone
    <2>1. /\ pc \in {"plan", "upsert"} /\ pc' \in {"plan", "mail"}
          /\ UNCHANGED <<git, listed, gone, ix, disk, saved>>
      BY <1>8 DEF PlanAll, UpsertsDone, durable, process, pass, account
    <2> QED
      BY <1>6, <2>1
  <1>9. ASSUME NEW b \in Box, RenameDir(b) \/ RenameFails(b) \/ MakeDir(b) \/ WriteCard(b)
        PROVE  FreshFacts'
    <2>1. /\ pc \in {"upsert", "card"} /\ Turn(b) /\ UNCHANGED <<git, saved>>
      BY <1>9 DEF RenameDir, RenameFails, MakeDir, WriteCard, account
    <2>2. AtTurn(b) /\ b \in todo
      BY <1>1, <2>1, TurnIsReady DEF Turn
    <2>3. ix.box[b] = None /\ b \notin KnownIn(ix.box) /\ b \in Box
      BY <1>2, <2>1, <2>2 DEF KnownIn
    <2>4. FreshFacts
      BY <1>2, <2>1
    <2>5. CASE RenameDir(b) \/ RenameFails(b)
      BY <2>3, <2>5 DEF RenameDir, RenameFails, Moves
    <2>6. CASE MakeDir(b)
      <3>1. /\ pc' = "card" /\ UNCHANGED <<ix, listed, gone>>
            /\ disk' = [disk EXCEPT !.dirs = disk.dirs \cup Ancestors(NewDir(b))]
        BY <2>6 DEF MakeDir, process, pass
      <3>2. disk'.card = disk.card
        BY <1>1, <3>1 DEF TypeInv, StoreTyped, Worktree
      <3> QED
        BY <1>6, <2>1, <3>1, <3>2
    <2>7. CASE WriteCard(b)
      <3> DEFINE dir == NewDir(b)
      <3>1. /\ pc' = "upsert" /\ UNCHANGED <<listed, gone>>
            /\ disk' = PutCard(disk, dir, b, listed[b])
            /\ ix' = [ix EXCEPT !.box[b] = [info |-> listed[b], dir |-> dir]]
        BY <2>3, <2>7 DEF WriteCard, pass
      <3> HIDE DEF dir
      <3>2. /\ KnownIn(ix'.box) = KnownIn(ix.box) \cup {b}
            /\ ix'.box[b] = [info |-> listed[b], dir |-> dir]
            /\ \A c \in Box \ {b} : ix'.box[c] = ix.box[c]
        <4>1. [info |-> listed[b], dir |-> dir] # None
          <5>1. listed[b] \in Info /\ b \in KnownIn(listed)
            BY <2>2, ParentPlaced DEF AtTurn
          <5>2. dir \in Path
            BY <1>1, <5>1, AssignedDirs DEF TypeInv, ProcessTyped, PassTyped, dir
          <5>3. [info |-> listed[b], dir |-> dir] \in BoxEntry
            BY <5>1, <5>2 DEF BoxEntry
          <5> QED
            BY <5>3, NoneAssumption
        <4>2. ix \in Index
          BY <1>1 DEF TypeInv, ProcessTyped
        <4> QED
          BY <2>3, <3>1, <4>1, <4>2 DEF Index, KnownIn
      <3>3. ASSUME ~git PROVE disk'.card = CardsOf(ix')
        <4>1. disk.card = CardsOf(ix)
          BY <2>1, <2>4, <3>3 DEF FreshFacts
        <4>2. \A c \in KnownIn(ix.box) : ix.box[c].dir # dir
          <5>1. WellPlaced(ix, PlacedInfo)
            BY <1>1 DEF PlacedInv
          <5>2. \A c \in KnownIn(ix.box) : ~IsPrefix(dir, ix.box[c].dir)
            BY <2>2, <2>3, <5>1, DirIsFree DEF dir
          <5>3. ASSUME NEW c \in KnownIn(ix.box), ix.box[c].dir = dir PROVE FALSE
            <6>1. ix.box[c].dir \in Path
              BY <1>1, <5>3, IndexEntries DEF TypeInv, ProcessTyped
            <6>2. IsPrefix(dir, dir)
              BY <5>3, <6>1, PrefixOrder
            <6> QED
              BY <5>2, <5>3, <6>2
          <5> QED
            BY <5>3
        <4>3. CardAt(disk, dir) = {}
          BY <4>1, <4>2 DEF CardAt, CardsOf, CardOf
        <4>4. disk'.card = disk.card \cup {CardOf(ix', b)}
          <5>1. disk'.card = (disk.card \ CardAt(disk, dir)) \cup {[at |-> dir, box |-> b, info |-> listed[b]]}
            BY <1>1, <3>1 DEF PutCard, TypeInv, StoreTyped, Worktree
          <5> QED
            BY <3>2, <4>3, <5>1 DEF CardOf
        <4>5. \A c \in KnownIn(ix.box) : CardOf(ix', c) = CardOf(ix, c)
          BY <2>3, <3>2 DEF CardOf, KnownIn
        <4>6. CardsOf(ix') = {CardOf(ix', c) : c \in KnownIn(ix.box)} \cup {CardOf(ix', b)}
          BY <3>2 DEF CardsOf
        <4>7. {CardOf(ix', c) : c \in KnownIn(ix.box)} = CardsOf(ix)
          BY <4>5 DEF CardsOf
        <4> QED
          BY <4>1, <4>4, <4>6, <4>7
      <3>4. AsIn(ix', listed')
        <4>1. AsIn(ix, listed)
          BY <2>1, <2>4 DEF FreshFacts
        <4>2. ASSUME NEW c \in KnownIn(ix'.box) PROVE ix'.box[c].info = listed[c]
          BY <2>3, <3>2, <4>1, <4>2 DEF AsIn, KnownIn
        <4> QED
          BY <3>1, <4>2 DEF AsIn
      <3>5. CardsOf(ix)' = CardsOf(ix') /\ (AsIn(ix, listed)' <=> AsIn(ix', listed'))
        BY DEF CardsOf, CardOf, AsIn
      <3> QED
        BY <2>1, <2>4, <3>1, <3>3, <3>4, <3>5 DEF FreshFacts
    <2> QED
      BY <1>9, <2>5, <2>6, <2>7
  <1>10. ASSUME NEW m \in Msg, AddMail(m) \/ UpdateMail(m) \/ DeleteMail(m) PROVE FreshFacts'
    <2>1. pc = "mail" /\ pc' = "mail" /\ UNCHANGED <<git, listed, gone, saved>>
      BY <1>10 DEF AddMail, UpdateMail, DeleteMail, account
    <2>2. ix'.box = ix.box /\ disk'.card = disk.card
      <3>1. ix \in Index /\ disk \in Worktree
        BY <1>1 DEF TypeInv, ProcessTyped, StoreTyped
      <3>2. \/ ix' = ix \/ \E e : ix' = [ix EXCEPT !.mail[m] = e]
        BY <1>10 DEF AddMail, UpdateMail, DeleteMail
      <3>3. \/ disk' = disk
            \/ \E p : disk' = DropMail(disk, p, m)
            \/ \E p, in : disk' = PutMail(disk, p, m, in) \/ disk' = PutSide(disk, p, m, in)
            \/ \E p, q, in : disk' = PutMail(DropMail(disk, p, m), q, m, in)
        BY <1>10 DEF AddMail, UpdateMail, DeleteMail
      <3>4. ASSUME NEW p PROVE DropMail(disk, p, m).card = disk.card /\ DropMail(disk, p, m) \in
                [dirs : {disk.dirs}, card : {disk.card}, eml : SUBSET disk.eml, side : SUBSET disk.side]
        BY <3>1 DEF DropMail, Worktree
      <3>5. ASSUME NEW p, NEW in PROVE PutSide(disk, p, m, in).card = disk.card /\ PutMail(disk, p, m, in).card = disk.card
        BY <3>1 DEF PutSide, PutMail, Worktree
      <3>6. ASSUME NEW p, NEW q, NEW in PROVE PutMail(DropMail(disk, p, m), q, m, in).card = disk.card
        BY <3>4 DEF PutSide, PutMail
      <3> QED
        BY <3>1, <3>2, <3>3, <3>4, <3>5, <3>6 DEF Index
    <2> QED
      BY <1>6, <2>1, <2>2
  <1>11. CASE CommitDay \/ Save
    BY <1>1, <1>11, CheckpointSaves DEF TypeInv, StoreTyped
  <1>12. CASE MailDone \/ PruneDone \/ Commit
    <2>1. /\ pc \in {"mail", "prune", "commit"} /\ pc' \in {"prune", "commit", "save"}
          /\ UNCHANGED <<git, listed, gone, ix, disk, saved>>
          /\ pc' = "prune" => todo' = gone
      BY <1>12 DEF MailDone, PruneDone, Commit, durable, process, pass, account
    <2>2. gone = {}
      BY <1>2, <2>1 DEF FreshFacts
    <2> QED
      BY <1>6, <2>1, <2>2
  <1>13. ASSUME NEW b \in Box, Prune(b) PROVE FreshFacts'
    <2>1. pc = "prune" /\ b \in todo /\ saved' = saved
      BY <1>13 DEF Prune
    <2> QED
      BY <1>2, <2>1 DEF FreshFacts
  <1>14. CASE CommitFails
    <2>1. git' /\ pc' = "idle" /\ ix' = EmptyIndex
      BY <1>14 DEF CommitFails, FailPass, Forget, account
    <2> QED
      BY <2>1, EmptyIndexPlaced DEF FreshFacts
  <1>15. CASE Interrupt
    <2>1. /\ pc # "idle" /\ pc' = "idle" /\ ix' = EmptyIndex /\ wrecked' = TRUE
          /\ pc = "list" \/ listed = boxes
          /\ UNCHANGED <<boxes, git, disk, saved>>
      BY <1>15 DEF Interrupt, FailPass, Forget, server, durable, Repeatable
    <2>2. FreshFacts
      BY <1>2, <2>1
    <2>3. ASSUME ~git PROVE Scanned(ix)
      <3>1. disk.card = CardsOf(ix) /\ AsIn(ix, boxes)
        BY <2>1, <2>2, <2>3 DEF FreshFacts
      <3>2. WellPlaced(ix, PlacedInfo)
        BY <1>1 DEF PlacedInv
      <3>3. \A c \in KnownIn(ix.box) : PlacedInfo[c] = InfoOf(ix)[c]
        <4>1. ASSUME NEW c \in KnownIn(ix.box) PROVE PlacedInfo[c] = InfoOf(ix)[c]
          <5>1. pc = "card" => c \notin todo
            BY <1>2, <2>1, <4>1
          <5> QED
            BY <4>1, <5>1 DEF PlacedInfo, Turn, KnownIn
        <4> QED
          BY <4>1
      <3>4. WellPlaced(ix, InfoOf(ix))
        <4> HIDE DEF PlacedInfo
        <4> QED
          BY <3>2, <3>3 DEF WellPlaced, NestedAs
      <3> QED
        BY <3>1, <3>4 DEF Scanned
    <2>4. ix \in Index
      BY <1>1 DEF TypeInv, ProcessTyped
    <2>5. ASSUME NEW index, Scanned(index) PROVE Scanned(index)'
      BY <2>1, <2>5 DEF Scanned, CardsOf, CardOf, AsIn, WellPlaced, NestedAs, SiblingsApart, OwnSuffix, InfoOf
    <2> QED
      BY <2>1, <2>3, <2>4, <2>5, EmptyIndexPlaced DEF FreshFacts
  <1>16. CASE UNCHANGED vars
    <2>1. UNCHANGED <<boxes, git, disk, saved, ix, pc, todo, listed, gone, wrecked>>
      BY <1>16 DEF vars, account, durable, process, pass, faults
    <2>2. FreshFacts
      BY <1>2, <2>1
    <2> QED
      BY <2>1, <2>2 DEF FreshFacts, Scanned, CardsOf, CardOf, AsIn
  <1> QED
    BY <1>3, <1>4, <1>5, <1>7, <1>8, <1>9, <1>10, <1>11, <1>12, <1>13, <1>14, <1>15, <1>16 DEF Next, Pass

\* Every step keeps mailboxes placed.
LEMMA StepPlaced ==
    ASSUME IndexInv, PlainOrUnbroken', [Next]_vars
    PROVE  IndexInv'
  <1>1. PlacesInv'
    BY StepPlaces
  <1> QED
    BY <1>1, StepFresh DEF IndexInv, PlacesInv

\* Mailboxes are placed up to the first interruption of a git store, and in a
\* plain store always.
LEMMA SpecPlaced == Spec => [](PlainOrUnbroken => IndexInv)
  <1>1. Init => IndexInv
    BY InitTyped, InitPlaced
  <1>2. TypeInv /\ (PlainOrUnbroken => IndexInv) /\ [Next]_vars => (PlainOrUnbroken => IndexInv)'
    BY StopsStay, StepPlaced DEF PlainOrUnbroken
  <1> QED
    BY <1>1, <1>2, SpecTyped, PTL DEF Spec

\* No two mailboxes get directories that differ by case only, nor that of
\* unfiled mail, whatever the names, the collisions and the renames: in a git store
\* up to the first interruption, in a plain store through interruptions too, of the
\* backfill among others, except those after which calm ends (see Interrupt).
THEOREM DirsStayApart == Spec => [](PlainOrUnbroken => DirsDistinct)
  <1>1. IndexInv => DirsDistinct
    <2> SUFFICES ASSUME IndexInv, calm
                 PROVE  \A b \in KnownIn(ix.box) :
                           /\ Folded(ix.box[b].dir) # Unfiled
                           /\ \A c \in KnownIn(ix.box) \ {b} : Folded(ix.box[c].dir) # Folded(ix.box[b].dir)
      BY DEF DirsDistinct
    <2>1. ix \in Index /\ WellPlaced(ix, PlacedInfo)
      BY DEF IndexInv, TypeInv, ProcessTyped, PlacedInv
    <2> QED
      BY <2>1, WellPlacedApart
  <1> QED
    BY <1>1, SpecPlaced, PTL

\* Directories nest as mailboxes do, through every rename of a mailbox and of
\* the mailboxes above it: in a git store up to the first interruption, in a plain
\* store through interruptions too, except those after which calm ends.
THEOREM DirsStayNested == Spec => [](PlainOrUnbroken => DirsNested)
  <1>1. IndexInv => DirsNested
    <2> SUFFICES ASSUME IndexInv, calm, pc # "card", NEW b \in KnownIn(ix.box)
                 PROVE  Front(ix.box[b].dir) = ParentDir(ix.box[b].info)
      BY DEF DirsNested
    <2>1. NestedAs(ix, InfoOf(ix))
      BY PlacedInfoAtRest DEF IndexInv, PlacedInv, WellPlaced
    <2>2. InfoOf(ix)[b] = ix.box[b].info
      BY DEF InfoOf, KnownIn
    <2> QED
      BY <2>1, <2>2 DEF NestedAs, ParentDir, KnownIn
  <1> QED
    BY <1>1, SpecPlaced, PTL

-----------------------------------------------------------------------------
(* A worktree that is a copy of an index.                                   *)

KnownMail(index) == {m \in Msg : index.mail[m] # None}
EmlOf(index, m) == <<index.mail[m].dir, m>>
SideOf(index, m) == [at |-> index.mail[m].dir, msg |-> m, in |-> index.mail[m].in]
EmlsOf(index) == {EmlOf(index, m) : m \in KnownMail(index)}
SidesOf(index) == {SideOf(index, m) : m \in KnownMail(index)}
IsCopy(d, index) ==
    d.card = CardsOf(index) /\ d.eml = EmlsOf(index) /\ d.side = SidesOf(index)

\* Where mail is: with a mailbox it is in, or with the unfiled.
Homes(index) == {index.box[b].dir : b \in KnownIn(index.box)} \cup {Unfiled}
Filed(index) ==
    \A m \in KnownMail(index) :
       \/ index.mail[m].dir = Unfiled
       \/ \E b \in index.mail[m].in \cap KnownIn(index.box) : index.mail[m].dir = index.box[b].dir

\* Directories are those of mailboxes, and the one that has just been made.
HasHomes(d, index, made) ==
    /\ \A b \in KnownIn(index.box) : index.box[b].dir \in d.dirs
    /\ d.dirs \subseteq Homes(index) \cup made

\* A card that is written.
LEMMA CardCopied ==
    ASSUME NEW d \in Worktree, NEW index \in Index, NEW new \in Index, IsCopy(d, index),
           NEW b \in Box, NEW info, NEW dir,
           new.mail = index.mail, new.box[b] = [info |-> info, dir |-> dir],
           KnownIn(new.box) = KnownIn(index.box) \cup {b},
           \A c \in Box \ {b} : new.box[c] = index.box[c],
           \A c \in KnownIn(index.box) : index.box[c].dir = dir <=> c = b
    PROVE  IsCopy(PutCard(d, dir, b, info), new)
  <1> DEFINE K == KnownIn(index.box)
             e == PutCard(d, dir, b, info)
             card == [at |-> dir, box |-> b, info |-> info]
  <1>1. /\ e.card = (d.card \ CardAt(d, dir)) \cup {card}
        /\ e.eml = d.eml /\ e.side = d.side
    BY DEF PutCard, Worktree
  <1>2. \A c \in K \ {b} : c \in Box /\ CardOf(new, c) = CardOf(index, c)
    BY DEF CardOf, KnownIn
  <1>3. CardOf(new, b) = card
    BY DEF CardOf
  <1>4. CardsOf(new) = {CardOf(index, c) : c \in K \ {b}} \cup {card}
    <2> HIDE DEF card
    <2> QED
      BY <1>2, <1>3 DEF CardsOf
  <1>5. d.card \ CardAt(d, dir) = {CardOf(index, c) : c \in K \ {b}}
    <2>1. \A c \in K : CardOf(index, c).at = dir <=> c = b
      BY DEF CardOf
    <2>2. d.card = {CardOf(index, c) : c \in K}
      BY DEF IsCopy, CardsOf
    <2>3. \A x : x \in d.card /\ x.at # dir <=> x \in {CardOf(index, c) : c \in K \ {b}}
      BY <2>1, <2>2
    <2> QED
      BY <2>3 DEF CardAt
  <1>6. EmlsOf(new) = EmlsOf(index) /\ SidesOf(new) = SidesOf(index)
    BY DEF EmlsOf, SidesOf, EmlOf, SideOf, KnownMail
  <1> HIDE DEF card, e
  <1> QED
    BY <1>1, <1>4, <1>5, <1>6 DEF IsCopy, e

\* Mail that is taken away.
LEMMA DropCopied ==
    ASSUME NEW d \in Worktree, NEW index \in Index, IsCopy(d, index),
           NEW m \in Msg, index.mail[m] # None
    PROVE  IsCopy(DropMail(d, index.mail[m].dir, m), [index EXCEPT !.mail[m] = None])
  <1> DEFINE new == [index EXCEPT !.mail[m] = None]
             from == index.mail[m].dir
             e == DropMail(d, from, m)
             M == KnownMail(index)
  <1>1. e.card = d.card /\ e.eml = d.eml \ {<<from, m>>} /\ e.side = d.side \ SideAt(d, from, m)
    BY DEF DropMail, Worktree
  <1>2. KnownMail(new) = M \ {m} /\ new.box = index.box /\ \A k \in M \ {m} : new.mail[k] = index.mail[k]
    BY DEF KnownMail, Index
  <1> HIDE DEF new
  <1>3. CardsOf(new) = CardsOf(index)
    BY <1>2 DEF CardsOf, CardOf
  <1>4. EmlsOf(new) = {EmlOf(index, k) : k \in M \ {m}} /\ SidesOf(new) = {SideOf(index, k) : k \in M \ {m}}
    BY <1>2 DEF EmlsOf, SidesOf, EmlOf, SideOf
  <1>5. d.eml \ {<<from, m>>} = {EmlOf(index, k) : k \in M \ {m}}
    <2>1. d.eml = {EmlOf(index, k) : k \in M} /\ EmlOf(index, m) = <<from, m>>
      BY DEF IsCopy, EmlsOf, EmlOf
    <2>2. \A k \in M : EmlOf(index, k) = <<from, m>> => k = m
      BY DEF EmlOf
    <2> QED
      BY <2>1, <2>2
  <1>6. d.side \ SideAt(d, from, m) = {SideOf(index, k) : k \in M \ {m}}
    <2>1. d.side = {SideOf(index, k) : k \in M}
      BY DEF IsCopy, SidesOf
    <2>2. \A k \in M : SideOf(index, k).at = from /\ SideOf(index, k).msg = m <=> k = m
      BY DEF SideOf, KnownMail
    <2>3. \A x : (x \in d.side /\ ~(x.at = from /\ x.msg = m)) <=> x \in {SideOf(index, k) : k \in M \ {m}}
      BY <2>1, <2>2
    <2> QED
      BY <2>3 DEF SideAt
  <1> HIDE DEF e
  <1> QED
    BY <1>1, <1>3, <1>4, <1>5, <1>6 DEF IsCopy, new, e

\* Mail that is put where there was none of it.
LEMMA PutCopied ==
    ASSUME NEW d \in Worktree, NEW index \in Index, IsCopy(d, index),
           NEW m \in Msg, index.mail[m] = None, NEW dir, NEW in, [in |-> in, dir |-> dir] # None
    PROVE  IsCopy(PutMail(d, dir, m, in), [index EXCEPT !.mail[m] = [in |-> in, dir |-> dir]])
  <1> DEFINE entry == [in |-> in, dir |-> dir]
             new == [index EXCEPT !.mail[m] = entry]
             e == PutMail(d, dir, m, in)
             side == [at |-> dir, msg |-> m, in |-> in]
             M == KnownMail(index)
  <1>1. /\ e.card = d.card /\ e.eml = d.eml \cup {<<dir, m>>}
        /\ e.side = (d.side \ SideAt(d, dir, m)) \cup {side}
    BY DEF PutMail, PutSide, Worktree
  <1>2. /\ KnownMail(new) = M \cup {m} /\ new.box = index.box /\ new.mail[m] = entry
        /\ \A k \in M : new.mail[k] = index.mail[k] /\ k # m
    <2> HIDE DEF entry
    <2> QED
      BY DEF KnownMail, Index, entry
  <1> HIDE DEF new
  <1>3. CardsOf(new) = CardsOf(index)
    BY <1>2 DEF CardsOf, CardOf
  <1>4. EmlOf(new, m) = <<dir, m>> /\ SideOf(new, m) = side
    BY <1>2 DEF EmlOf, SideOf
  <1>5. \A k \in M : EmlOf(new, k) = EmlOf(index, k) /\ SideOf(new, k) = SideOf(index, k)
    BY <1>2 DEF EmlOf, SideOf
  <1> HIDE DEF side
  <1>6. EmlsOf(new) = EmlsOf(index) \cup {<<dir, m>>} /\ SidesOf(new) = SidesOf(index) \cup {side}
    BY <1>2, <1>4, <1>5 DEF EmlsOf, SidesOf
  <1>7. SideAt(d, dir, m) = {}
    BY <1>2 DEF SideAt, IsCopy, SidesOf, SideOf
  <1> HIDE DEF e
  <1> QED
    BY <1>1, <1>3, <1>6, <1>7 DEF IsCopy, new, e

\* A sidecar that is written anew.
LEMMA SideCopied ==
    ASSUME NEW d \in Worktree, NEW index \in Index, IsCopy(d, index),
           NEW m \in Msg, index.mail[m] # None, NEW in,
           [in |-> in, dir |-> index.mail[m].dir] # None
    PROVE  IsCopy(PutSide(d, index.mail[m].dir, m, in),
                  [index EXCEPT !.mail[m] = [in |-> in, dir |-> index.mail[m].dir]])
  <1> DEFINE dir == index.mail[m].dir
             entry == [in |-> in, dir |-> dir]
             new == [index EXCEPT !.mail[m] = entry]
             e == PutSide(d, dir, m, in)
             side == [at |-> dir, msg |-> m, in |-> in]
             M == KnownMail(index)
  <1>1. /\ e.card = d.card /\ e.eml = d.eml
        /\ e.side = (d.side \ SideAt(d, dir, m)) \cup {side}
    BY DEF PutSide, Worktree
  <1>2. /\ KnownMail(new) = M /\ m \in M /\ new.box = index.box /\ new.mail[m] = entry
        /\ \A k \in M \ {m} : new.mail[k] = index.mail[k]
    <2> HIDE DEF entry
    <2> QED
      BY DEF KnownMail, Index, entry
  <1> HIDE DEF new
  <1>3. CardsOf(new) = CardsOf(index)
    BY <1>2 DEF CardsOf, CardOf
  <1>4. /\ \A k \in M : EmlOf(new, k) = EmlOf(index, k)
        /\ \A k \in M \ {m} : SideOf(new, k) = SideOf(index, k)
        /\ SideOf(new, m) = side
    BY <1>2 DEF EmlOf, SideOf
  <1> HIDE DEF side
  <1>5. EmlsOf(new) = EmlsOf(index) /\ SidesOf(new) = {SideOf(index, k) : k \in M \ {m}} \cup {side}
    BY <1>2, <1>4 DEF EmlsOf, SidesOf
  <1>6. d.side \ SideAt(d, dir, m) = {SideOf(index, k) : k \in M \ {m}}
    <2>1. d.side = {SideOf(index, k) : k \in M}
      BY DEF IsCopy, SidesOf
    <2>2. \A k \in M : SideOf(index, k).at = dir /\ SideOf(index, k).msg = m <=> k = m
      BY DEF SideOf, KnownMail
    <2>3. \A x : (x \in d.side /\ ~(x.at = dir /\ x.msg = m)) <=> x \in {SideOf(index, k) : k \in M \ {m}}
      BY <2>1, <2>2
    <2> QED
      BY <2>3 DEF SideAt
  <1> HIDE DEF e
  <1> QED
    BY <1>1, <1>3, <1>5, <1>6 DEF IsCopy, new, e

\* A mailbox that is removed.
LEMMA PruneCopied ==
    ASSUME NEW d \in Worktree, NEW index \in Index, IsCopy(d, index), NEW b \in KnownIn(index.box),
           \A c \in KnownIn(index.box) : index.box[c].dir = index.box[b].dir => c = b,
           NEW e, e.card = d.card \ CardAt(d, index.box[b].dir), e.eml = d.eml, e.side = d.side
    PROVE  IsCopy(e, [index EXCEPT !.box[b] = None])
  <1> DEFINE new == [index EXCEPT !.box[b] = None]
             dir == index.box[b].dir
             K == KnownIn(index.box)
  <1>1. /\ KnownIn(new.box) = K \ {b} /\ new.mail = index.mail
        /\ \A c \in K \ {b} : new.box[c] = index.box[c]
    BY DEF KnownIn, Index
  <1> HIDE DEF new
  <1>2. CardsOf(new) = {CardOf(index, c) : c \in K \ {b}}
    BY <1>1 DEF CardsOf, CardOf
  <1>3. EmlsOf(new) = EmlsOf(index) /\ SidesOf(new) = SidesOf(index)
    BY <1>1 DEF EmlsOf, SidesOf, EmlOf, SideOf, KnownMail
  <1>4. e.card = {CardOf(index, c) : c \in K \ {b}}
    <2>1. d.card = {CardOf(index, c) : c \in K}
      BY DEF IsCopy, CardsOf
    <2>2. \A c \in K : CardOf(index, c).at = dir <=> c = b
      BY DEF CardOf
    <2>3. \A x : x \in d.card /\ x.at # dir <=> x \in {CardOf(index, c) : c \in K \ {b}}
      BY <2>1, <2>2
    <2> QED
      BY <2>3 DEF CardAt
  <1> QED
    BY <1>2, <1>3, <1>4 DEF IsCopy, new

\* A directory that is renamed.
LEMMA RenameCopied ==
    ASSUME NEW d \in Worktree, ix \in Index, IsCopy(d, ix), NEW from \in Path, NEW to \in Path,
           from \in d.dirs
    PROVE  IsCopy(DirRenamed(d, from, to), IndexRebased(from, to))
  <1> DEFINE new == IndexRebased(from, to)
             e == DirRenamed(d, from, to)
             moved(p) == Rebased(p, from, to)
  <1>1. /\ e.card = {[c EXCEPT !.at = moved(c.at)] : c \in d.card}
        /\ e.eml = {<<moved(f[1]), f[2]>> : f \in d.eml}
        /\ e.side = {[f EXCEPT !.at = moved(f.at)] : f \in d.side}
    <2> HIDE DEF moved
    <2> QED
      BY DEF DirRenamed, moved
  <1>2. /\ KnownIn(new.box) = KnownIn(ix.box) /\ KnownMail(new) = KnownMail(ix)
        /\ \A b \in KnownIn(ix.box) : new.box[b] = [info |-> ix.box[b].info, dir |-> moved(ix.box[b].dir)]
        /\ \A m \in KnownMail(ix) : new.mail[m] = [in |-> ix.mail[m].in, dir |-> moved(ix.mail[m].dir)]
    <2> HIDE DEF moved
    <2> QED
      BY IndexRebasedTyped DEF KnownIn, KnownMail, moved
  <1> HIDE DEF new, e, moved
  <1>3. ASSUME NEW b \in KnownIn(ix.box)
        PROVE  CardOf(new, b) = [CardOf(ix, b) EXCEPT !.at = moved(CardOf(ix, b).at)]
    <2>1. new.box[b].dir = moved(ix.box[b].dir) /\ new.box[b].info = ix.box[b].info
      <3>1. new.box[b] = [info |-> ix.box[b].info, dir |-> moved(ix.box[b].dir)]
        BY <1>2, Zenon
      <3> QED
        BY <3>1
    <2>2. CardOf(new, b) = [at |-> moved(ix.box[b].dir), box |-> b, info |-> ix.box[b].info]
      BY <2>1 DEF CardOf
    <2> QED
      BY <2>2 DEF CardOf
  <1>4. ASSUME NEW m \in KnownMail(ix)
        PROVE  /\ EmlOf(new, m) = <<moved(EmlOf(ix, m)[1]), EmlOf(ix, m)[2]>>
               /\ SideOf(new, m) = [SideOf(ix, m) EXCEPT !.at = moved(SideOf(ix, m).at)]
    <2>1. new.mail[m].dir = moved(ix.mail[m].dir) /\ new.mail[m].in = ix.mail[m].in
      <3>1. new.mail[m] = [in |-> ix.mail[m].in, dir |-> moved(ix.mail[m].dir)]
        BY <1>2, Zenon
      <3> QED
        BY <3>1
    <2>2. SideOf(new, m) = [at |-> moved(ix.mail[m].dir), msg |-> m, in |-> ix.mail[m].in]
      BY <2>1 DEF SideOf
    <2> QED
      BY <2>1, <2>2 DEF EmlOf, SideOf
  <1>5. d.card = CardsOf(ix) /\ d.eml = EmlsOf(ix) /\ d.side = SidesOf(ix)
    BY DEF IsCopy
  <1>6. e.card = CardsOf(new)
    BY <1>1, <1>2, <1>3, <1>5 DEF CardsOf
  <1>7. e.eml = EmlsOf(new)
    BY <1>1, <1>2, <1>4, <1>5 DEF EmlsOf
  <1>8. e.side = SidesOf(new)
    BY <1>1, <1>2, <1>4, <1>5 DEF SidesOf
  <1> QED
    BY <1>6, <1>7, <1>8 DEF IsCopy, new, e

-----------------------------------------------------------------------------
(* The recorded edits make HEAD into the worktree.                          *)

\* A file that no edit names is the same in both; one that an edit puts is in the
\* worktree, one that an edit removes is not.
Agrees(h, d, e) ==
    /\ e.up \subseteq FilesOf(d) /\ e.rm \cap FilesOf(d) = {}
    /\ \A c : Card(c.at) \notin e.up \cup e.rm => (c \in h.card <=> c \in d.card)
    /\ \A f : Eml(f[1], f[2]) \notin e.up \cup e.rm => (f \in h.eml <=> f \in d.eml)
    /\ \A f : Sidecar(f.at, f.msg) \notin e.up \cup e.rm => (f \in h.side <=> f \in d.side)

\* Two worktrees are the same but for some files.
SameBut(d, e, fs) ==
    /\ \A c : Card(c.at) \notin fs => (c \in d.card <=> c \in e.card)
    /\ \A f : Eml(f[1], f[2]) \notin fs => (f \in d.eml <=> f \in e.eml)
    /\ \A f : Sidecar(f.at, f.msg) \notin fs => (f \in d.side <=> f \in e.side)

\* The files they have are the same, too.
LEMMA SameFiles ==
    ASSUME NEW d, NEW e, NEW fs, SameBut(d, e, fs), NEW file, file \notin fs
    PROVE  file \in FilesOf(d) <=> file \in FilesOf(e)
  <1>1. \A t : file \in FilesOf(t) <=> \/ \E c \in t.card : Card(c.at) = file
                                       \/ \E f \in t.eml : Eml(f[1], f[2]) = file
                                       \/ \E f \in t.side : Sidecar(f.at, f.msg) = file
    BY DEF FilesOf
  <1>2. /\ \A c : Card(c.at) = file => (c \in d.card <=> c \in e.card)
        /\ \A f : Eml(f[1], f[2]) = file => (f \in d.eml <=> f \in e.eml)
        /\ \A f : Sidecar(f.at, f.msg) = file => (f \in d.side <=> f \in e.side)
    BY DEF SameBut
  <1> QED
    BY <1>1, <1>2

\* A step that records what it removes and what it puts.
LEMMA AgreesAfter ==
    ASSUME NEW h, NEW d, NEW new, NEW e, Agrees(h, d, e), NEW rm, NEW up,
           SameBut(d, new, rm \cup up), up \subseteq FilesOf(new),
           \A file \in rm \ up : file \notin FilesOf(new)
    PROVE  Agrees(h, new, Upserting(Removing(e, rm), up))
  <1> DEFINE after == Upserting(Removing(e, rm), up)
  <1>1. after.up = (e.up \ rm) \cup up /\ after.rm = (e.rm \cup rm) \ up
    BY DEF Upserting, Removing
  <1>2. ASSUME NEW file \in after.up PROVE file \in FilesOf(new)
    <2>1. CASE file \in up
      BY <2>1
    <2>2. CASE file \notin up
      <3>1. file \in e.up /\ file \notin rm \cup up
        BY <1>1, <2>2
      <3>2. file \in FilesOf(d)
        BY <3>1 DEF Agrees
      <3> QED
        BY <3>1, <3>2, SameFiles
    <2> QED
      BY <2>1, <2>2
  <1>3. ASSUME NEW file \in after.rm, file \in FilesOf(new) PROVE FALSE
    <2>1. CASE file \in rm
      BY <1>1, <1>3, <2>1
    <2>2. CASE file \notin rm
      <3>1. file \in e.rm /\ file \notin rm \cup up
        BY <1>1, <2>2
      <3>2. file \notin FilesOf(d)
        BY <3>1 DEF Agrees
      <3> QED
        BY <1>3, <3>1, <3>2, SameFiles
    <2> QED
      BY <2>1, <2>2
  <1>4. ASSUME NEW file, file \notin after.up \cup after.rm
        PROVE  file \notin e.up \cup e.rm /\ file \notin rm \cup up
    BY <1>1, <1>4
  <1> HIDE DEF after
  <1>5. \A c : Card(c.at) \notin after.up \cup after.rm => (c \in h.card <=> c \in new.card)
    <2>1. ASSUME NEW c, Card(c.at) \notin after.up \cup after.rm PROVE c \in h.card <=> c \in new.card
      <3>1. Card(c.at) \notin e.up \cup e.rm /\ Card(c.at) \notin rm \cup up
        BY <1>4, <2>1
      <3> QED
        BY <3>1 DEF Agrees, SameBut
    <2> QED
      BY <2>1
  <1>6. \A f : Eml(f[1], f[2]) \notin after.up \cup after.rm => (f \in h.eml <=> f \in new.eml)
    <2>1. ASSUME NEW f, Eml(f[1], f[2]) \notin after.up \cup after.rm PROVE f \in h.eml <=> f \in new.eml
      <3>1. Eml(f[1], f[2]) \notin e.up \cup e.rm /\ Eml(f[1], f[2]) \notin rm \cup up
        BY <1>4, <2>1
      <3> QED
        BY <3>1 DEF Agrees, SameBut
    <2> QED
      BY <2>1
  <1>7. \A f : Sidecar(f.at, f.msg) \notin after.up \cup after.rm => (f \in h.side <=> f \in new.side)
    <2>1. ASSUME NEW f, Sidecar(f.at, f.msg) \notin after.up \cup after.rm PROVE f \in h.side <=> f \in new.side
      <3>1. Sidecar(f.at, f.msg) \notin e.up \cup e.rm /\ Sidecar(f.at, f.msg) \notin rm \cup up
        BY <1>4, <2>1
      <3> QED
        BY <3>1 DEF Agrees, SameBut
    <2> QED
      BY <2>1
  <1>8. after.up \subseteq FilesOf(new) /\ after.rm \cap FilesOf(new) = {}
    BY <1>2, <1>3
  <1> QED
    BY <1>5, <1>6, <1>7, <1>8 DEF Agrees, after

\* Nothing removed, or nothing put.
LEMMA HalfAnEdit ==
    ASSUME NEW e \in Edits, NEW fs
    PROVE  /\ Upserting(e, fs) = Upserting(Removing(e, {}), fs)
           /\ Removing(e, fs) = Upserting(Removing(e, fs), {})
           /\ Upserting(Removing(e, {}), {}) = e
  <1>1. e = [up |-> e.up, rm |-> e.rm]
    BY DEF Edits
  <1>2. Removing(e, {}) = e
    BY <1>1 DEF Removing
  <1>3. Upserting(e, {}) = e
    BY <1>1 DEF Upserting
  <1>4. Removing(e, fs) = Upserting(Removing(e, fs), {})
    BY DEF Removing, Upserting
  <1> QED
    BY <1>2, <1>3, <1>4

\* The tree of the commit is the worktree.
LEMMA CommitIsCopy ==
    ASSUME Agrees(head, disk, edits)
    PROVE  /\ Buildable
           /\ BuiltTree.card = disk.card /\ BuiltTree.eml = disk.eml /\ BuiltTree.side = disk.side
           /\ Agrees(BuiltTree, disk, NoEdits)
  <1> DEFINE kept(file) == file \notin edits.up \cup edits.rm
             new(file) == file \in edits.up
  <1>1. Buildable
    BY DEF Buildable, Agrees
  <1>2. \A file \in FilesOf(disk) : new(file) \/ kept(file)
    BY DEF Agrees
  <1>3. /\ \A c \in disk.card : Card(c.at) \in FilesOf(disk)
        /\ \A f \in disk.eml : Eml(f[1], f[2]) \in FilesOf(disk)
        /\ \A f \in disk.side : Sidecar(f.at, f.msg) \in FilesOf(disk)
    BY DEF FilesOf
  <1>4. /\ BuiltTree.card = {c \in head.card : kept(Card(c.at))} \cup {c \in disk.card : new(Card(c.at))}
        /\ BuiltTree.eml = {f \in head.eml : kept(Eml(f[1], f[2]))} \cup
                           {f \in disk.eml : new(Eml(f[1], f[2]))}
        /\ BuiltTree.side = {f \in head.side : kept(Sidecar(f.at, f.msg))} \cup
                            {f \in disk.side : new(Sidecar(f.at, f.msg))}
    BY DEF BuiltTree
  <1>5. /\ \A c : kept(Card(c.at)) => (c \in head.card <=> c \in disk.card)
        /\ \A f : kept(Eml(f[1], f[2])) => (f \in head.eml <=> f \in disk.eml)
        /\ \A f : kept(Sidecar(f.at, f.msg)) => (f \in head.side <=> f \in disk.side)
    BY DEF Agrees
  <1> HIDE DEF kept, new
  <1>6. BuiltTree.card = disk.card
    BY <1>2, <1>3, <1>4, <1>5
  <1>7. BuiltTree.eml = disk.eml
    BY <1>2, <1>3, <1>4, <1>5
  <1>8. BuiltTree.side = disk.side
    BY <1>2, <1>3, <1>4, <1>5
  <1>9. Agrees(BuiltTree, disk, NoEdits)
    BY <1>6, <1>7, <1>8 DEF Agrees, NoEdits
  <1> QED
    BY <1>1, <1>6, <1>7, <1>8, <1>9

\* A card is one file, a message two.
LEMMA CardEdit ==
    ASSUME NEW d \in Worktree, NEW dir, NEW b, NEW info
    PROVE  /\ SameBut(d, PutCard(d, dir, b, info), {Card(dir)})
           /\ Card(dir) \in FilesOf(PutCard(d, dir, b, info))
  <1> DEFINE e == PutCard(d, dir, b, info)
             card == [at |-> dir, box |-> b, info |-> info]
  <1>1. e.card = (d.card \ CardAt(d, dir)) \cup {card} /\ e.eml = d.eml /\ e.side = d.side
    BY DEF PutCard, Worktree
  <1>2. \A c : Card(c.at) # Card(dir) => c.at # dir
    BY DEF Card
  <1>3. card.at = dir
    OBVIOUS
  <1> HIDE DEF e, card
  <1>4. \A c : Card(c.at) # Card(dir) => (c \in d.card <=> c \in e.card)
    BY <1>1, <1>2, <1>3 DEF CardAt
  <1>5. SameBut(d, e, {Card(dir)})
    BY <1>1, <1>4 DEF SameBut
  <1>6. Card(dir) \in FilesOf(e)
    BY <1>1, <1>3 DEF FilesOf
  <1> QED
    BY <1>5, <1>6 DEF e

\* The two files of a message.
LEMMA MailEdit ==
    ASSUME NEW d \in Worktree, NEW dir, NEW m, NEW in
    PROVE  /\ SameBut(d, PutMail(d, dir, m, in), Mail(dir, m))
           /\ Mail(dir, m) \subseteq FilesOf(PutMail(d, dir, m, in))
           /\ SameBut(d, PutSide(d, dir, m, in), {Sidecar(dir, m)})
           /\ Sidecar(dir, m) \in FilesOf(PutSide(d, dir, m, in))
           /\ SameBut(d, DropMail(d, dir, m), Mail(dir, m))
           /\ \A file \in Mail(dir, m) : file \notin FilesOf(DropMail(d, dir, m))
  <1> DEFINE side == [at |-> dir, msg |-> m, in |-> in]
             put == PutMail(d, dir, m, in)
             one == PutSide(d, dir, m, in)
             drop == DropMail(d, dir, m)
  <1>1. /\ one.card = d.card /\ one.eml = d.eml
        /\ one.side = (d.side \ SideAt(d, dir, m)) \cup {side}
        /\ put.card = d.card /\ put.eml = d.eml \cup {<<dir, m>>}
        /\ put.side = (d.side \ SideAt(d, dir, m)) \cup {side}
        /\ drop.card = d.card /\ drop.eml = d.eml \ {<<dir, m>>}
        /\ drop.side = d.side \ SideAt(d, dir, m)
    BY DEF PutSide, PutMail, DropMail, Worktree
  <1>2. side.at = dir /\ side.msg = m
    OBVIOUS
  <1>3. \A f : Sidecar(f.at, f.msg) = Sidecar(dir, m) <=> f.at = dir /\ f.msg = m
    BY DEF Sidecar
  <1>4. \A f \in d.eml : Eml(f[1], f[2]) = Eml(dir, m) <=> f = <<dir, m>>
    BY DEF Eml, Worktree, EmlFile
  <1>5. <<dir, m>>[1] = dir /\ <<dir, m>>[2] = m
    OBVIOUS
  <1>6. /\ \A p, q, n : Eml(p, n) # Sidecar(dir, m) /\ Eml(dir, m) # Sidecar(p, n)
        /\ \A p : Card(p) # Eml(dir, m) /\ Card(p) # Sidecar(dir, m)
    BY DEF Eml, Sidecar, Card
  <1> HIDE DEF side, put, one, drop
  <1>7. \A f : Sidecar(f.at, f.msg) # Sidecar(dir, m) =>
           /\ f \in d.side <=> f \in one.side
           /\ f \in d.side <=> f \in put.side
           /\ f \in d.side <=> f \in drop.side
    BY <1>1, <1>2, <1>3 DEF SideAt
  <1>8. \A f : Eml(f[1], f[2]) # Eml(dir, m) =>
           /\ f \in d.eml <=> f \in put.eml
           /\ f \in d.eml <=> f \in drop.eml
    <2>1. \A f : Eml(f[1], f[2]) # Eml(dir, m) => f # <<dir, m>>
      BY <1>5
    <2> QED
      BY <1>1, <2>1
  <1>9. SameBut(d, put, Mail(dir, m)) /\ SameBut(d, drop, Mail(dir, m))
    BY <1>1, <1>7, <1>8 DEF SameBut, Mail
  <1>10. SameBut(d, one, {Sidecar(dir, m)})
    BY <1>1, <1>7 DEF SameBut
  <1>11. Sidecar(dir, m) \in FilesOf(one) /\ Sidecar(dir, m) \in FilesOf(put)
    BY <1>1, <1>2 DEF FilesOf
  <1>12. Eml(dir, m) \in FilesOf(put)
    BY <1>1, <1>5 DEF FilesOf
  <1>13. Eml(dir, m) \notin FilesOf(drop)
    <2> SUFFICES ASSUME Eml(dir, m) \in FilesOf(drop) PROVE FALSE
      OBVIOUS
    <2>1. PICK f \in drop.eml : Eml(f[1], f[2]) = Eml(dir, m)
      BY <1>6 DEF FilesOf
    <2> QED
      BY <1>1, <1>4, <2>1
  <1>14. Sidecar(dir, m) \notin FilesOf(drop)
    <2> SUFFICES ASSUME Sidecar(dir, m) \in FilesOf(drop) PROVE FALSE
      OBVIOUS
    <2>1. PICK f \in drop.side : Sidecar(f.at, f.msg) = Sidecar(dir, m)
      BY <1>6 DEF FilesOf
    <2> QED
      BY <1>1, <1>3, <2>1 DEF SideAt
  <1> QED
    BY <1>9, <1>10, <1>11, <1>12, <1>13, <1>14 DEF Mail, put, one, drop

\* The files of a copy, and those at or below a directory of it.
LEMMA FilesOfCopy ==
    ASSUME NEW index \in Index, NEW d, IsCopy(d, index)
    PROVE  /\ \A p : Card(p) \in FilesOf(d) <=> \E b \in KnownIn(index.box) : index.box[b].dir = p
           /\ \A p, m : Eml(p, m) \in FilesOf(d) <=> m \in KnownMail(index) /\ index.mail[m].dir = p
           /\ \A p, m : Sidecar(p, m) \in FilesOf(d) <=> m \in KnownMail(index) /\ index.mail[m].dir = p
  <1>1. d.card = CardsOf(index) /\ d.eml = EmlsOf(index) /\ d.side = SidesOf(index)
    BY DEF IsCopy
  <1>2. /\ \A p, q : Card(p) = Card(q) <=> p = q
        /\ \A p, m, q, n : Eml(p, m) = Eml(q, n) <=> p = q /\ m = n
        /\ \A p, m, q, n : Sidecar(p, m) = Sidecar(q, n) <=> p = q /\ m = n
        /\ \A p, m, q, n : Eml(p, m) # Sidecar(q, n)
        /\ \A p, q, n : Card(p) # Eml(q, n) /\ Card(p) # Sidecar(q, n)
    BY DEF Card, Eml, Sidecar
  <1>3. /\ \A b : CardOf(index, b).at = index.box[b].dir
        /\ \A m : EmlOf(index, m)[1] = index.mail[m].dir /\ EmlOf(index, m)[2] = m
        /\ \A m : SideOf(index, m).at = index.mail[m].dir /\ SideOf(index, m).msg = m
    BY DEF CardOf, EmlOf, SideOf
  <1>4. FilesOf(d) = {Card(index.box[b].dir) : b \in KnownIn(index.box)} \cup
                     {Eml(index.mail[m].dir, m) : m \in KnownMail(index)} \cup
                     {Sidecar(index.mail[m].dir, m) : m \in KnownMail(index)}
    <2>1. {Card(c.at) : c \in d.card} = {Card(index.box[b].dir) : b \in KnownIn(index.box)}
      BY <1>1, <1>3 DEF CardsOf
    <2>2. {Eml(f[1], f[2]) : f \in d.eml} = {Eml(index.mail[m].dir, m) : m \in KnownMail(index)}
      BY <1>1, <1>3 DEF EmlsOf
    <2>3. {Sidecar(f.at, f.msg) : f \in d.side} = {Sidecar(index.mail[m].dir, m) : m \in KnownMail(index)}
      BY <1>1, <1>3 DEF SidesOf
    <2> QED
      BY <2>1, <2>2, <2>3 DEF FilesOf
  <1>5. ASSUME NEW p
        PROVE  Card(p) \in FilesOf(d) <=> \E b \in KnownIn(index.box) : index.box[b].dir = p
    BY <1>2, <1>4
  <1>6. ASSUME NEW p, NEW m
        PROVE  Eml(p, m) \in FilesOf(d) <=> m \in KnownMail(index) /\ index.mail[m].dir = p
    <2>1. Eml(p, m) \in FilesOf(d) <=>
             \E n \in KnownMail(index) : Eml(p, m) = Eml(index.mail[n].dir, n)
      BY <1>2, <1>4
    <2> QED
      BY <1>2, <2>1
  <1>7. ASSUME NEW p, NEW m
        PROVE  Sidecar(p, m) \in FilesOf(d) <=> m \in KnownMail(index) /\ index.mail[m].dir = p
    <2>1. Sidecar(p, m) \in FilesOf(d) <=>
             \E n \in KnownMail(index) : Sidecar(p, m) = Sidecar(index.mail[n].dir, n)
      BY <1>2, <1>4
    <2> QED
      BY <1>2, <2>1
  <1> QED
    BY <1>5, <1>6, <1>7

\* The files of the index at or below a directory.
LEMMA FilesBelow ==
    ASSUME NEW index \in Index, NEW dir \in Path
    PROVE  /\ \A p : Card(p) \in FilesUnder(index, dir) <=>
                        /\ \E b \in KnownIn(index.box) : index.box[b].dir = p
                        /\ IsPrefix(dir, p)
           /\ \A p, m : Eml(p, m) \in FilesUnder(index, dir) <=>
                           m \in KnownMail(index) /\ index.mail[m].dir = p /\ IsPrefix(dir, p)
           /\ \A p, m : Sidecar(p, m) \in FilesUnder(index, dir) <=>
                           m \in KnownMail(index) /\ index.mail[m].dir = p /\ IsPrefix(dir, p)
           /\ \A file \in FilesUnder(index, dir) :
                 \/ \E p : file = Card(p)
                 \/ \E p, m : file \in {Eml(p, m), Sidecar(p, m)}
  <1> DEFINE under(p) == p = dir \/ Above(dir, p)
             B == {b \in KnownIn(index.box) : under(index.box[b].dir)}
             M == {m \in Msg : index.mail[m] # None /\ under(index.mail[m].dir)}
  <1>1. \A b \in KnownIn(index.box) : under(index.box[b].dir) <=> IsPrefix(dir, index.box[b].dir)
    BY IndexEntries, AboveIsPrefix
  <1>2. \A m \in KnownMail(index) : under(index.mail[m].dir) <=> IsPrefix(dir, index.mail[m].dir)
    BY IndexEntries, AboveIsPrefix DEF KnownMail
  <1>3. FilesUnder(index, dir) = {Card(index.box[b].dir) : b \in B} \cup
                                 UNION {Mail(index.mail[m].dir, m) : m \in M}
    BY DEF FilesUnder
  <1>4. /\ \A b : b \in B <=> b \in KnownIn(index.box) /\ IsPrefix(dir, index.box[b].dir)
        /\ \A m : m \in M <=> m \in KnownMail(index) /\ IsPrefix(dir, index.mail[m].dir)
    BY <1>1, <1>2 DEF KnownMail
  <1> HIDE DEF B, M
  <1>5. UNION {Mail(index.mail[m].dir, m) : m \in M} =
           {Eml(index.mail[m].dir, m) : m \in M} \cup {Sidecar(index.mail[m].dir, m) : m \in M}
    BY DEF Mail
  <1>6. /\ \A p, q : Card(p) = Card(q) <=> p = q
        /\ \A p, m, q, n : Eml(p, m) = Eml(q, n) <=> p = q /\ m = n
        /\ \A p, m, q, n : Sidecar(p, m) = Sidecar(q, n) <=> p = q /\ m = n
        /\ \A p, m, q, n : Eml(p, m) # Sidecar(q, n)
        /\ \A p, q, n : Card(p) # Eml(q, n) /\ Card(p) # Sidecar(q, n)
    BY DEF Card, Eml, Sidecar
  <1>7. \A p : Card(p) \in FilesUnder(index, dir) <=> \E b \in B : index.box[b].dir = p
    BY <1>3, <1>5, <1>6
  <1>8. ASSUME NEW p, NEW m
        PROVE  Eml(p, m) \in FilesUnder(index, dir) <=> m \in M /\ index.mail[m].dir = p
    <2>1. Eml(p, m) \in FilesUnder(index, dir) <=> \E n \in M : Eml(p, m) = Eml(index.mail[n].dir, n)
      BY <1>3, <1>5, <1>6
    <2> QED
      BY <1>6, <2>1
  <1>9. ASSUME NEW p, NEW m
        PROVE  Sidecar(p, m) \in FilesUnder(index, dir) <=> m \in M /\ index.mail[m].dir = p
    <2>1. Sidecar(p, m) \in FilesUnder(index, dir) <=> \E n \in M : Sidecar(p, m) = Sidecar(index.mail[n].dir, n)
      BY <1>3, <1>5, <1>6
    <2> QED
      BY <1>6, <2>1
  <1>10. \A file \in FilesUnder(index, dir) :
            (\E p : file = Card(p)) \/ (\E p, m : file \in {Eml(p, m), Sidecar(p, m)})
    BY <1>3, <1>5
  <1> QED
    BY <1>4, <1>7, <1>8, <1>9, <1>10

\* A rename of a directory takes the files below it, and puts them.
LEMMA RenameEdit ==
    ASSUME NEW d \in Worktree, ix \in Index, IsCopy(d, ix), NEW from \in Path, NEW to \in Path,
           from \in d.dirs
    PROVE  LET new == IndexRebased(from, to)
               e == DirRenamed(d, from, to) IN
           /\ SameBut(d, e, FilesUnder(ix, from) \cup FilesUnder(new, to))
           /\ FilesUnder(new, to) \subseteq FilesOf(e)
           /\ \A file \in FilesUnder(ix, from) \ FilesUnder(new, to) : file \notin FilesOf(e)
  <1> DEFINE new == IndexRebased(from, to)
             e == DirRenamed(d, from, to)
             moved(p) == Rebased(p, from, to)
             R == FilesUnder(ix, from)
             U == FilesUnder(new, to)
  <1>1. /\ new \in Index /\ KnownIn(new.box) = KnownIn(ix.box) /\ KnownMail(new) = KnownMail(ix)
        /\ \A b \in KnownIn(ix.box) : new.box[b].dir = moved(ix.box[b].dir) /\ CardOf(new, b).info = CardOf(ix, b).info
        /\ \A m \in KnownMail(ix) : new.mail[m].dir = moved(ix.mail[m].dir) /\ SideOf(new, m).in = SideOf(ix, m).in
    <2>1. /\ new \in Index /\ KnownIn(new.box) = KnownIn(ix.box)
          /\ \A m \in Msg : new.mail[m] = None <=> ix.mail[m] = None
      BY IndexRebasedTyped
    <2>2. ASSUME NEW b \in KnownIn(ix.box)
          PROVE  new.box[b].dir = moved(ix.box[b].dir) /\ new.box[b].info = ix.box[b].info
      <3>1. new.box[b] = [info |-> ix.box[b].info, dir |-> Rebased(ix.box[b].dir, from, to)]
        BY IndexRebasedTyped DEF KnownIn
      <3> QED
        BY <3>1
    <2>3. ASSUME NEW m \in KnownMail(ix)
          PROVE  new.mail[m].dir = moved(ix.mail[m].dir) /\ new.mail[m].in = ix.mail[m].in
      <3>1. new.mail[m] = [in |-> ix.mail[m].in, dir |-> Rebased(ix.mail[m].dir, from, to)]
        BY IndexRebasedTyped DEF KnownMail
      <3> QED
        BY <3>1
    <2> HIDE DEF new, moved
    <2> QED
      BY <2>1, <2>2, <2>3 DEF KnownMail, CardOf, SideOf
  <1>2. /\ \A b \in KnownIn(ix.box) : ix.box[b].dir \in Path
        /\ \A m \in KnownMail(ix) : ix.mail[m].dir \in Path
    BY IndexEntries DEF KnownMail
  <1>3. \A p \in Path : /\ IsPrefix(from, p) => IsPrefix(to, moved(p))
                        /\ ~IsPrefix(from, p) => moved(p) = p
    BY RebasedElements
  <1>4. IsCopy(e, new)
    BY RenameCopied
  <1>5. /\ e.card = CardsOf(new) /\ e.eml = EmlsOf(new) /\ e.side = SidesOf(new)
        /\ d.card = CardsOf(ix) /\ d.eml = EmlsOf(ix) /\ d.side = SidesOf(ix)
    BY <1>4 DEF IsCopy
  <1> HIDE DEF new, moved, e
  <1>6. /\ \A p : Card(p) \in R <=> (\E b \in KnownIn(ix.box) : ix.box[b].dir = p) /\ IsPrefix(from, p)
        /\ \A p, m : Eml(p, m) \in R <=> m \in KnownMail(ix) /\ ix.mail[m].dir = p /\ IsPrefix(from, p)
        /\ \A p, m : Sidecar(p, m) \in R <=> m \in KnownMail(ix) /\ ix.mail[m].dir = p /\ IsPrefix(from, p)
        /\ \A file \in R : (\E p : file = Card(p)) \/ (\E p, m : file \in {Eml(p, m), Sidecar(p, m)})
    BY FilesBelow
  <1>7. /\ \A p : Card(p) \in U <=> (\E b \in KnownIn(new.box) : new.box[b].dir = p) /\ IsPrefix(to, p)
        /\ \A p, m : Eml(p, m) \in U <=> m \in KnownMail(new) /\ new.mail[m].dir = p /\ IsPrefix(to, p)
        /\ \A p, m : Sidecar(p, m) \in U <=> m \in KnownMail(new) /\ new.mail[m].dir = p /\ IsPrefix(to, p)
        /\ \A file \in U : (\E p : file = Card(p)) \/ (\E p, m : file \in {Eml(p, m), Sidecar(p, m)})
    BY <1>1, FilesBelow
  <1>8. /\ \A p : Card(p) \in FilesOf(e) <=> \E b \in KnownIn(new.box) : new.box[b].dir = p
        /\ \A p, m : Eml(p, m) \in FilesOf(e) <=> m \in KnownMail(new) /\ new.mail[m].dir = p
        /\ \A p, m : Sidecar(p, m) \in FilesOf(e) <=> m \in KnownMail(new) /\ new.mail[m].dir = p
    BY <1>1, <1>4, FilesOfCopy
  <1> HIDE DEF R, U
  <1>9. U \subseteq FilesOf(e)
    BY <1>7, <1>8
  <1>10. ASSUME NEW file \in R \ U, file \in FilesOf(e) PROVE FALSE
    <2>1. ASSUME NEW p, file = Card(p) PROVE FALSE
      <3>1. IsPrefix(from, p)
        BY <1>6, <2>1
      <3>2. PICK b \in KnownIn(ix.box) : new.box[b].dir = p
        BY <1>1, <1>8, <1>10, <2>1
      <3>3. ~IsPrefix(to, p)
        BY <1>1, <1>7, <1>10, <2>1, <3>2
      <3> QED
        BY <1>1, <1>2, <1>3, <3>1, <3>2, <3>3
    <2>2. ASSUME NEW p, NEW m, file \in {Eml(p, m), Sidecar(p, m)} PROVE FALSE
      <3>1. IsPrefix(from, p) /\ m \in KnownMail(ix)
        BY <1>6, <2>2
      <3>2. new.mail[m].dir = p
        BY <1>8, <1>10, <2>2
      <3>3. ~IsPrefix(to, p)
        BY <1>1, <1>7, <1>10, <2>2, <3>1, <3>2
      <3> QED
        BY <1>1, <1>2, <1>3, <3>1, <3>2, <3>3
    <2> QED
      BY <1>6, <2>1, <2>2
  <1>11. ASSUME NEW c, Card(c.at) \notin R \cup U PROVE c \in d.card <=> c \in e.card
    <2>1. ASSUME NEW b \in KnownIn(ix.box), c = CardOf(ix, b) \/ c = CardOf(new, b)
          PROVE  CardOf(ix, b) = CardOf(new, b)
      <3>1. /\ CardOf(ix, b).at = ix.box[b].dir /\ CardOf(new, b).at = moved(ix.box[b].dir)
            /\ new.box[b].dir = moved(ix.box[b].dir)
        BY <1>1 DEF CardOf
      <3>2. ~IsPrefix(from, ix.box[b].dir)
        <4>1. CASE c = CardOf(ix, b)
          BY <1>6, <1>11, <3>1, <4>1
        <4>2. CASE c = CardOf(new, b)
          BY <1>1, <1>2, <1>3, <1>7, <1>11, <3>1, <4>2
        <4> QED
          BY <2>1, <4>1, <4>2
      <3>3. new.box[b].dir = ix.box[b].dir
        BY <1>2, <1>3, <3>1, <3>2
      <3>4. new.box[b].info = ix.box[b].info
        BY <1>1 DEF CardOf
      <3> QED
        BY <3>3, <3>4 DEF CardOf
    <2> QED
      BY <1>1, <1>5, <2>1 DEF CardsOf
  <1>12. ASSUME NEW m \in KnownMail(ix),
                ~IsPrefix(from, ix.mail[m].dir) \/ ~IsPrefix(to, new.mail[m].dir)
         PROVE  new.mail[m].dir = ix.mail[m].dir
    BY <1>1, <1>2, <1>3, <1>12
  <1>13. ASSUME NEW f, Eml(f[1], f[2]) \notin R \cup U PROVE f \in d.eml <=> f \in e.eml
    <2>1. ASSUME NEW m \in KnownMail(ix), f = EmlOf(ix, m) \/ f = EmlOf(new, m)
          PROVE  EmlOf(ix, m) = EmlOf(new, m)
      <3>1. ~IsPrefix(from, ix.mail[m].dir) \/ ~IsPrefix(to, new.mail[m].dir)
        <4>1. CASE f = EmlOf(ix, m)
          BY <1>6, <1>13, <4>1 DEF EmlOf
        <4>2. CASE f = EmlOf(new, m)
          BY <1>1, <1>7, <1>13, <4>2 DEF EmlOf
        <4> QED
          BY <2>1, <4>1, <4>2
      <3> QED
        BY <1>12, <3>1 DEF EmlOf
    <2> QED
      BY <1>1, <1>5, <2>1 DEF EmlsOf
  <1>14. ASSUME NEW f, Sidecar(f.at, f.msg) \notin R \cup U PROVE f \in d.side <=> f \in e.side
    <2>1. ASSUME NEW m \in KnownMail(ix), f = SideOf(ix, m) \/ f = SideOf(new, m)
          PROVE  SideOf(ix, m) = SideOf(new, m)
      <3>1. ~IsPrefix(from, ix.mail[m].dir) \/ ~IsPrefix(to, new.mail[m].dir)
        <4>1. CASE f = SideOf(ix, m)
          BY <1>6, <1>14, <4>1 DEF SideOf
        <4>2. CASE f = SideOf(new, m)
          BY <1>1, <1>7, <1>14, <4>2 DEF SideOf
        <4> QED
          BY <2>1, <4>1, <4>2
      <3>2. new.mail[m].dir = ix.mail[m].dir
        BY <1>12, <3>1
      <3>3. new.mail[m].in = ix.mail[m].in
        BY <1>1 DEF SideOf
      <3> QED
        BY <3>2, <3>3 DEF SideOf
    <2> QED
      BY <1>1, <1>5, <2>1 DEF SidesOf
  <1>15. SameBut(d, e, R \cup U)
    BY <1>11, <1>13, <1>14 DEF SameBut
  <1> QED
    BY <1>9, <1>10, <1>15 DEF R, U, new, e

-----------------------------------------------------------------------------
(* The worktree under an index whose mailboxes are placed.                  *)

\* Nothing is above the directory of unfiled mail.
LEMMA UnfiledIsTop ==
    /\ Unfiled \in Path /\ Len(Unfiled) = 1 /\ Unfiled # <<>>
    /\ \A p \in Path : p # <<>> /\ IsPrefix(p, Unfiled) => p = Unfiled
  <1>1. Unfiled \in Path /\ Len(Unfiled) = 1 /\ Unfiled # <<>>
    BY DirForPath, EmptyIndexPlaced
  <1>2. ASSUME NEW p \in Path, p # <<>>, IsPrefix(p, Unfiled) PROVE p = Unfiled
    <2>1. Above(p, Unfiled) => Len(p) < 1
      BY <1>1, AboveIsPrefix
    <2>2. Len(p) \in Nat /\ Len(p) # 0
      BY <1>2, PathElements
    <2>3. ~Above(p, Unfiled)
      BY <2>1, <2>2
    <2> QED
      BY <1>1, <1>2, <2>3, AboveIsPrefix
  <1> QED
    BY <1>1, <1>2

\* What is above a mailbox's directory, or unfiled mail's, is a home.
LEMMA HomesAbove ==
    ASSUME NEW index \in Index, NEW f, NestedAs(index, f), NEW p \in Homes(index)
    PROVE  p \in Path /\ p # <<>> /\ Ancestors(p) \subseteq Homes(index)
  <1>1. Unfiled \in Path /\ Unfiled # <<>>
    BY UnfiledIsTop
  <1>2. CASE p = Unfiled
    <2>1. ASSUME NEW q \in Ancestors(p) PROVE q = Unfiled
      <3>1. q \in Path /\ q # <<>> /\ IsPrefix(q, Unfiled)
        BY <1>1, <1>2, AncestorsArePrefixes
      <3> QED
        BY <3>1, UnfiledIsTop
    <2> QED
      BY <1>1, <1>2, <2>1 DEF Homes
  <1>3. ASSUME NEW b \in KnownIn(index.box), p = index.box[b].dir
        PROVE  p \in Path /\ p # <<>> /\ Ancestors(p) \subseteq Homes(index)
    <2>1. p \in Path /\ p # <<>>
      BY <1>3, IndexEntries DEF NestedAs
    <2>2. ASSUME NEW q \in Ancestors(p) PROVE q \in Homes(index)
      <3>1. q \in Path /\ q # <<>> /\ IsPrefix(q, p)
        BY <2>1, AncestorsArePrefixes
      <3>2. \E c \in KnownIn(index.box) : index.box[c].dir = q
        BY <1>3, <3>1, PrefixIsDir
      <3> QED
        BY <3>2 DEF Homes
    <2> QED
      BY <2>1, <2>2
  <1> QED
    BY <1>2, <1>3 DEF Homes

\* The directory that is made for a new mailbox is the one its name gives it.
LEMMA NewDirIsMoved ==
    ASSUME NEW b, AtTurn(b), NEW f, WellPlaced(ix, f), IsCopy(disk, ix), b \notin KnownIn(ix.box)
    PROVE  NewDir(b) = MovedDir(b)
  <1> DEFINE prefix == ParentDir(listed[b])
             dir(taken) == Append(prefix, Assigned(b, listed[b].name, taken))
             first == dir(Taken(b, prefix))
  <1>1. MovedDir(b) = first
    BY DEF MovedDir
  <1>2. CardAt(disk, first) = {}
    <2> SUFFICES ASSUME NEW c \in disk.card, c.at = first PROVE FALSE
      BY DEF CardAt
    <2>1. PICK a \in KnownIn(ix.box) : ix.box[a].dir = first
      BY DEF IsCopy, CardsOf, CardOf
    <2>2. ~IsPrefix(first, ix.box[a].dir)
      BY <1>1, DirIsFree
    <2>3. ix.box[a].dir \in Path
      BY IndexEntries DEF AtTurn
    <2> QED
      BY <2>1, <2>2, <2>3, PrefixOrder
  <1>3. NewDir(b) = IF \E c \in CardAt(disk, first) : c.box # b
                    THEN dir(Taken(b, prefix) \cup {Fold(Last(first))}) ELSE first
    BY DEF NewDir
  <1> HIDE DEF first, dir
  <1> QED
    BY <1>1, <1>2, <1>3

\* A mailbox that moves finds its directory there and the new one free.
LEMMA RenameWorks ==
    ASSUME NEW b, AtTurn(b), WellPlaced(ix, InfoOf(ix)), b \in KnownIn(ix.box),
           MovedDir(b) # ix.box[b].dir, disk \in Worktree,
           IsCopy(disk, ix), HasHomes(disk, ix, {}), Filed(ix)
    PROVE  ix.box[b].dir \in disk.dirs /\ Renames(ix.box[b].dir, MovedDir(b))
  <1> DEFINE from == ix.box[b].dir
             to == MovedDir(b)
  <1>1. from \in disk.dirs /\ from \in Path
    BY IndexEntries DEF HasHomes, AtTurn
  <1>2. /\ to \in Path /\ to # <<>> /\ Front(to) = ParentDir(listed[b])
        /\ Front(to) = <<>> => Fold(Last(to)) # Fold(Unfiled[1])
    BY NameIsFree DEF WellPlaced
  <1>3. \A c \in KnownIn(ix.box) : ~IsPrefix(to, ix.box[c].dir)
    BY DirIsFree
  <1>4. ~IsPrefix(from, Front(to))
    BY <1>2, NotIntoItself
  <1>5. ~Above(from, to)
    BY <1>1, <1>2, <1>4, PrefixOfFront
  <1>6. ~IsPrefix(to, Unfiled)
    <2> SUFFICES ASSUME IsPrefix(to, Unfiled) PROVE FALSE
      OBVIOUS
    <2>1. Unfiled \in Path /\ Len(Unfiled) = 1 /\ Unfiled # <<>>
      BY UnfiledIsTop
    <2>4. to = Unfiled
      BY <1>2, UnfiledIsTop
    <2>5. Last(Unfiled) = Unfiled[1] /\ Front(Unfiled) \in Path /\ Len(Front(Unfiled)) = 0
      BY <2>1, FrontOfPath
    <2>6. Front(Unfiled) = <<>>
      BY <2>5, PathElements
    <2> QED
      BY <1>2, <2>4, <2>5, <2>6
  <1>7. \A p \in Homes(ix) : p \in Path /\ ~IsPrefix(to, p)
    BY <1>3, <1>6, IndexEntries, UnfiledIsTop DEF Homes, AtTurn
  <1>8. \A q \in disk.dirs : ~Above(to, q)
    BY <1>2, <1>7, AboveIsPrefix DEF HasHomes
  <1>9. to \notin Homes(ix)
    BY <1>2, <1>7, PrefixOrder
  <1>10. \A c \in disk.card : c.at \in Homes(ix)
    BY DEF IsCopy, CardsOf, CardOf, Homes
  <1>11. \A m \in KnownMail(ix) : ix.mail[m].dir \in Homes(ix)
    BY DEF Filed, Homes
  <1>12. /\ \A f \in disk.side : f.at \in Homes(ix)
         /\ \A f \in disk.eml : f[1] \in Homes(ix)
    BY <1>11 DEF IsCopy, SidesOf, SideOf, EmlsOf, EmlOf
  <1>13. ~Occupied(disk, to)
    BY <1>8, <1>9, <1>10, <1>12 DEF Occupied
  <1> QED
    BY <1>1, <1>5, <1>13 DEF Renames

\* The homes move along.
LEMMA RenameHomes ==
    ASSUME NEW b, AtTurn(b), WellPlaced(ix, InfoOf(ix)), b \in KnownIn(ix.box),
           MovedDir(b) # ix.box[b].dir, ix.box[b].dir \in disk.dirs, disk \in Worktree,
           NEW new, new = IndexRebased(ix.box[b].dir, MovedDir(b)), NEW f, NestedAs(new, f),
           HasHomes(disk, ix, {}), Filed(ix)
    PROVE  /\ HasHomes(DirRenamed(disk, ix.box[b].dir, MovedDir(b)), new, {})
           /\ Filed(new)
  <1> DEFINE from == ix.box[b].dir
             to == MovedDir(b)
             moved(p) == Rebased(p, from, to)
             e == DirRenamed(disk, from, to)
  <1>1. ix \in Index /\ from \in Path /\ to \in Path /\ from # <<>>
    BY IndexEntries, NameIsFree DEF AtTurn, WellPlaced, NestedAs
  <1>2. /\ new \in Index /\ KnownIn(new.box) = KnownIn(ix.box) /\ KnownMail(new) = KnownMail(ix)
        /\ \A c \in Box : new.box[c] = IF ix.box[c] = None THEN None
                             ELSE [info |-> ix.box[c].info, dir |-> moved(ix.box[c].dir)]
        /\ \A m \in Msg : new.mail[m] = IF ix.mail[m] = None THEN None
                             ELSE [in |-> ix.mail[m].in, dir |-> moved(ix.mail[m].dir)]
    BY <1>1, IndexRebasedTyped DEF KnownMail
  <1>3. ASSUME NEW c \in KnownIn(ix.box) PROVE new.box[c].dir = moved(ix.box[c].dir)
    <2>1. new.box[c] = [info |-> ix.box[c].info, dir |-> moved(ix.box[c].dir)]
      BY <1>2 DEF KnownIn
    <2> QED
      BY <2>1
  <1>4. ASSUME NEW m \in KnownMail(ix)
        PROVE  new.mail[m].dir = moved(ix.mail[m].dir) /\ new.mail[m].in = ix.mail[m].in
    <2>1. new.mail[m] = [in |-> ix.mail[m].in, dir |-> moved(ix.mail[m].dir)]
      BY <1>2 DEF KnownMail
    <2> QED
      BY <2>1
  <1>5. moved(Unfiled) = Unfiled
    <2>1. Unfiled \in Path /\ from # Unfiled
      BY <1>1, UnfiledIsTop, WellPlacedApart
    <2>2. ~IsPrefix(from, Unfiled)
      BY <1>1, <2>1, UnfiledIsTop
    <2> QED
      BY <1>1, <2>1, <2>2, RebasedElements
  <1>6. e.dirs = {moved(p) : p \in disk.dirs} \cup Ancestors(to)
    BY DEF DirRenamed
  <1>7. moved(from) = to
    BY <1>1, RebasedElements
  <1> HIDE DEF moved, e
  <1>8. to \in Homes(new)
    BY <1>2, <1>3, <1>7 DEF Homes
  <1>9. Ancestors(to) \subseteq Homes(new)
    BY <1>2, <1>8, HomesAbove
  <1>10. \A p \in Homes(ix) : moved(p) \in Homes(new)
    BY <1>2, <1>3, <1>5 DEF Homes
  <1>11. e.dirs \subseteq Homes(new)
    BY <1>6, <1>9, <1>10 DEF HasHomes
  <1>12. \A c \in KnownIn(new.box) : new.box[c].dir \in e.dirs
    BY <1>2, <1>3, <1>6 DEF HasHomes
  <1>13. ASSUME NEW m \in KnownMail(new)
         PROVE  \/ new.mail[m].dir = Unfiled
                \/ \E c \in new.mail[m].in \cap KnownIn(new.box) : new.mail[m].dir = new.box[c].dir
    <2>1. m \in KnownMail(ix)
      BY <1>2
    <2>2. CASE ix.mail[m].dir = Unfiled
      BY <1>4, <1>5, <2>1, <2>2
    <2>3. ASSUME NEW c \in ix.mail[m].in \cap KnownIn(ix.box), ix.mail[m].dir = ix.box[c].dir
          PROVE  new.mail[m].dir = new.box[c].dir /\ c \in new.mail[m].in \cap KnownIn(new.box)
      BY <1>2, <1>3, <1>4, <2>1, <2>3
    <2> QED
      BY <2>1, <2>2, <2>3 DEF Filed
  <1> QED
    BY <1>11, <1>12, <1>13 DEF HasHomes, Filed, e

-----------------------------------------------------------------------------
(* The worktree is a copy of the index.                                     *)

\* The index the next pass opens.
Opened == IF saved = None THEN EmptyIndex ELSE saved.index
\* The directory that has been made for a mailbox which is not in the index yet.
Made == {MovedDir(b) : b \in {b \in Box : pc = "card" /\ Turn(b) /\ ix.box[b] = None}}

\* Files, directories and index agree, but for the directory just made.
Stored(index, made) == IsCopy(disk, index) /\ HasHomes(disk, index, made) /\ Filed(index)

\* Nothing a pass is going to add is held, and in a calm store the worktree is
\* a copy of the index, and of HEAD but for the edits recorded.
DiskInv ==
    /\ pc \in {"list", "plan", "upsert", "card", "mail"} => \A m \in plan.add : ix.mail[m] = None
    /\ calm =>
         /\ done \in {"sync", "refresh"} => saved # None
         /\ pc = "idle" => Stored(Opened, {})
         /\ pc # "idle" => Stored(ix, Made)
         /\ git => Agrees(head, disk, edits)
         /\ git /\ pc = "save" => edits = NoEdits
         /\ pc = "list" \/ (pc = "plan" /\ stage = "sync") => ix = Opened

HeldInv == IndexInv /\ DiskInv

\* Nothing has been made when no card is about to be written.
LEMMA NothingMade ==
    pc # "card" => Made = {}
    BY DEF Made

\* The empty index holds nothing.
LEMMA NothingHeld ==
    CardsOf(EmptyIndex) = {} /\ EmlsOf(EmptyIndex) = {} /\ SidesOf(EmptyIndex) = {}
    BY DEF EmptyIndex, KnownIn, KnownMail, CardsOf, EmlsOf, SidesOf

\* The first state.
LEMMA InitHeld ==
    ASSUME Init, IndexInv
    PROVE  HeldInv
  <1>1. saved = None /\ pc = "idle" /\ plan = NoPlan /\ done = "none"
    BY DEF Init
  <1>2. disk = EmptyDisk /\ head = EmptyTree /\ edits = NoEdits
    BY DEF Init
  <1>3. KnownIn(EmptyIndex.box) = {} /\ KnownMail(EmptyIndex) = {}
    BY DEF EmptyIndex, KnownIn, KnownMail
  <1>4. Stored(Opened, {})
    <2>1. Opened = EmptyIndex
      BY <1>1 DEF Opened
    <2>2. CardsOf(EmptyIndex) = {} /\ EmlsOf(EmptyIndex) = {} /\ SidesOf(EmptyIndex) = {}
      BY <1>3 DEF CardsOf, EmlsOf, SidesOf
    <2> QED
      BY <1>2, <1>3, <2>1, <2>2 DEF Stored, IsCopy, HasHomes, Filed, EmptyDisk
  <1>5. Agrees(head, disk, edits)
    BY <1>2 DEF Agrees, NoEdits, EmptyDisk, EmptyTree
  <1> QED
    BY <1>1, <1>4, <1>5 DEF HeldInv, DiskInv

\* What the next pass opens is what was saved, and nothing before that.
LEMMA OpenIndexHeld ==
    ASSUME HeldInv, calm, pc = "idle"
    PROVE  OpenIndex = {Opened} /\ IndexAtHand = {Opened} /\ WellPlaced(Opened, InfoOf(Opened))
  <1>1. IndexInv /\ Stored(Opened, {})
    BY DEF HeldInv, DiskInv
  <1>2. OpenIndex = {Opened}
    <2>1. CASE saved = None /\ ~git
      <3>1. disk.card = {} /\ disk.side = {}
        BY <1>1, <2>1, NothingHeld DEF Opened, Stored, IsCopy
      <3> QED
        BY <2>1, <3>1, RebuiltEmpty DEF OpenIndex, Opened
    <2> QED
      BY <1>1, <2>1, OpenIndexPlaced DEF Opened
  <1> QED
    BY <1>1, <1>2, OpenIndexPlaced

\* The account is not the store.
LEMMA RestHeld ==
    ASSUME HeldInv, IndexInv',
           UNCHANGED <<git, durable, process, pc, todo, stage, listed, plan, done>>, calm' => calm
    PROVE  HeldInv'
  <1>1. UNCHANGED <<disk, head, saved, ix, edits>>
    BY DEF durable, process
  <1>2. Made' = Made /\ Opened' = Opened
    <2>1. \A b \in Box : (Turn(b)' <=> Turn(b)) /\ MovedDir(b)' = MovedDir(b)
      BY <1>1 DEF Turn, Before, Waits, Line, KnownIn, MovedDir, ParentDir, Assigned, Taken
    <2> QED
      BY <1>1, <2>1 DEF Made, Opened
  <1>3. \A index, made : Stored(index, made)' <=> Stored(index, made)
    BY <1>1 DEF Stored
  <1>4. DiskInv
    BY DEF HeldInv
  <1>5. calm' => /\ done' \in {"sync", "refresh"} => saved' # None
                 /\ pc' = "idle" => Stored(Opened, {})'
                 /\ pc' # "idle" => Stored(ix, Made)'
    BY <1>1, <1>2, <1>3, <1>4 DEF DiskInv, Stored
  <1> QED
    BY <1>1, <1>2, <1>4, <1>5 DEF HeldInv, DiskInv

\* The start of a pass, and its plans.
LEMMA PlanningHeld ==
    ASSUME HeldInv, IndexInv',
           \/ \E kind \in {"sync", "refresh"} : Begin(kind)
           \/ ListMailboxes \/ PlanSync \/ PlanAll \/ UpsertsDone
    PROVE  HeldInv'
  <1>1. IndexInv /\ DiskInv /\ TypeInv /\ OpeningInv
    BY DEF HeldInv, IndexInv
  <1>2. UNCHANGED <<git, disk, head, saved, edits>> /\ (calm' => calm)
    <2>1. CASE \E kind \in {"sync", "refresh"} : Begin(kind)
      BY <2>1 DEF Begin, durable
    <2>2. CASE ListMailboxes \/ PlanSync \/ UpsertsDone
      BY <2>2 DEF ListMailboxes, PlanSync, UpsertsDone, account, durable, process
    <2>3. CASE PlanAll
      BY <2>3 DEF PlanAll, durable, process
    <2> QED
      BY <2>1, <2>2, <2>3
  <1>3. Opened' = Opened
    BY <1>2 DEF Opened
  <1>4. CASE \E kind \in {"sync", "refresh"} : Begin(kind)
    <2>1. pc = "idle" /\ pc' \in {"plan", "list"} /\ ix' \in IndexAtHand /\ done' = "none" /\ plan' = plan
      BY <1>4 DEF Begin
    <2>2. plan.add = {}
      BY <1>1, <2>1 DEF TypeInv, PassTyped, NoPlan
    <2>3. ASSUME calm PROVE ix' = Opened
      BY <2>1, <2>3, OpenIndexHeld
    <2>4. Made' = {}
      BY <2>1 DEF Made
    <2>5. ASSUME calm PROVE Stored(ix, Made)'
      BY <1>1, <1>2, <2>1, <2>3, <2>4, <2>5 DEF DiskInv, Stored
    <2> QED
      BY <1>1, <1>2, <1>3, <2>1, <2>2, <2>3, <2>5 DEF HeldInv, DiskInv
  <1>5. ASSUME pc \in {"list", "plan", "upsert"}, pc' \in {"plan", "upsert", "mail"}, UNCHANGED <<ix, stage, done>>,
               \A m \in plan'.add : ix.mail[m] = None,
               pc' = "plan" /\ stage = "sync" => pc = "list"
        PROVE  HeldInv'
    <2>1. Made = {} /\ Made' = {}
      BY <1>5 DEF Made
    <2>2. ASSUME calm PROVE Stored(ix, Made)'
      BY <1>1, <1>2, <1>5, <2>1, <2>2 DEF DiskInv, Stored
    <2>3. calm => /\ done' \in {"sync", "refresh"} => saved' # None
                  /\ pc' = "list" \/ (pc' = "plan" /\ stage' = "sync") => ix' = Opened'
                  /\ git => Agrees(head, disk, edits)
      BY <1>1, <1>2, <1>3, <1>5 DEF DiskInv
    <2> QED
      BY <1>2, <1>5, <2>2, <2>3 DEF HeldInv, DiskInv
  <1>6. CASE ListMailboxes
    <2>1. pc = "list" /\ pc' \in {"plan", "upsert"} /\ UNCHANGED <<ix, stage, done, plan>>
      BY <1>6 DEF ListMailboxes, process
    <2> QED
      BY <1>1, <1>5, <2>1 DEF DiskInv
  <1>7. CASE PlanSync
    <2>1. CASE Forget /\ done' = "sync"
      <3>1. pc = "plan" /\ stage = "sync" /\ pc' = "idle"
        BY <1>7, <2>1 DEF PlanSync, Forget
      <3>2. ASSUME calm PROVE ix = Opened /\ saved # None /\ Stored(ix, {})
        BY <1>1, <3>1, <3>2, NothingMade DEF DiskInv, OpeningInv
      <3>3. ASSUME calm PROVE Stored(Opened, {})'
        BY <1>2, <1>3, <3>2, <3>3 DEF Stored
      <3> QED
        BY <1>1, <1>2, <3>1, <3>2, <3>3 DEF HeldInv, DiskInv
    <2>2. CASE ~(Forget /\ done' = "sync")
      <3>1. /\ pc = "plan" /\ pc' = "upsert" /\ UNCHANGED <<ix, stage, done>>
            /\ \A m \in plan'.add : ix.mail[m] = None
        BY <1>7, <2>2 DEF PlanSync, Known
      <3> QED
        BY <1>5, <3>1
    <2> QED
      BY <2>1, <2>2
  <1>8. CASE PlanAll
    <2>1. /\ pc = "plan" /\ pc' = "mail" /\ UNCHANGED <<ix, stage, done>>
          /\ \A m \in plan'.add : ix.mail[m] = None
      BY <1>8 DEF PlanAll, Known, process
    <2> QED
      BY <1>5, <2>1
  <1>9. CASE UpsertsDone
    <2>1. /\ pc = "upsert" /\ pc' = (IF stage = "sync" THEN "mail" ELSE "plan")
          /\ UNCHANGED <<ix, stage, done, plan>>
      BY <1>9 DEF UpsertsDone, process, pass
    <2> QED
      BY <1>1, <1>5, <2>1 DEF DiskInv
  <1> QED
    BY <1>4, <1>6, <1>7, <1>8, <1>9

\* Renames, new directories and cards; no rename fails.
LEMMA UpsertHeld ==
    ASSUME HeldInv, IndexInv', NEW b \in Box,
           RenameDir(b) \/ RenameFails(b) \/ MakeDir(b) \/ WriteCard(b)
    PROVE  /\ calm => ~RenameFails(b)
           /\ HeldInv'
  <1>1. IndexInv /\ DiskInv /\ TypeInv /\ ForestInv /\ PlacedInv /\ disk \in Worktree /\ ix \in Index /\ edits \in Edits
    BY DEF HeldInv, IndexInv, TypeInv, StoreTyped, ProcessTyped
  <1>2. pc \in {"upsert", "card"} /\ Turn(b) /\ UNCHANGED <<calm, git, head, saved>>
    BY DEF RenameDir, RenameFails, MakeDir, WriteCard, account
  <1>3. AtTurn(b) /\ \A c \in Box : Turn(c) => c = b
    BY <1>1, <1>2, TurnIsReady
  <1>4. Opened' = Opened
    BY <1>2 DEF Opened
  <1>5. ASSUME calm, pc = "upsert", Moves(b)
        PROVE  /\ b \in KnownIn(ix.box) /\ MovedDir(b) # ix.box[b].dir /\ WellPlaced(ix, InfoOf(ix))
               /\ Stored(ix, {})
               /\ ix.box[b].dir \in disk.dirs /\ Renames(ix.box[b].dir, MovedDir(b))
    <2>1. b \in KnownIn(ix.box) /\ MovedDir(b) # ix.box[b].dir
      BY <1>5 DEF Moves, KnownIn
    <2>2. WellPlaced(ix, InfoOf(ix)) /\ Stored(ix, {})
      BY <1>1, <1>5, PlacedInfoAtRest, NothingMade DEF PlacedInv, DiskInv
    <2> QED
      BY <1>1, <1>3, <2>1, <2>2, RenameWorks DEF Stored
  <1>6. calm => ~RenameFails(b)
    BY <1>5 DEF RenameFails
  <1>7. ASSUME RenameFails(b) PROVE HeldInv'
    <2>1. ~calm /\ pc' = "idle" /\ plan' = NoPlan
      BY <1>6, <1>7 DEF RenameFails, FailPass, Forget
    <2> QED
      BY <1>2, <2>1 DEF HeldInv, DiskInv
  <1>8. ASSUME UNCHANGED <<stage, plan, done>>, pc' \in {"upsert", "card"},
               \A m \in Msg : (ix'.mail[m] = None) <=> (ix.mail[m] = None),
               calm => Stored(ix, Made)', calm => (git => Agrees(head', disk', edits'))
        PROVE  HeldInv'
    <2>1. plan.add \subseteq Msg
      BY <1>1 DEF TypeInv, PassTyped
    <2>2. \A m \in plan'.add : ix'.mail[m] = None
      BY <1>1, <1>2, <1>8, <2>1 DEF DiskInv
    <2>3. calm' => (done' \in {"sync", "refresh"} => saved' # None)
      BY <1>1, <1>2, <1>8 DEF DiskInv
    <2>4. calm' => (git' => Agrees(head', disk', edits'))
      BY <1>2, <1>8
    <2> QED
      BY <1>2, <1>8, <2>2, <2>3, <2>4 DEF HeldInv, DiskInv
  <1>9. CASE RenameDir(b)
    <2> DEFINE from == ix.box[b].dir
               to == MovedDir(b)
    <2>1. /\ pc = "upsert" /\ pc' = "card" /\ Moves(b) /\ UNCHANGED <<stage, plan, done, listed, todo>>
          /\ disk' = DirRenamed(disk, from, to) /\ edits' = RenameEdits(from, to) /\ ix' = IndexRebased(from, to)
      BY <1>9 DEF RenameDir, pass
    <2>2. b \in KnownIn(ix.box)
      BY <2>1 DEF Moves, KnownIn
    <2>3. from \in Path /\ to \in Path
      BY <1>3, <2>2, IndexEntries, AssignedDirs, ParentPlaced DEF AtTurn, TreeOfBoxes
    <2>4. /\ \A m \in Msg : (ix'.mail[m] = None) <=> (ix.mail[m] = None)
          /\ KnownIn(ix'.box) = KnownIn(ix.box) /\ ix' \in Index
      BY <1>1, <2>1, <2>3, IndexRebasedTyped
    <2>5. Made' = {}
      <3>1. \A c \in Box : Turn(c)' <=> Turn(c)
        BY <2>1 DEF Turn, Before, Waits, Line, KnownIn
      <3>2. \A c \in Box : Turn(c)' => ix'.box[c] # None
        BY <1>3, <2>2, <2>4, <3>1 DEF KnownIn
      <3> QED
        BY <3>2 DEF Made
    <2>6. ASSUME calm PROVE Stored(ix, Made)' /\ (git => Agrees(head', disk', edits'))
      <3>1. /\ WellPlaced(ix, InfoOf(ix)) /\ IsCopy(disk, ix) /\ HasHomes(disk, ix, {}) /\ Filed(ix)
            /\ from \in disk.dirs /\ to # from
        BY <1>5, <2>1, <2>6 DEF Stored
      <3>2. NestedAs(ix', PlacedInfo')
        BY <1>2, <2>6 DEF IndexInv, PlacedInv, WellPlaced
      <3>3. HasHomes(disk', ix', {}) /\ Filed(ix')
        <4> HIDE DEF PlacedInfo
        <4> QED
          BY <1>1, <1>3, <2>1, <2>2, <3>1, <3>2, RenameHomes
      <3>4. IsCopy(disk', ix')
        BY <1>1, <2>1, <2>3, <3>1, RenameCopied
      <3>5. ASSUME git PROVE Agrees(head', disk', edits')
        <4>1. Agrees(head, disk, edits)
          BY <1>1, <2>6, <3>5 DEF DiskInv
        <4>2. edits' = Upserting(Removing(edits, FilesUnder(ix, from)), FilesUnder(ix', to))
          BY <2>1 DEF RenameEdits
        <4>3. /\ SameBut(disk, disk', FilesUnder(ix, from) \cup FilesUnder(ix', to))
              /\ FilesUnder(ix', to) \subseteq FilesOf(disk')
              /\ \A file \in FilesUnder(ix, from) \ FilesUnder(ix', to) : file \notin FilesOf(disk')
          BY <1>1, <2>1, <2>3, <3>1, RenameEdit
        <4>4. Agrees(head, disk', edits')
          BY <4>1, <4>2, <4>3, AgreesAfter
        <4> QED
          BY <1>2, <4>4
      <3> QED
        BY <2>5, <3>3, <3>4, <3>5 DEF Stored
    <2>20. calm => Stored(ix, Made)'
      BY <2>6
    <2>21. calm => (git => Agrees(head', disk', edits'))
      BY <2>6
    <2>22. UNCHANGED <<stage, plan, done>>
      BY <2>1
    <2>23. pc' \in {"upsert", "card"}
      BY <2>1
    <2>24. \A m \in Msg : (ix'.mail[m] = None) <=> (ix.mail[m] = None)
      BY <2>4
    <2> QED
      BY <1>6, <1>8, <2>20, <2>21, <2>22, <2>23, <2>24, Zenon
  <1>10. CASE MakeDir(b)
    <2>1. /\ pc = "upsert" /\ pc' = "card" /\ UNCHANGED <<stage, plan, done, listed, todo, ix, edits>> /\ b \notin KnownIn(ix.box)
          /\ ix.box[b] = None
          /\ disk' = [disk EXCEPT !.dirs = disk.dirs \cup Ancestors(NewDir(b))]
      BY <1>10 DEF MakeDir, process, pass, KnownIn
    <2>2. Made' = {MovedDir(b)}
      <3>1. \A c \in Box : (Turn(c)' <=> c = b) /\ MovedDir(c)' = MovedDir(c)
        <4>1. \A c \in Box : (Turn(c)' <=> Turn(c)) /\ MovedDir(c)' = MovedDir(c)
          BY <2>1 DEF Turn, Before, Waits, Line, KnownIn, MovedDir, ParentDir, Assigned, Taken
        <4> QED
          BY <1>2, <1>3, <4>1
      <3> QED
        BY <2>1, <3>1 DEF Made
    <2>3. disk'.card = disk.card /\ disk'.eml = disk.eml /\ disk'.side = disk.side
          /\ disk'.dirs = disk.dirs \cup Ancestors(NewDir(b))
      BY <1>1, <2>1 DEF Worktree
    <2>4. ASSUME calm PROVE Stored(ix, Made)'
      <3>1. WellPlaced(ix, InfoOf(ix)) /\ Stored(ix, {})
        BY <1>1, <2>1, <2>4, PlacedInfoAtRest, NothingMade DEF PlacedInv, DiskInv
      <3>2. NewDir(b) = MovedDir(b)
        BY <1>3, <2>1, <3>1, NewDirIsMoved DEF Stored
      <3>3. MovedDir(b) \in Path /\ MovedDir(b) # <<>> /\ Front(MovedDir(b)) = ParentDir(listed[b])
        BY <1>3, <3>1, NameIsFree DEF WellPlaced
      <3>4. ASSUME NEW q \in Ancestors(MovedDir(b)), q # MovedDir(b) PROVE q \in Homes(ix)
        <4>1. q \in Path /\ q # <<>> /\ IsPrefix(q, Front(MovedDir(b)))
          BY <3>3, <3>4, AncestorsArePrefixes, AboveIsPrefix, PrefixOfFront
        <4>2. ParentDir(listed[b]) # <<>>
          BY <3>3, <4>1, PrefixOrder, FrontOfPath
        <4>3. ParentDir(listed[b]) \in Homes(ix)
          BY <1>3, <4>2, ParentPlaced DEF Homes
        <4>4. ParentDir(listed[b]) \in Path /\ Ancestors(ParentDir(listed[b])) \subseteq Homes(ix)
          BY <1>1, <3>1, <4>3, HomesAbove DEF WellPlaced
        <4> QED
          BY <3>3, <4>1, <4>4, AncestorsArePrefixes
      <3>5. HasHomes(disk', ix, {MovedDir(b)})
        BY <2>3, <3>1, <3>2, <3>4 DEF HasHomes, Stored
      <3>6. IsCopy(disk', ix) /\ Filed(ix)
        BY <2>3, <3>1 DEF IsCopy, Stored
      <3> QED
        BY <2>1, <2>2, <3>5, <3>6 DEF Stored
    <2>5. ASSUME calm, git PROVE Agrees(head', disk', edits')
      <3>1. Agrees(head, disk, edits)
        BY <1>1, <2>5 DEF DiskInv
      <3> QED
        BY <1>2, <2>1, <2>3, <3>1 DEF Agrees, FilesOf
    <2>20. calm => Stored(ix, Made)'
      BY <2>4
    <2>21. calm => (git => Agrees(head', disk', edits'))
      BY <2>5
    <2>22. UNCHANGED <<stage, plan, done>>
      BY <2>1
    <2>23. pc' \in {"upsert", "card"}
      BY <2>1
    <2>24. \A m \in Msg : (ix'.mail[m] = None) <=> (ix.mail[m] = None)
      BY <2>1
    <2> QED
      BY <1>6, <1>8, <2>20, <2>21, <2>22, <2>23, <2>24, Zenon
  <1>11. CASE WriteCard(b)
    <2> DEFINE dir == IF ix.box[b] = None THEN NewDir(b) ELSE ix.box[b].dir
    <2>1. /\ pc' = "upsert" /\ UNCHANGED <<listed, stage, plan, done>> /\ todo' = todo \ {b}
          /\ disk' = PutCard(disk, dir, b, listed[b])
          /\ edits' = Upserting(edits, {Card(dir)})
          /\ ix' = [ix EXCEPT !.box[b] = [info |-> listed[b], dir |-> dir]]
          /\ pc = "upsert" => ix.box[b] # None
      BY <1>11 DEF WriteCard, pass
    <2>2. Made' = {}
      BY <2>1 DEF Made
    <2>3. /\ ix' \in Index /\ ix'.mail = ix.mail /\ ix'.box[b] = [info |-> listed[b], dir |-> dir]
          /\ KnownIn(ix'.box) = KnownIn(ix.box) \cup {b} /\ \A c \in Box \ {b} : ix'.box[c] = ix.box[c]
      <3>1. ix' \in Index
        BY DEF IndexInv, TypeInv, ProcessTyped
      <3>2. [info |-> listed[b], dir |-> dir] # None
        <4>1. listed[b] \in Info /\ b \in KnownIn(listed)
          BY <1>3, ParentPlaced
        <4>2. dir \in Path
          BY <1>1, <1>3, <4>1, IndexEntries, AssignedDirs DEF AtTurn, TreeOfBoxes, KnownIn
        <4>3. [info |-> listed[b], dir |-> dir] \in BoxEntry
          <5> HIDE DEF dir
          <5> QED
            BY <4>1, <4>2 DEF BoxEntry
        <4> QED
          BY <4>3, NoneAssumption
      <3> HIDE DEF dir
      <3> QED
        BY <1>1, <2>1, <3>1, <3>2 DEF Index, KnownIn
    <2>4. ASSUME calm
          PROVE  /\ Stored(ix, Made) /\ WellPlaced(ix', InfoOf(ix')) /\ dir \in Homes(ix')
                 /\ Made \subseteq {dir}
                 /\ \A c \in KnownIn(ix.box) : ix.box[c].dir = dir <=> c = b
      <3>1. Stored(ix, Made)
        BY <1>1, <1>2, <2>4 DEF DiskInv
      <3>2. WellPlaced(ix', InfoOf(ix'))
        <4>1. PlacedInfo' = InfoOf(ix')
          <5>1. InfoOf(ix') = [c \in Box |-> InfoOf(ix')[c]]
            BY DEF InfoOf
          <5> QED
            BY <2>1, <5>1 DEF PlacedInfo
        <4> QED
          BY <1>2, <2>4, <4>1 DEF IndexInv, PlacedInv
      <3>3. dir \in Homes(ix')
        <4>1. ix'.box[b].dir = dir /\ b \in KnownIn(ix'.box)
          BY <2>3
        <4> HIDE DEF dir
        <4> QED
          BY <4>1 DEF Homes
      <3>4. Made \subseteq {dir}
        <4>1. ASSUME NEW c \in Box, Turn(c), ix.box[c] = None PROVE MovedDir(c) = dir
          <5>1. c = b /\ b \notin KnownIn(ix.box)
            BY <1>3, <4>1 DEF KnownIn
          <5>2. WellPlaced(ix, PlacedInfo) /\ IsCopy(disk, ix)
            BY <1>1, <2>4, <3>1 DEF PlacedInv, Stored
          <5>3. NewDir(b) = MovedDir(b)
            <6> HIDE DEF PlacedInfo
            <6> QED
              BY <1>3, <5>1, <5>2, NewDirIsMoved
          <5> QED
            BY <4>1, <5>1, <5>3
        <4> HIDE DEF dir
        <4> QED
          BY <4>1 DEF Made
      <3>5. ASSUME NEW c \in KnownIn(ix.box) PROVE ix.box[c].dir = dir <=> c = b
        <4>1. c \in KnownIn(ix'.box) /\ b \in KnownIn(ix'.box) /\ ix'.box[b].dir = dir
          BY <2>3
        <4>2. c # b => ix'.box[c].dir # ix'.box[b].dir
          BY <2>3, <3>2, <4>1, WellPlacedApart
        <4>3. c # b => ix'.box[c] = ix.box[c]
          BY <2>3 DEF KnownIn
        <4>4. c = b => ix.box[c].dir = dir
          BY DEF KnownIn
        <4> HIDE DEF dir
        <4> QED
          BY <4>1, <4>2, <4>3, <4>4
      <3> QED
        BY <3>1, <3>2, <3>3, <3>4, <3>5
    <2>5. disk'.dirs = disk.dirs \cup Ancestors(dir)
      <3> HIDE DEF dir
      <3> QED
        BY <1>1, <2>1 DEF PutCard, Worktree
    <2> HIDE DEF dir
    <2>6. ASSUME calm PROVE Stored(ix, Made)'
      <3>1. \A c \in KnownIn(ix.box) : ix'.box[c].dir = ix.box[c].dir
        BY <2>3, <2>4, <2>6 DEF KnownIn
      <3>2. Homes(ix) \subseteq Homes(ix') /\ b \in KnownIn(ix'.box) /\ ix'.box[b].dir = dir
        BY <2>3, <3>1 DEF Homes
      <3>3. dir \in Path /\ Ancestors(dir) \subseteq Homes(ix') /\ dir \in Ancestors(dir)
        BY <2>3, <2>4, <2>6, HomesAbove, AncestorsArePrefixes DEF WellPlaced
      <3>4. HasHomes(disk', ix', {})
        <4>1. \A c \in KnownIn(ix'.box) : ix'.box[c].dir \in disk'.dirs
          BY <2>3, <2>4, <2>5, <2>6, <3>1, <3>2, <3>3 DEF Stored, HasHomes
        <4>2. disk'.dirs \subseteq Homes(ix')
          BY <2>4, <2>5, <2>6, <3>2, <3>3 DEF Stored, HasHomes
        <4> QED
          BY <4>1, <4>2 DEF HasHomes
      <3>5. Filed(ix')
        BY <2>3, <2>4, <2>6, <3>1 DEF Stored, Filed, KnownMail
      <3>6. IsCopy(disk', ix')
        <4>1. IsCopy(disk, ix) /\ \A c \in KnownIn(ix.box) : ix.box[c].dir = dir <=> c = b
          BY <2>4, <2>6 DEF Stored
        <4>2. IsCopy(PutCard(disk, dir, b, listed[b]), ix')
          BY <1>1, <2>3, <4>1, CardCopied
        <4> QED
          BY <2>1, <4>2
      <3> QED
        BY <2>2, <3>4, <3>5, <3>6 DEF Stored
    <2>7. ASSUME calm, git PROVE Agrees(head', disk', edits')
      <3>1. Agrees(head, disk, edits)
        BY <1>1, <2>7 DEF DiskInv
      <3>2. edits' = Upserting(Removing(edits, {}), {Card(dir)})
        BY <1>1, <2>1, HalfAnEdit
      <3>3. SameBut(disk, disk', {Card(dir)}) /\ Card(dir) \in FilesOf(disk')
        BY <1>1, <2>1, CardEdit
      <3>4. Agrees(head, disk', edits')
        BY <3>1, <3>2, <3>3, AgreesAfter
      <3> QED
        BY <1>2, <3>4
    <2>20. calm => Stored(ix, Made)'
      BY <2>6
    <2>21. calm => (git => Agrees(head', disk', edits'))
      BY <2>7
    <2>22. UNCHANGED <<stage, plan, done>>
      BY <2>1
    <2>23. pc' \in {"upsert", "card"}
      BY <2>1
    <2>24. \A m \in Msg : (ix'.mail[m] = None) <=> (ix.mail[m] = None)
      BY <2>3
    <2> QED
      BY <1>6, <1>8, <2>20, <2>21, <2>22, <2>23, <2>24, Zenon
  <1> QED
    BY <1>6, <1>7, <1>9, <1>10, <1>11

\* Mail in its new place is at home.
LEMMA MailAtHome ==
    ASSUME ix \in Index, NEW f, NestedAs(ix, f), HasHomes(disk, ix, {}), Filed(ix),
           NEW m \in Msg, NEW in \in SUBSET Box,
           NEW new, new = [ix EXCEPT !.mail[m] = [in |-> in, dir |-> DirFor(ix, in)]],
           NEW d, d.dirs = disk.dirs \cup Ancestors(DirFor(ix, in))
    PROVE  HasHomes(d, new, {}) /\ Filed(new)
  <1> DEFINE dir == DirFor(ix, in)
             entry == [in |-> in, dir |-> dir]
  <1>1. dir \in Homes(ix) /\ (dir = Unfiled \/ \E b \in in \cap KnownIn(ix.box) : dir = ix.box[b].dir)
    BY DirForMail DEF Homes
  <1>2. entry.in = in /\ entry.dir = dir
    OBVIOUS
  <1>3. Ancestors(dir) \subseteq Homes(ix)
    BY <1>1, HomesAbove
  <1> HIDE DEF dir, entry
  <1>4. new.box = ix.box /\ new.mail[m] = entry /\ \A k \in Msg \ {m} : new.mail[k] = ix.mail[k]
    BY DEF Index, entry, dir
  <1>5. Homes(new) = Homes(ix)
    BY <1>4 DEF Homes
  <1>6. d.dirs = disk.dirs \cup Ancestors(dir)
    BY DEF dir
  <1>7. HasHomes(d, new, {})
    BY <1>3, <1>4, <1>5, <1>6 DEF HasHomes
  <1>8. ASSUME NEW k \in KnownMail(new)
        PROVE  \/ new.mail[k].dir = Unfiled
               \/ \E b \in new.mail[k].in \cap KnownIn(new.box) : new.mail[k].dir = new.box[b].dir
    <2>1. CASE k = m
      BY <1>1, <1>2, <1>4, <2>1
    <2>2. CASE k # m
      <3>1. new.mail[k] = ix.mail[k] /\ k \in KnownMail(ix)
        BY <1>4, <1>8, <2>2 DEF KnownMail
      <3> QED
        BY <1>4, <3>1 DEF Filed
    <2> QED
      BY <2>1, <2>2
  <1> QED
    BY <1>7, <1>8 DEF Filed

\* Additions, updates and deletions.
LEMMA MailHeld ==
    ASSUME HeldInv, IndexInv', NEW m \in Msg, AddMail(m) \/ UpdateMail(m) \/ DeleteMail(m)
    PROVE  HeldInv'
  <1>1. IndexInv /\ DiskInv /\ TypeInv /\ PlacedInv /\ disk \in Worktree /\ ix \in Index /\ edits \in Edits
    BY DEF HeldInv, IndexInv, TypeInv, StoreTyped, ProcessTyped
  <1>2. pc = "mail" /\ pc' = "mail" /\ UNCHANGED <<calm, git, head, saved, stage, done>>
    BY DEF AddMail, UpdateMail, DeleteMail, account
  <1>3. /\ plan \in [add : SUBSET Msg, update : SUBSET Msg, delete : SUBSET Msg,
                     in : [Msg -> SUBSET Box], uncommitted : BOOLEAN]
        /\ plan.in[m] \in SUBSET Box
    BY <1>1 DEF TypeInv, PassTyped
  <1>4. Made = {} /\ Made' = {}
    BY <1>2 DEF Made
  <1>5. ASSUME calm
        PROVE  /\ WellPlaced(ix, InfoOf(ix)) /\ NestedAs(ix, InfoOf(ix))
               /\ IsCopy(disk, ix) /\ HasHomes(disk, ix, {}) /\ Filed(ix)
    <2>1. Stored(ix, {})
      BY <1>1, <1>2, <1>4, <1>5 DEF DiskInv
    <2>2. WellPlaced(ix, InfoOf(ix))
      BY <1>1, <1>2, <1>5, PlacedInfoAtRest DEF PlacedInv
    <2> QED
      BY <2>1, <2>2 DEF Stored, WellPlaced
  <1>6. ASSUME calm, git PROVE Agrees(head, disk, edits)
    BY <1>1, <1>6 DEF DiskInv
  <1>7. ASSUME \A k \in plan'.add : ix'.mail[k] = None,
               calm => Stored(ix, {})', calm => (git => Agrees(head', disk', edits'))
        PROVE  HeldInv'
    <2>1. calm' => (done' \in {"sync", "refresh"} => saved' # None)
      BY <1>1, <1>2 DEF DiskInv
    <2>2. calm' => Stored(ix, Made)'
      BY <1>2, <1>4, <1>7 DEF Stored
    <2>3. calm' => (git' => Agrees(head', disk', edits'))
      BY <1>2, <1>7
    <2> QED
      BY <1>2, <1>7, <2>1, <2>2, <2>3 DEF HeldInv, DiskInv
  <1> DEFINE in == plan.in[m]
             to == DirFor(ix, in)
             new == [ix EXCEPT !.mail[m] = [in |-> in, dir |-> to]]
  <1>8. to \in Path /\ [in |-> in, dir |-> to] \in MailEntry /\ [in |-> in, dir |-> to] # None
    <2>1. to \in Path
      BY <1>1, <1>3, DirForPath
    <2> HIDE DEF to
    <2>2. [in |-> in, dir |-> to] \in MailEntry
      BY <1>3, <2>1 DEF MailEntry
    <2> QED
      BY <2>1, <2>2, NoneAssumption
  <1>9. ASSUME NEW d, calm, IsCopy(d, new), d.dirs = disk.dirs \cup Ancestors(to), disk' = d, ix' = new
        PROVE  Stored(ix, {})'
    <2>1. HasHomes(d, new, {}) /\ Filed(new)
      BY <1>1, <1>3, <1>5, <1>9, MailAtHome
    <2> HIDE DEF new
    <2> QED
      BY <1>9, <2>1 DEF Stored
  <1>10. PutSide(disk, to, m, in).dirs = disk.dirs \cup Ancestors(to)
    BY <1>1 DEF PutSide, Worktree
  <1>11. CASE AddMail(m)
    <2>1. /\ m \in plan.add /\ disk' = PutMail(disk, to, m, in) /\ ix' = new
          /\ edits' = Upserting(edits, Mail(to, m)) /\ plan' = [plan EXCEPT !.add = plan.add \ {m}, !.uncommitted = TRUE]
      BY <1>11 DEF AddMail
    <2>2. ix.mail[m] = None
      BY <1>1, <1>2, <2>1 DEF DiskInv
    <2>3. \A k \in plan'.add : ix'.mail[k] = None
      <3>1. \A k \in plan'.add : k \in plan.add /\ k \in Msg \ {m}
        BY <1>3, <2>1
      <3>2. \A k \in Msg \ {m} : ix'.mail[k] = ix.mail[k]
        <4> HIDE DEF in, to
        <4> QED
          BY <1>1, <2>1 DEF Index
      <3> QED
        BY <1>1, <1>2, <3>1, <3>2 DEF DiskInv
    <2>4. ASSUME calm PROVE Stored(ix, {})'
      <3>1. IsCopy(disk', new)
        <4> HIDE DEF in, to
        <4> QED
          BY <1>1, <1>5, <1>8, <2>1, <2>2, <2>4, PutCopied
      <3>2. disk'.dirs = disk.dirs \cup Ancestors(to)
        <4> HIDE DEF in, to
        <4>1. PutSide(disk, to, m, in) = [PutSide(disk, to, m, in) EXCEPT !.dirs = disk.dirs \cup Ancestors(to)]
          BY <1>1, <1>10 DEF PutSide, Worktree
        <4> QED
          BY <1>1, <1>10, <2>1, <4>1 DEF PutMail, PutSide, Worktree
      <3> QED
        BY <1>9, <2>1, <2>4, <3>1, <3>2
    <2>5. ASSUME calm, git PROVE Agrees(head', disk', edits')
      <3> HIDE DEF in, to, new
      <3>1. edits' = Upserting(Removing(edits, {}), Mail(to, m))
        BY <1>1, <2>1, HalfAnEdit
      <3>2. SameBut(disk, disk', {} \cup Mail(to, m)) /\ Mail(to, m) \subseteq FilesOf(disk')
        <4>1. {} \cup Mail(to, m) = Mail(to, m)
          OBVIOUS
        <4>2. SameBut(disk, disk', Mail(to, m)) /\ Mail(to, m) \subseteq FilesOf(disk')
          BY <1>1, <2>1, MailEdit
        <4> QED
          BY <4>1, <4>2
      <3>3. Agrees(head, disk', edits')
        BY <1>6, <2>5, <3>1, <3>2, AgreesAfter
      <3> QED
        BY <1>2, <3>3
    <2> QED
      BY <1>7, <2>3, <2>4, <2>5
  <1>12. ASSUME plan'.add = plan.add, plan.add = {} \/ UNCHANGED ix PROVE \A k \in plan'.add : ix'.mail[k] = None
    BY <1>1, <1>2, <1>12 DEF DiskInv
  <1>13. ASSUME plan'.add = plan.add, UNCHANGED <<disk, edits, ix>> PROVE HeldInv'
    <2>1. calm => Stored(ix, {})'
      BY <1>5, <1>13 DEF Stored
    <2>2. calm => (git => Agrees(head', disk', edits'))
      BY <1>2, <1>6, <1>13
    <2> QED
      BY <1>7, <1>12, <1>13, <2>1, <2>2
  <1>14. CASE UpdateMail(m)
    <2> DEFINE from == ix.mail[m].dir
               side == [at |-> to, msg |-> m, in |-> in]
               skip == to # from /\ ~HasEml(disk, from, m) /\ ~HasEml(disk, to, m)
    <2>1. /\ m \in plan.update /\ plan.add = {} /\ plan' = [plan EXCEPT !.update = plan.update \ {m}]
          /\ IF skip THEN UNCHANGED <<disk, edits, ix>>
             ELSE /\ disk' = IF to # from /\ HasEml(disk, from, m)
                             THEN PutMail(DropMail(disk, from, m), to, m, in)
                             ELSE PutSide(disk, to, m, in)
                  /\ edits' = CASE to # from -> Upserting(Removing(edits, Mail(from, m)), Mail(to, m))
                                [] to = from /\ side \notin disk.side -> Upserting(edits, {Sidecar(to, m)})
                                [] OTHER -> edits
                  /\ ix' = new
      BY <1>14 DEF UpdateMail
    <2>2. ix.mail[m] # None /\ plan'.add = plan.add
      <3>1. ix.mail[m] # None
        BY <1>1, <1>2, <2>1 DEF TypeInv, QueuesKnown
      <3> QED
        BY <1>3, <2>1, <3>1
    <2>3. from \in Path
      BY <1>1, <2>2 DEF Index, MailEntry
    <2>4. \A k \in plan'.add : ix'.mail[k] = None
      BY <2>1, <2>2
    <2> HIDE DEF in, to
    <2>5. ASSUME calm PROVE HasEml(disk, from, m) /\ [at |-> from, msg |-> m, in |-> ix.mail[m].in] \in disk.side
      BY <1>5, <2>2, <2>5 DEF HasEml, IsCopy, EmlsOf, EmlOf, SidesOf, SideOf, KnownMail
    <2>6. ASSUME calm, to # from
          PROVE  Stored(ix, {})' /\ (git => Agrees(head', disk', edits'))
      <3> DEFINE bare == DropMail(disk, from, m)
                 out == [ix EXCEPT !.mail[m] = None]
      <3>1. disk' = PutMail(bare, to, m, in) /\ edits' = Upserting(Removing(edits, Mail(from, m)), Mail(to, m)) /\ ix' = new
        BY <2>1, <2>5, <2>6
      <3>2. IsCopy(bare, out)
        BY <1>1, <1>5, <2>2, <2>6, DropCopied
      <3>3. bare \in Worktree /\ bare.dirs = disk.dirs
        BY <1>1 DEF DropMail, Worktree
      <3>4. out \in Index /\ out.mail[m] = None /\ new = [out EXCEPT !.mail[m] = [in |-> in, dir |-> to]]
        BY <1>1 DEF Index
      <3> HIDE DEF bare, out, new
      <3>5. IsCopy(disk', new)
        BY <1>8, <3>1, <3>2, <3>3, <3>4, PutCopied
      <3>6. disk'.dirs = disk.dirs \cup Ancestors(to)
        BY <3>1, <3>3 DEF PutMail, PutSide, Worktree
      <3>7. Stored(ix, {})'
        BY <1>9, <2>6, <3>1, <3>5, <3>6
      <3>8. ASSUME git PROVE Agrees(head, disk', edits')
        <4>1. /\ SameBut(disk, bare, Mail(from, m)) /\ \A file \in Mail(from, m) : file \notin FilesOf(bare)
          BY <1>1, MailEdit DEF bare
        <4>2. SameBut(bare, disk', Mail(to, m)) /\ Mail(to, m) \subseteq FilesOf(disk')
          BY <3>1, <3>3, MailEdit
        <4>3. SameBut(disk, disk', Mail(from, m) \cup Mail(to, m))
          BY <4>1, <4>2 DEF SameBut
        <4>4. \A file \in Mail(from, m) \ Mail(to, m) : file \notin FilesOf(disk')
          BY <4>1, <4>2, SameFiles
        <4> QED
          BY <1>6, <2>6, <3>1, <3>8, <4>2, <4>3, <4>4, AgreesAfter
      <3> QED
        BY <1>2, <3>7, <3>8
    <2>7. ASSUME calm, to = from
          PROVE  Stored(ix, {})' /\ (git => Agrees(head', disk', edits'))
      <3>1. disk' = PutSide(disk, to, m, in) /\ ix' = new
        BY <2>1, <2>7
      <3>2. IsCopy(disk', new)
        BY <1>1, <1>5, <1>8, <2>2, <2>7, <3>1, SideCopied
      <3>3. disk'.dirs = disk.dirs \cup Ancestors(to)
        BY <1>10, <3>1 DEF in, to
      <3>4. Stored(ix, {})'
        <4> HIDE DEF new
        <4> QED
          BY <1>9, <2>7, <3>1, <3>2, <3>3
      <3>5. SameBut(disk, disk', {Sidecar(to, m)}) /\ Sidecar(to, m) \in FilesOf(disk')
        BY <1>1, <3>1, MailEdit
      <3>6. ASSUME git, side \notin disk.side PROVE Agrees(head, disk', edits')
        <4>1. edits' = Upserting(edits, {Sidecar(to, m)})
          BY <2>1, <2>7, <3>6
        <4>2. edits' = Upserting(Removing(edits, {}), {Sidecar(to, m)})
          BY <1>1, <4>1, HalfAnEdit
        <4>3. {} \cup {Sidecar(to, m)} = {Sidecar(to, m)}
          OBVIOUS
        <4> QED
          BY <1>6, <2>7, <3>5, <3>6, <4>2, <4>3, AgreesAfter
      <3>7. ASSUME git, side \in disk.side PROVE Agrees(head, disk', edits')
        <4>1. edits' = edits
          BY <2>1, <2>7, <3>7
        <4>2. SideAt(disk, to, m) = {side}
          <5>1. disk.side = SidesOf(ix)
            BY <1>5, <2>7 DEF IsCopy
          <5>2. \A f \in SidesOf(ix) : f.msg = m => f = SideOf(ix, m)
            BY DEF SidesOf, SideOf
          <5>3. side.at = to /\ side.msg = m
            OBVIOUS
          <5> HIDE DEF side
          <5> QED
            BY <3>7, <5>1, <5>2, <5>3 DEF SideAt
        <4>3. disk'.card = disk.card /\ disk'.eml = disk.eml /\ disk'.side = (disk.side \ SideAt(disk, to, m)) \cup {side}
          BY <1>1, <3>1 DEF PutSide, Worktree
        <4>4. disk'.side = disk.side
          BY <3>7, <4>2, <4>3
        <4> QED
          BY <1>6, <2>7, <3>7, <4>1, <4>3, <4>4 DEF Agrees, FilesOf
      <3> QED
        BY <1>2, <3>4, <3>6, <3>7
    <2>8. calm => Stored(ix, {})'
      BY <2>6, <2>7
    <2>9. calm => (git => Agrees(head', disk', edits'))
      BY <2>6, <2>7
    <2> QED
      BY <1>7, <2>4, <2>8, <2>9
  <1>15. CASE DeleteMail(m)
    <2> DEFINE from == ix.mail[m].dir
               out == [ix EXCEPT !.mail[m] = None]
    <2>1. /\ plan.add = {} /\ plan' = [plan EXCEPT !.delete = plan.delete \ {m}]
          /\ IF Known(m) THEN /\ disk' = DropMail(disk, from, m) /\ edits' = Removing(edits, Mail(from, m))
                              /\ ix' = out
             ELSE UNCHANGED <<disk, edits, ix>>
      BY <1>15 DEF DeleteMail
    <2>2. plan'.add = plan.add
      BY <1>3, <2>1
    <2>3. CASE ~Known(m)
      BY <1>13, <2>1, <2>2, <2>3
    <2>4. CASE Known(m)
      <3>1. ix.mail[m] # None /\ disk' = DropMail(disk, from, m) /\ edits' = Removing(edits, Mail(from, m)) /\ ix' = out
        BY <2>1, <2>4 DEF Known
      <3>2. /\ out.box = ix.box /\ KnownMail(out) = KnownMail(ix) \ {m}
            /\ \A k \in KnownMail(out) : out.mail[k] = ix.mail[k]
        BY <1>1 DEF Index, KnownMail
      <3>3. disk'.dirs = disk.dirs
        BY <1>1, <3>1 DEF DropMail, Worktree
      <3>4. ASSUME calm PROVE Stored(ix, {})'
        <4>1. IsCopy(disk', ix')
          BY <1>1, <1>5, <3>1, <3>4, DropCopied
        <4> HIDE DEF out
        <4>2. HasHomes(disk', ix', {})
          BY <1>5, <3>1, <3>2, <3>3, <3>4 DEF HasHomes, Homes
        <4>3. Filed(ix')
          BY <1>5, <3>1, <3>2, <3>4 DEF Filed
        <4> QED
          BY <4>1, <4>2, <4>3 DEF Stored
      <3> HIDE DEF out
      <3>5. ASSUME calm, git PROVE Agrees(head', disk', edits')
        <4>1. edits' = Upserting(Removing(edits, Mail(from, m)), {})
          BY <1>1, <3>1, HalfAnEdit
        <4>2. Mail(from, m) \cup {} = Mail(from, m) /\ Mail(from, m) \ {} = Mail(from, m)
          OBVIOUS
        <4>3. /\ SameBut(disk, disk', Mail(from, m)) /\ \A file \in Mail(from, m) : file \notin FilesOf(disk')
          BY <1>1, <3>1, MailEdit
        <4>4. Agrees(head, disk', edits')
          BY <1>6, <3>5, <4>1, <4>2, <4>3, AgreesAfter
        <4> QED
          BY <1>2, <4>4
      <3>6. calm => Stored(ix, {})'
        BY <3>4
      <3>7. calm => (git => Agrees(head', disk', edits'))
        BY <3>5
      <3>8. \A k \in plan'.add : ix'.mail[k] = None
        BY <2>1, <2>2
      <3> QED
        BY <1>7, <3>6, <3>7, <3>8
    <2> QED
      BY <2>3, <2>4
  <1> QED
    BY <1>11, <1>14, <1>15

\* A mailbox without contents leaves nothing behind.
LEMMA PruneHomes ==
    ASSUME ix \in Index, disk \in Worktree, NEW f, WellPlaced(ix, f),
           IsCopy(disk, ix), HasHomes(disk, ix, {}), Filed(ix),
           NEW b \in KnownIn(ix.box), ~HasContents(ix.box[b].dir),
           NEW bare, bare = [disk EXCEPT !.card = disk.card \ CardAt(disk, ix.box[b].dir)]
    PROVE  LET new == [ix EXCEPT !.box[b] = None]
               d == IF Occupied(bare, ix.box[b].dir) THEN bare
                    ELSE [bare EXCEPT !.dirs = bare.dirs \ {ix.box[b].dir}]
           IN  IsCopy(d, new) /\ HasHomes(d, new, {}) /\ Filed(new)
  <1> DEFINE dir == ix.box[b].dir
             new == [ix EXCEPT !.box[b] = None]
             d == IF Occupied(bare, dir) THEN bare ELSE [bare EXCEPT !.dirs = bare.dirs \ {dir}]
             K == KnownIn(ix.box)
  <1>1. /\ bare.dirs = disk.dirs /\ bare.eml = disk.eml /\ bare.side = disk.side
        /\ bare.card = disk.card \ CardAt(disk, dir) /\ bare \in Worktree
    BY DEF Worktree
  <1>2. dir \in Path /\ dir # <<>> /\ dir # Unfiled /\ \A c \in K \ {b} : ix.box[c].dir # dir
    BY IndexEntries, WellPlacedApart DEF WellPlaced, NestedAs
  <1>3. /\ \A m \in KnownMail(ix) : ix.mail[m].dir # dir
        /\ \A c \in K : ~Above(dir, ix.box[c].dir)
    BY DEF HasContents, KnownMail
  <1>4. /\ KnownIn(new.box) = K \ {b} /\ new.mail = ix.mail
        /\ \A c \in K \ {b} : new.box[c] = ix.box[c]
    BY DEF KnownIn, Index
  <1>5. ~Occupied(bare, dir)
    <2>1. ASSUME NEW q \in bare.dirs PROVE ~Above(dir, q)
      <3>1. q \in Homes(ix)
        BY <1>1, <2>1 DEF HasHomes
      <3>2. ~Above(dir, Unfiled)
        <4>1. Above(dir, Unfiled) => IsPrefix(dir, Unfiled)
          BY DEF Above
        <4> QED
          BY <1>2, <4>1, UnfiledIsTop
      <3> QED
        BY <1>3, <3>1, <3>2 DEF Homes
    <2>2. ASSUME NEW c \in bare.card PROVE c.at # dir
      BY <1>1, <2>2 DEF CardAt
    <2>3. ASSUME NEW s \in bare.side PROVE s.at # dir
      BY <1>1, <1>3, <2>3 DEF IsCopy, SidesOf, SideOf
    <2>4. ASSUME NEW s \in bare.eml PROVE s[1] # dir
      BY <1>1, <1>3, <2>4 DEF IsCopy, EmlsOf, EmlOf
    <2> QED
      BY <2>1, <2>2, <2>3, <2>4 DEF Occupied
  <1>6. d = [bare EXCEPT !.dirs = bare.dirs \ {dir}]
    BY <1>5
  <1>7. d.dirs = disk.dirs \ {dir} /\ d.eml = disk.eml /\ d.side = disk.side /\ d.card = disk.card \ CardAt(disk, dir)
    BY <1>1, <1>6 DEF Worktree
  <1> HIDE DEF d
  <1>8. IsCopy(d, new)
    BY <1>2, <1>7, PruneCopied
  <1> HIDE DEF new
  <1>9. HasHomes(d, new, {})
    <2>1. Homes(ix) \ {dir} \subseteq Homes(new)
      BY <1>4 DEF Homes
    <2>2. \A c \in K \ {b} : ix.box[c].dir \in d.dirs
      BY <1>2, <1>7 DEF HasHomes
    <2> QED
      BY <1>4, <1>7, <2>1, <2>2 DEF HasHomes
  <1>10. ASSUME NEW m \in KnownMail(new)
         PROVE  \/ new.mail[m].dir = Unfiled
                \/ \E c \in new.mail[m].in \cap KnownIn(new.box) : new.mail[m].dir = new.box[c].dir
    <2>1. m \in KnownMail(ix) /\ new.mail[m] = ix.mail[m]
      BY <1>4 DEF KnownMail
    <2>2. \/ ix.mail[m].dir = Unfiled
          \/ \E c \in ix.mail[m].in \cap K : ix.mail[m].dir = ix.box[c].dir
      BY <2>1 DEF Filed
    <2> QED
      BY <1>3, <1>4, <2>1, <2>2
  <1> QED
    BY <1>8, <1>9, <1>10 DEF Filed, new, d

\* A card that is removed.
LEMMA CardRemoved ==
    ASSUME NEW d \in Worktree, NEW dir, NEW e,
           e.card = d.card \ CardAt(d, dir), e.eml = d.eml, e.side = d.side
    PROVE  SameBut(d, e, {Card(dir)}) /\ Card(dir) \notin FilesOf(e)
  <1>1. \A c : Card(c.at) = Card(dir) <=> c.at = dir
    BY DEF Card
  <1>2. \A p, q, n : Card(dir) # Eml(p, n) /\ Card(dir) # Sidecar(q, n)
    BY DEF Card, Eml, Sidecar
  <1>3. \A c : Card(c.at) \notin {Card(dir)} => (c \in d.card <=> c \in e.card)
    BY <1>1 DEF CardAt
  <1>4. Card(dir) \notin FilesOf(e)
    BY <1>1, <1>2 DEF FilesOf, CardAt
  <1> QED
    BY <1>3, <1>4 DEF SameBut

\* Checkpoints, removals and the end of a pass; no commit fails.
LEMMA ConcludingHeld ==
    ASSUME HeldInv, IndexInv', Unbroken',
           \/ CommitDay \/ MailDone \/ (\E b \in Box : Prune(b)) \/ PruneDone
           \/ Commit \/ CommitFails \/ Save \/ Interrupt
    PROVE  /\ calm => ~CommitFails
           /\ HeldInv'
  <1>1. IndexInv /\ DiskInv /\ TypeInv /\ PlacedInv /\ OpeningInv /\ disk \in Worktree /\ ix \in Index /\ edits \in Edits
        /\ head' \in Tree
    BY DEF HeldInv, IndexInv, TypeInv, StoreTyped, ProcessTyped
  <1>3. ~Interrupt
    <2>1. stops \in 0 .. MaxStops
      BY <1>1 DEF TypeInv, PassTyped
    <2> QED
      BY <2>1, TreeBounds DEF Interrupt, Unbroken
  <1>2. UNCHANGED <<calm, git>>
    BY <1>3 DEF CommitDay, MailDone, Prune, PruneDone, Commit, CommitFails, Save, account
  <1>4. ASSUME calm, git PROVE Agrees(head, disk, edits) /\ Buildable
    <2>1. Agrees(head, disk, edits)
      BY <1>1, <1>4 DEF DiskInv
    <2> QED
      BY <2>1, CommitIsCopy
  <1>5. calm => ~CommitFails
    BY <1>4 DEF CommitFails
  <1>6. CASE CommitFails
    <2>1. ~calm /\ pc' = "idle" /\ plan' = NoPlan
      BY <1>5, <1>6 DEF CommitFails, FailPass, Forget
    <2> QED
      BY <1>2, <1>5, <2>1 DEF HeldInv, DiskInv
  <1>7. ASSUME calm, pc \in {"mail", "prune", "commit", "save"}
        PROVE  /\ WellPlaced(ix, InfoOf(ix)) /\ Made = {} /\ Stored(ix, {})
               /\ IsCopy(disk, ix) /\ HasHomes(disk, ix, {}) /\ Filed(ix)
    <2>1. Made = {} /\ Stored(ix, {})
      BY <1>1, <1>7, NothingMade DEF DiskInv
    <2>2. WellPlaced(ix, InfoOf(ix))
      BY <1>1, <1>7, PlacedInfoAtRest DEF PlacedInv
    <2> QED
      BY <2>1, <2>2 DEF Stored
  <1>8. ASSUME pc \in {"mail", "prune", "commit", "save"}, pc' \in {"mail", "prune", "commit", "save"},
               pc' = "mail" => plan'.add = plan.add /\ UNCHANGED <<pc, ix>>,
               UNCHANGED done, saved' # None \/ saved' = saved,
               calm => Stored(ix, {})', calm => (git => Agrees(head', disk', edits')),
               calm /\ git /\ pc' = "save" => edits' = NoEdits
        PROVE  HeldInv'
    <2>1. Made' = {}
      BY <1>8 DEF Made
    <2>2. calm' => Stored(ix, Made)'
      BY <1>2, <1>8, <2>1 DEF Stored
    <2>3. calm' => (done' \in {"sync", "refresh"} => saved' # None)
      BY <1>1, <1>2, <1>8 DEF DiskInv
    <2>4. pc' = "mail" => \A m \in plan'.add : ix'.mail[m] = None
      BY <1>1, <1>8 DEF DiskInv
    <2>5. calm' => (git' => Agrees(head', disk', edits'))
      BY <1>2, <1>8
    <2>6. calm' => (git' /\ pc' = "save" => edits' = NoEdits)
      BY <1>2, <1>8
    <2> QED
      BY <1>8, <2>2, <2>3, <2>4, <2>5, <2>6 DEF HeldInv, DiskInv
  <1>9. CASE CommitDay
    <2>1. /\ pc = "mail" /\ pc' = "mail" /\ plan' = [plan EXCEPT !.uncommitted = FALSE] /\ UNCHANGED <<pc, ix, disk, done>>
          /\ head' = (IF git THEN BuiltTree ELSE head) /\ edits' = NoEdits
      BY <1>9 DEF CommitDay
    <2>2. plan'.add = plan.add
      BY <1>1, <2>1 DEF TypeInv, PassTyped
    <2>3. saved' # None
      BY <1>1, <1>9, CheckpointSaves
    <2>4. calm => Stored(ix, {})'
      BY <1>7, <2>1 DEF Stored
    <2>5. calm => (git => Agrees(head', disk', edits'))
      BY <1>4, <2>1, CommitIsCopy
    <2>6. pc' # "save"
      BY <2>1
    <2> QED
      BY <1>5, <1>8, <2>1, <2>2, <2>3, <2>4, <2>5, <2>6
  <1>10. ASSUME pc \in {"mail", "prune", "commit"}, pc' \in {"prune", "commit", "save"},
                UNCHANGED <<ix, disk, head, edits, saved, done>>, calm /\ git => pc' # "save"
         PROVE  HeldInv'
    <2>1. calm => Stored(ix, {})'
      BY <1>7, <1>10 DEF Stored
    <2>2. calm => (git => Agrees(head', disk', edits'))
      BY <1>4, <1>10
    <2> QED
      BY <1>8, <1>10, <2>1, <2>2
  <1>11. CASE MailDone
    <2>1. /\ pc = "mail" /\ pc' = "prune" /\ UNCHANGED <<ix, disk, head, edits, saved, done>>
      BY <1>11 DEF MailDone, durable, process, pass
    <2> QED
      BY <1>5, <1>10, <2>1
  <1>12. CASE PruneDone
    <2>1. /\ pc = "prune" /\ pc' = (IF git /\ ~NoDays THEN "commit" ELSE "save")
          /\ UNCHANGED <<ix, disk, head, edits, saved, done>>
      BY <1>12 DEF PruneDone, durable, process, pass
    <2>2. calm /\ git => ~NoDays
      BY <1>1, <2>1 DEF OpeningInv
    <2> QED
      BY <1>5, <1>10, <2>1, <2>2
  <1>13. ASSUME NEW b \in Box, Prune(b) PROVE HeldInv'
    <2> DEFINE dir == ix.box[b].dir
               bare == [disk EXCEPT !.card = disk.card \ CardAt(disk, dir)]
               new == [ix EXCEPT !.box[b] = None]
               d == IF Occupied(bare, dir) THEN bare ELSE [bare EXCEPT !.dirs = bare.dirs \ {dir}]
    <2>1. /\ pc = "prune" /\ pc' = "prune" /\ b \in todo /\ UNCHANGED <<head, saved, done>>
          /\ \/ UNCHANGED <<disk, edits, ix>>
             \/ /\ ~HasContents(dir) /\ disk' = d /\ edits' = Removing(edits, {Card(dir)}) /\ ix' = new
      BY <1>13 DEF Prune, pass
    <2>2. CASE UNCHANGED <<disk, edits, ix>>
      BY <1>10, <2>1, <2>2
    <2>3. CASE ~HasContents(dir) /\ disk' = d /\ edits' = Removing(edits, {Card(dir)}) /\ ix' = new
      <3>1. b \in KnownIn(ix.box)
        BY <1>1, <2>1 DEF TypeInv, QueuesKnown
      <3>2. calm => Stored(ix, {})'
        <4>1. ASSUME calm PROVE IsCopy(d, new) /\ HasHomes(d, new, {}) /\ Filed(new)
          BY <1>1, <1>7, <2>1, <2>3, <3>1, <4>1, PruneHomes
        <4> HIDE DEF d, new
        <4> QED
          BY <2>3, <4>1 DEF Stored
      <3>3. d.card = disk.card \ CardAt(disk, dir) /\ d.eml = disk.eml /\ d.side = disk.side
        BY <1>1 DEF Worktree
      <3> HIDE DEF d, new, bare, dir
      <3>4. ASSUME calm, git PROVE Agrees(head', disk', edits')
        <4>1. SameBut(disk, d, {Card(dir)}) /\ Card(dir) \notin FilesOf(d)
          BY <1>1, <3>3, CardRemoved
        <4>2. edits' = Upserting(Removing(edits, {Card(dir)}), {})
          BY <1>1, <2>3, HalfAnEdit
        <4>3. {Card(dir)} \cup {} = {Card(dir)} /\ {Card(dir)} \ {} = {Card(dir)}
          OBVIOUS
        <4>4. \A file \in {Card(dir)} : file \notin FilesOf(d)
          BY <4>1
        <4>5. Agrees(head, d, edits')
          BY <1>4, <3>4, <4>1, <4>2, <4>3, <4>4, AgreesAfter
        <4> QED
          BY <2>1, <2>3, <4>5
      <3>5. calm => (git => Agrees(head', disk', edits'))
        BY <3>4
      <3> QED
        BY <1>8, <2>1, <3>2, <3>5
    <2> QED
      BY <2>1, <2>2, <2>3
  <1>14. CASE Commit
    <2>1. /\ pc = "commit" /\ pc' = "save" /\ head' = BuiltTree /\ edits' = NoEdits /\ UNCHANGED <<disk, saved, ix, done>>
      BY <1>14 DEF Commit, pass
    <2>2. calm => Stored(ix, {})'
      BY <1>7, <2>1 DEF Stored
    <2>3. calm => (git => Agrees(head', disk', edits'))
      BY <1>4, <2>1, CommitIsCopy
    <2> QED
      BY <1>5, <1>8, <2>1, <2>2, <2>3
  <1>15. CASE Save
    <2>1. pc = "save" /\ pc' = "idle" /\ plan' = NoPlan /\ edits' \in {NoEdits, edits} /\ UNCHANGED <<disk, head>>
      BY <1>15 DEF Save, Forget
    <2>2. saved' # None /\ saved'.index = ix
      BY <1>1, <1>15, CheckpointSaves
    <2>3. Opened' = ix
      BY <2>2 DEF Opened
    <2>4. calm => Stored(Opened, {})'
      BY <1>7, <2>1, <2>3 DEF Stored
    <2>5. calm => (git => Agrees(head', disk', edits'))
      BY <1>1, <1>4, <2>1 DEF DiskInv
    <2> QED
      BY <1>2, <1>5, <2>1, <2>2, <2>4, <2>5 DEF HeldInv, DiskInv
  <1> QED
    BY <1>3, <1>5, <1>6, <1>9, <1>11, <1>12, <1>13, <1>14, <1>15

\* Every step keeps the worktree a copy of the index, and none but an
\* interruption fails the pass.
LEMMA StepHeld ==
    ASSUME HeldInv, Unbroken', [Next]_vars
    PROVE  /\ HeldInv'
           /\ calm /\ done' = "failed" => done = "failed"
  <1>1. IndexInv /\ IndexInv'
    BY StepPlaced DEF HeldInv, PlainOrUnbroken
  <1>2. CASE Account
    <2>1. UNCHANGED <<git, durable, process, pc, todo, stage, listed, plan, done>> /\ (calm' => calm)
      BY <1>2 DEF Account, CreateBox, RelocateBox, DestroyBox, FileMessage, ServerBoxes, ServerStep, pass
    <2> QED
      BY <1>1, <2>1, RestHeld
  <1>3. CASE Pass
    <2>1. CASE \/ \E kind \in {"sync", "refresh"} : Begin(kind)
               \/ ListMailboxes \/ PlanSync \/ PlanAll \/ UpsertsDone
      <3>1. done' \in {"none", "sync", done}
        BY <2>1 DEF Begin, ListMailboxes, PlanSync, PlanAll, UpsertsDone, pass
      <3> QED
        BY <1>1, <2>1, <3>1, PlanningHeld
    <2>2. ASSUME NEW b \in Box, RenameDir(b) \/ RenameFails(b) \/ MakeDir(b) \/ WriteCard(b)
          PROVE  HeldInv' /\ (calm /\ done' = "failed" => done = "failed")
      <3>1. HeldInv' /\ (calm => ~RenameFails(b))
        BY <1>1, <2>2, UpsertHeld
      <3>2. ~RenameFails(b) => done' = done
        BY <2>2 DEF RenameDir, MakeDir, WriteCard, pass
      <3> QED
        BY <3>1, <3>2
    <2>3. ASSUME NEW m \in Msg, AddMail(m) \/ UpdateMail(m) \/ DeleteMail(m)
          PROVE  HeldInv' /\ done' = done
      <3>1. done' = done
        BY <2>3 DEF AddMail, UpdateMail, DeleteMail
      <3> QED
        BY <1>1, <2>3, <3>1, MailHeld
    <2>4. CASE CommitDay \/ MailDone \/ (\E b \in Box : Prune(b)) \/ PruneDone
               \/ Commit \/ CommitFails \/ Save
      <3>1. HeldInv' /\ (calm => ~CommitFails)
        BY <1>1, <2>4, ConcludingHeld
      <3>2. ~CommitFails => done' \in {done, stage}
        BY <2>4 DEF CommitDay, MailDone, Prune, PruneDone, Commit, Save, pass
      <3>3. stage # "failed"
        BY <1>1 DEF IndexInv, TypeInv, PassTyped
      <3> QED
        BY <3>1, <3>2, <3>3
    <2> QED
      BY <1>3, <2>1, <2>2, <2>3, <2>4 DEF Pass
  <1>4. CASE Interrupt
    <2>1. stops \in 0 .. MaxStops
      BY <1>1 DEF IndexInv, TypeInv, PassTyped
    <2> QED
      BY <1>4, <2>1, TreeBounds DEF Interrupt, Unbroken
  <1>5. CASE UNCHANGED vars
    <2>1. UNCHANGED <<git, durable, process, pc, todo, stage, listed, plan, done>> /\ (calm' => calm)
      BY <1>5 DEF vars, account, pass
    <2> QED
      BY <1>1, <2>1, RestHeld
  <1> QED
    BY <1>2, <1>3, <1>4, <1>5 DEF Next

\* The worktree is a copy of the index, up to the first interruption.
LEMMA SpecHeld == Spec => [](Unbroken => HeldInv)
  <1>1. Init => HeldInv
    BY InitTyped, InitPlaced, InitHeld
  <1>2. TypeInv /\ (Unbroken => HeldInv) /\ [Next]_vars => (Unbroken => HeldInv)'
    BY StopsStay, StepHeld
  <1> QED
    BY <1>1, <1>2, SpecTyped, PTL DEF Spec

\* While nothing interrupts a pass none fails: each directory to rename is
\* there and its new name free, each file to commit is there, whatever the
\* mailboxes, their names and the changes of the account meanwhile. Excepted is what
\* comes after a backfill of a git store that met no mail: its directories are in no
\* commit (backfill.rs:162-173), the next process makes their names
\* anew, and a later rename onto one of them fails. So is what comes after a
\* reconciliation begun while mail waits in `_unfiled`.
THEOREM PassesEndWell == Spec /\ []Unbroken => Resumes
  <1>1. HeldInv /\ Unbroken' /\ [Next]_vars
           => [calm /\ done' = "failed" /\ done # "failed" => stops' # stops]_vars
    <2>1. HeldInv /\ Unbroken' /\ [Next]_vars
             => (calm /\ done' = "failed" /\ done # "failed" => stops' # stops)
      BY StepHeld
    <2> QED
      BY <2>1
  <1> QED
    BY <1>1, SpecHeld, PTL DEF Spec, Resumes

\* What the next pass takes for held is on disk where its index says, up to the
\* first interruption and with the two exceptions of calm.
THEOREM TheIndexedIsHeld == Spec => [](Unbroken => IndexedIsHeld)
  <1>1. HeldInv => IndexedIsHeld
    <2> SUFFICES ASSUME HeldInv, calm, pc = "idle", saved # None, NEW index \in OpenIndex
                 PROVE  /\ \A b \in KnownIn(index.box) \ retired :
                              [at |-> index.box[b].dir, box |-> b, info |-> index.box[b].info] \in disk.card
                        /\ \A m \in Msg : index.mail[m] # None =>
                              /\ HasEml(disk, index.mail[m].dir, m)
                              /\ [at |-> index.mail[m].dir, msg |-> m, in |-> index.mail[m].in] \in disk.side
      BY DEF IndexedIsHeld
    <2>1. index = saved.index
      BY OpenIndexPlaced DEF HeldInv
    <2>2. IsCopy(disk, index)
      BY <2>1 DEF HeldInv, DiskInv, Stored, Opened
    <2>3. \A b \in KnownIn(index.box) : CardOf(index, b) \in disk.card
      BY <2>2 DEF IsCopy, CardsOf
    <2>4. \A m \in Msg : index.mail[m] # None => EmlOf(index, m) \in disk.eml /\ SideOf(index, m) \in disk.side
      BY <2>2 DEF IsCopy, EmlsOf, SidesOf, KnownMail
    <2> QED
      BY <2>3, <2>4 DEF CardOf, EmlOf, SideOf, HasEml
  <1> QED
    BY <1>1, SpecHeld, PTL

\* A scan of a copy of an index gives the index.
LEMMA RebuiltFromCopy ==
    ASSUME NEW index \in Index, NEW t, t.card = CardsOf(index), t.side = SidesOf(index)
    PROVE  Rebuilt(t) = {index}
  <1> DEFINE cards(b) == {c \in t.card : c.box = b}
             copies(m) == {f \in t.side : f.msg = m}
             once(s) == /\ \A b \in Box : Cardinality(s \cap cards(b)) = Min({1, Cardinality(cards(b))})
                        /\ \A m \in Msg : Cardinality(s \cap copies(m)) = Min({1, Cardinality(copies(m))})
             last == {s \in SUBSET (t.card \cup t.side) : once(s)}
             box(s) == [b \in Box |-> IF cards(b) = {} THEN None
                            ELSE LET c == CHOOSE c \in s : c \in cards(b)
                                 IN  [info |-> c.info, dir |-> c.at]]
             held(s) == [m \in Msg |-> IF copies(m) = {} THEN None
                            ELSE LET f == CHOOSE f \in s : f \in copies(m)
                                 IN  [in |-> f.in, dir |-> f.at]]
             found(s) == [box |-> box(s), mail |-> held(s)]
             all == t.card \cup t.side
  <1>1. Rebuilt(t) = {found(s) : s \in last}
    BY DEF Rebuilt
  <1>2. ASSUME NEW b \in Box
        PROVE  /\ b \in KnownIn(index.box) => cards(b) = {CardOf(index, b)}
               /\ b \notin KnownIn(index.box) => cards(b) = {}
    <2>1. \A c \in KnownIn(index.box) : CardOf(index, c).box = c
      BY DEF CardOf
    <2> QED
      BY <2>1 DEF CardsOf
  <1>3. ASSUME NEW m \in Msg
        PROVE  /\ m \in KnownMail(index) => copies(m) = {SideOf(index, m)}
               /\ m \notin KnownMail(index) => copies(m) = {}
    <2>1. \A k \in KnownMail(index) : SideOf(index, k).msg = k
      BY DEF SideOf
    <2> QED
      BY <2>1 DEF SidesOf
  <1>4. /\ \A b \in Box : cards(b) \subseteq all
        /\ \A m \in Msg : copies(m) \subseteq all
        /\ t.card = UNION {cards(b) : b \in Box} /\ t.side = UNION {copies(m) : m \in Msg}
    <2>1. \A c \in t.card : c.box \in Box
      BY DEF CardsOf, CardOf, KnownIn
    <2>2. \A f \in t.side : f.msg \in Msg
      BY DEF SidesOf, SideOf, KnownMail
    <2> QED
      BY <2>1, <2>2
  <1> HIDE DEF cards, copies
  <1>5. ASSUME NEW s
        PROVE  once(s) <=> /\ \A b \in Box : cards(b) \subseteq s
                           /\ \A m \in Msg : copies(m) \subseteq s
    <2>1. ASSUME NEW b \in Box
          PROVE  Cardinality(s \cap cards(b)) = Min({1, Cardinality(cards(b))}) <=> cards(b) \subseteq s
      BY <1>2, AllOfOne
    <2>2. ASSUME NEW m \in Msg
          PROVE  Cardinality(s \cap copies(m)) = Min({1, Cardinality(copies(m))}) <=> copies(m) \subseteq s
      <3>1. copies(m) = {SideOf(index, m)} \/ copies(m) = {}
        BY <1>3
      <3> QED
        BY <3>1, AllOfOne
    <2> QED
      BY <2>1, <2>2
  <1>6. last = {all}
    <2>1. all \in last
      <3> HIDE DEF all, once
      <3> QED
        BY <1>4, <1>5 DEF all
    <2>2. ASSUME NEW s \in last PROVE s = all
      <3>1. once(s) /\ s \subseteq all
        OBVIOUS
      <3>2. all \subseteq s
        <4> HIDE DEF once, last
        <4>1. /\ \A b \in Box : cards(b) \subseteq s
              /\ \A m \in Msg : copies(m) \subseteq s
          BY <1>5, <3>1
        <4> QED
          BY <1>4, <4>1
      <3> QED
        BY <3>1, <3>2
    <2> QED
      BY <2>1, <2>2
  <1> HIDE DEF once, last
  <1>7. box(all) = index.box
    <2>1. ASSUME NEW b \in Box PROVE box(all)[b] = index.box[b]
      <3>1. CASE b \notin KnownIn(index.box)
        BY <1>2, <3>1 DEF KnownIn
      <3>2. CASE b \in KnownIn(index.box)
        <4>1. cards(b) = {CardOf(index, b)} /\ CardOf(index, b) \in all
          BY <1>2, <1>4, <3>2
        <4>2. (CHOOSE c \in all : c \in cards(b)) = CardOf(index, b)
          <5> HIDE DEF all
          <5> QED
            BY <4>1, AllOfOne
        <4>3. box(all)[b] = [info |-> CardOf(index, b).info, dir |-> CardOf(index, b).at]
          <5> HIDE DEF all
          <5> QED
            BY <4>1, <4>2
        <4>4. index.box[b] = [info |-> index.box[b].info, dir |-> index.box[b].dir]
          BY <3>2, IndexEntries DEF BoxEntry
        <4> QED
          BY <4>3, <4>4 DEF CardOf
      <3> QED
        BY <3>1, <3>2
    <2>2. index.box = [b \in Box |-> index.box[b]]
      BY DEF Index
    <2>3. box(all) = [b \in Box |-> box(all)[b]]
      OBVIOUS
    <2> HIDE DEF box
    <2> QED
      BY <2>1, <2>2, <2>3
  <1>8. held(all) = index.mail
    <2>1. ASSUME NEW m \in Msg PROVE held(all)[m] = index.mail[m]
      <3>1. CASE m \notin KnownMail(index)
        BY <1>3, <3>1 DEF KnownMail
      <3>2. CASE m \in KnownMail(index)
        <4>1. copies(m) = {SideOf(index, m)} /\ SideOf(index, m) \in all
          BY <1>3, <1>4, <3>2
        <4>2. (CHOOSE f \in all : f \in copies(m)) = SideOf(index, m)
          <5> HIDE DEF all
          <5> QED
            BY <4>1, AllOfOne
        <4>3. held(all)[m] = [in |-> SideOf(index, m).in, dir |-> SideOf(index, m).at]
          <5> HIDE DEF all
          <5> QED
            BY <4>1, <4>2
        <4>4. index.mail[m] = [in |-> index.mail[m].in, dir |-> index.mail[m].dir]
          BY <3>2, IndexEntries DEF MailEntry, KnownMail
        <4> QED
          BY <4>3, <4>4 DEF SideOf
      <3> QED
        BY <3>1, <3>2
    <2>2. index.mail = [m \in Msg |-> index.mail[m]]
      BY DEF Index
    <2>3. held(all) = [m \in Msg |-> held(all)[m]]
      OBVIOUS
    <2> HIDE DEF held
    <2> QED
      BY <2>1, <2>2, <2>3
  <1>9. found(all) = index
    <2>1. index = [box |-> index.box, mail |-> index.mail]
      BY DEF Index
    <2> QED
      BY <1>7, <1>8, <2>1
  <1> HIDE DEF found
  <1> QED
    BY <1>1, <1>6, <1>9

\* No edit waits before a pass has written anything.
CleanInv ==
    calm => (pc \in {"idle", "list"} \/ (pc = "plan" /\ stage = "sync") => edits = NoEdits)

\* Edits are recorded by the steps that write, and a save leaves none.
LEMMA StepClean ==
    ASSUME HeldInv, CleanInv, Unbroken', [Next]_vars
    PROVE  CleanInv'
  <1>1. IndexInv /\ HeldInv'
    BY StepHeld DEF HeldInv
  <1>2. calm' => calm
    BY CalmStays
  <1>3. ASSUME UNCHANGED <<edits, pc, stage>> PROVE CleanInv'
    BY <1>2, <1>3 DEF CleanInv
  <1>4. ASSUME ~(pc' \in {"idle", "list"} \/ (pc' = "plan" /\ stage' = "sync")) PROVE CleanInv'
    BY <1>4 DEF CleanInv
  <1>5. CASE Account
    <2>1. UNCHANGED <<edits, pc, stage>>
      BY <1>5 DEF Account, CreateBox, RelocateBox, DestroyBox, FileMessage, ServerBoxes, ServerStep, process, pass
    <2> QED
      BY <1>3, <2>1
  <1>6. CASE UNCHANGED vars
    BY <1>3, <1>6 DEF vars, process, pass
  <1>7. CASE Pass
    <2>1. ASSUME NEW kind \in {"sync", "refresh"}, Begin(kind) PROVE CleanInv'
      <3>1. pc = "idle" /\ UNCHANGED edits
        BY <2>1 DEF Begin
      <3> QED
        BY <1>2, <3>1 DEF CleanInv
    <2>2. CASE ListMailboxes
      <3>1. pc = "list" /\ UNCHANGED edits
        BY <2>2 DEF ListMailboxes, process
      <3> QED
        BY <1>2, <3>1 DEF CleanInv
    <2>3. CASE PlanSync
      <3>1. pc = "plan" /\ stage = "sync" /\ UNCHANGED edits
        BY <2>3 DEF PlanSync
      <3> QED
        BY <1>2, <3>1 DEF CleanInv
    <2>4. CASE PlanAll
      <3>1. pc' = "mail"
        BY <2>4 DEF PlanAll
      <3> QED
        BY <1>4, <3>1
    <2>5. CASE UpsertsDone
      <3>1. pc' = (IF stage = "sync" THEN "mail" ELSE "plan") /\ UNCHANGED stage
        BY <2>5 DEF UpsertsDone, pass
      <3> QED
        BY <1>4, <3>1
    <2>6. ASSUME NEW b \in Box, RenameDir(b) \/ RenameFails(b) \/ MakeDir(b) \/ WriteCard(b)
          PROVE  CleanInv'
      <3>1. calm => ~RenameFails(b)
        BY <1>1, <2>6, UpsertHeld DEF HeldInv
      <3>2. ~RenameFails(b) => pc' \in {"upsert", "card"}
        BY <2>6 DEF RenameDir, MakeDir, WriteCard
      <3> QED
        BY <1>2, <3>1, <3>2 DEF CleanInv
    <2>7. ASSUME NEW m \in Msg, AddMail(m) \/ UpdateMail(m) \/ DeleteMail(m) PROVE CleanInv'
      <3>1. pc' = "mail"
        BY <2>7 DEF AddMail, UpdateMail, DeleteMail
      <3> QED
        BY <1>4, <3>1
    <2>8. CASE CommitDay \/ MailDone \/ (\E b \in Box : Prune(b)) \/ PruneDone \/ Commit
      <3>1. pc' \in {"mail", "prune", "commit", "save"}
        BY <2>8 DEF CommitDay, MailDone, Prune, PruneDone, Commit
      <3> QED
        BY <1>4, <3>1
    <2>9. CASE CommitFails
      BY <2>9 DEF CommitFails, CleanInv
    <2>10. CASE Save
      <3>1. edits' \in {NoEdits} \cup (IF git /\ NoDays THEN {edits} ELSE {}) /\ pc = "save"
        BY <2>10 DEF Save
      <3>2. calm => ~(git /\ NoDays)
        BY <1>1, <3>1 DEF IndexInv, OpeningInv
      <3> QED
        BY <1>2, <3>1, <3>2 DEF CleanInv
    <2> QED
      BY <1>7, <2>1, <2>2, <2>3, <2>4, <2>5, <2>6, <2>7, <2>8, <2>9, <2>10 DEF Pass
  <1>8. CASE Interrupt
    <2>1. stops \in 0 .. MaxStops
      BY <1>1 DEF IndexInv, TypeInv, PassTyped
    <2> QED
      BY <1>8, <2>1, TreeBounds DEF Interrupt, Unbroken
  <1> QED
    BY <1>5, <1>6, <1>7, <1>8 DEF Next

\* The index is only a cache: between passes none of which was interrupted, a
\* scan of the commit (of the worktree, in a plain store) gives the index that
\* was saved, with the two exceptions of calm.
THEOREM TheIndexIsACache == Spec => [](Unbroken => IndexRebuildable)
  <1>1. Init => CleanInv
    BY DEF Init, CleanInv
  <1>2. /\ TypeInv /\ (Unbroken => HeldInv) /\ (Unbroken => CleanInv) /\ [Next]_vars
        => (Unbroken => CleanInv)'
    BY StopsStay, StepClean
  <1>3. HeldInv /\ CleanInv => IndexRebuildable
    <2> SUFFICES ASSUME HeldInv, CleanInv, calm, pc = "idle", done \in {"sync", "refresh"}
                 PROVE  Rebuilt(disk) = {saved.index} /\ (git => Rebuilt(head) = {saved.index})
      BY DEF IndexRebuildable
    <2>1. saved # None /\ IsCopy(disk, saved.index)
      BY DEF HeldInv, DiskInv, Stored, Opened
    <2>2. saved.index \in Index
      BY <2>1 DEF HeldInv, IndexInv, TypeInv, StoreTyped, Saved
    <2>3. Rebuilt(disk) = {saved.index}
      BY <2>1, <2>2, RebuiltFromCopy DEF IsCopy
    <2>4. ASSUME git PROVE head.card = disk.card /\ head.side = disk.side
      <3>1. Agrees(head, disk, NoEdits)
        BY <2>4 DEF HeldInv, DiskInv, CleanInv
      <3>2. /\ \A c : c \in head.card <=> c \in disk.card
            /\ \A f : f \in head.side <=> f \in disk.side
        BY <3>1 DEF Agrees, NoEdits
      <3> QED
        BY <3>2
    <2>5. ASSUME git PROVE Rebuilt(head) = {saved.index}
      BY <2>1, <2>2, <2>4, <2>5, RebuiltFromCopy DEF IsCopy
    <2> QED
      BY <2>3, <2>5
  <1> QED
    BY <1>1, <1>2, <1>3, SpecTyped, SpecHeld, PTL DEF Spec

-----------------------------------------------------------------------------
(* A pass and the account, which changes meanwhile.                         *)

\* No mailbox is heard of that the account has not, or has had: the mailboxes a
\* pass finds gone are gone for good.
Ids(t) == KnownIn(t) \subseteq KnownIn(boxes) \cup retired
AccountInv ==
    /\ \A m \in Msg : /\ mail[m] \subseteq KnownIn(boxes) /\ touched[m] <= version
                      /\ mail[m] # {} => touched[m] # 0
    /\ retired \cap KnownIn(boxes) = {}
    /\ calm => Ids(listed) /\ Ids(ix.box) /\ Ids(Opened.box) /\ gone \subseteq retired

\* The saved cursor, the version the pass will save and the account's are in
\* this order, and a catch-up's changes are all that came between the first two.
TimeInv == calm =>
    /\ Cursor <= version
    /\ pc = "idle" /\ saved # None => Cursor # 0
    /\ pc # "idle" =>
         /\ Cursor <= target /\ target <= version
         /\ (stage = "backfill" <=> Cursor = 0) /\ target # 0
         /\ stage = "sync" /\ target = Cursor =>
              pc = "plan" /\ delta.changed \cup delta.destroyed = {} /\ todo \cup gone = {}
         /\ stage = "sync" => \A m \in Msg : touched[m] <= target =>
               /\ m \in delta.changed <=> touched[m] > Cursor /\ mail[m] # {}
               /\ m \in delta.destroyed <=> touched[m] > Cursor /\ mail[m] = {}

\* A catch-up that had nothing to fetch lists no mailboxes.
Direct == pc = "plan" /\ stage = "sync" /\ target = Cursor

\* The mailboxes listed hold all mail up to the version the pass will save, and
\* once they are written the index says of each what the list says.
ListFacts ==
    /\ \A m \in Msg : touched[m] <= target => mail[m] \subseteq KnownIn(listed)
    /\ target = version => listed = boxes
    /\ gone \cap KnownIn(listed) = {}
    /\ pc = "prune" => todo \subseteq gone
    /\ stage # "backfill" => KnownIn(ix.box) \subseteq KnownIn(listed) \cup gone
    /\ pc \in {"mail", "prune", "commit", "save"} \/ (pc = "plan" /\ stage # "sync") =>
         \A b \in KnownIn(listed) : InfoOf(ix)[b] = listed[b]
ListInv == calm /\ pc \notin {"idle", "list"} /\ ~Direct => ListFacts

\* A message as an entry of the index says it. With a filter a catch-up may
\* leave one out, and it does not look again at what has not changed.
UpToDate(e, m) ==
    /\ IF mail[m] = {} THEN e = None ELSE filter = None => e # None /\ e.in = mail[m]
    /\ e # None => e.dir # Unfiled

\* The mail a pass has still to write, fetch again or remove.
Queued == plan.add \cup plan.update \cup plan.delete

\* All mail up to the saved cursor is as the index says; at the end of a pass,
\* all mail up to the version it is about to save.
OpenedUpToDate == \A m \in Msg : touched[m] <= Cursor => UpToDate(Opened.mail[m], m)
HeldUpToDate == pc # "idle" => \A m \in Msg : touched[m] <= Cursor => UpToDate(ix.mail[m], m)
FiledAtFirst ==
    pc \in {"list", "upsert", "card", "plan"} =>
       /\ stage = "backfill" => KnownMail(ix) = {}
       /\ stage = "refresh" => \A m \in KnownMail(ix) : ix.mail[m].dir # Unfiled
PlannedUpToDate ==
    pc = "mail" \/ (pc \in {"upsert", "card"} /\ stage = "sync") =>
       \A m \in Msg : touched[m] <= target =>
          /\ m \in plan.add \cup plan.update => plan.in[m] = mail[m] /\ mail[m] # {}
          /\ m \in plan.delete => mail[m] = {} \/ filter # None
          /\ m \notin Queued => UpToDate(ix.mail[m], m)
DoneUpToDate ==
    pc \in {"prune", "commit", "save"} =>
       \A m \in Msg : touched[m] <= target => UpToDate(ix.mail[m], m)
MailInv ==
    calm => OpenedUpToDate /\ HeldUpToDate /\ FiledAtFirst /\ PlannedUpToDate /\ DoneUpToDate

\* With the cursor at the account's version, the index has its mailboxes.
BoxInv == calm /\ Cursor = version => \A b \in KnownIn(boxes) : InfoOf(Opened)[b] = boxes[b]

\* What a refresh of a quiet account keeps is what the filter passes on, that
\* and no more, under the mailboxes it is in.
Wanted(m) == mail[m] # {} /\ Matches(boxes, mail[m])
Exact(e, m) == IF Wanted(m) THEN e # None /\ e.in = mail[m] ELSE e = None
PlannedExact ==
    stage = "refresh" /\ target = version /\ pc = "mail" =>
       \A m \in Msg :
          /\ m \in plan.add \cup plan.update => Wanted(m) /\ plan.in[m] = mail[m]
          /\ m \in plan.delete => ~Wanted(m)
          /\ m \notin Queued => Exact(ix.mail[m], m)
DoneExact ==
    stage = "refresh" /\ target = version /\ pc \in {"prune", "commit", "save"} =>
       \A m \in Msg : Exact(ix.mail[m], m)
OpenedExact ==
    pc = "idle" /\ done = "refresh" /\ Cursor = version =>
       \A m \in Msg : Exact(Opened.mail[m], m)
FullInv == calm => PlannedExact /\ DoneExact /\ OpenedExact

\* A refresh files no mail under a mailbox that is gone, so one that has to stay
\* has contents that are another such mailbox's: the deepest cannot stay.
ThinFacts ==
    /\ pc \in {"mail", "prune"} => \A m \in Msg : plan.in[m] \cap gone = {}
    /\ pc = "mail" => \A m \in KnownMail(ix) : m \in plan.update \cup plan.delete \/ ix.mail[m].in = plan.in[m]
    /\ pc = "prune" => /\ \A m \in KnownMail(ix) : ix.mail[m].in = plan.in[m]
                       /\ gone \subseteq KnownIn(ix.box) => \A b \in gone \ todo :
                             \E c \in gone : Above(ix.box[b].dir, ix.box[c].dir)
    /\ pc \in {"commit", "save"} /\ gone # {} => ~(gone \subseteq KnownIn(ix.box))
ThinInv == calm /\ stage = "refresh" => ThinFacts

\* The account moves on by itself: what it changes it marks with a new version.
LEMMA AccountEffect ==
    ASSUME TypeInv, AccountInv, Account, calm' = calm
    PROVE  /\ UNCHANGED <<filter, git, calm, saved, ix, pc, todo, stage, delta, listed, gone,
                          plan, target, done>>
           /\ version' = version + 1
           /\ \A m \in Msg : \/ touched'[m] = version + 1
                             \/ touched'[m] = touched[m] /\ mail'[m] = mail[m]
           /\ AccountInv'
  <1>1. AccountTyped /\ version \in Nat
    BY TreeBounds DEF TypeInv, AccountTyped
  <1>2. /\ UNCHANGED <<filter, git, calm, saved, ix, pc, todo, stage, delta, listed, gone,
                       plan, target, done>>
        /\ version' = version + 1
    BY DEF Account, CreateBox, RelocateBox, DestroyBox, FileMessage, ServerBoxes, ServerStep,
           pass, durable, process
  <1> DEFINE Effect == /\ \A m \in Msg : /\ mail'[m] \subseteq KnownIn(boxes')
                                         /\ \/ touched'[m] = version + 1
                                            \/ touched'[m] = touched[m] /\ mail'[m] = mail[m]
                       /\ retired' \cap KnownIn(boxes') = {}
                       /\ KnownIn(boxes) \cup retired \subseteq KnownIn(boxes') \cup retired'
                       /\ retired \subseteq retired'
  <1>3. ASSUME NEW b \in Box, NEW name \in Name, NEW parent \in Box \cup {None},
               CreateBox(b, name, parent) \/ RelocateBox(b, name, parent)
        PROVE  Effect
    <2>1. UNCHANGED <<mail, touched, retired>> /\ (Exists(b) \/ b \notin retired)
      BY <1>3 DEF CreateBox, RelocateBox, ServerBoxes
    <2>2. [name |-> name, parent |-> parent] \in Info
      BY DEF Info
    <2>3. boxes' = [boxes EXCEPT ![b] = [name |-> name, parent |-> parent]]
      BY <1>3 DEF CreateBox, RelocateBox
    <2>4. KnownIn(boxes') = KnownIn(boxes) \cup {b}
      BY <1>1, <2>2, <2>3, NoneAssumption DEF AccountTyped, KnownIn
    <2>5. b \notin retired
      BY <2>1 DEF AccountInv, KnownIn, Exists
    <2> QED
      BY <2>1, <2>4, <2>5 DEF AccountInv
  <1>4. ASSUME NEW b \in Box, DestroyBox(b) PROVE Effect
    <2>1. /\ boxes' = [boxes EXCEPT ![b] = None] /\ retired' = retired \cup {b}
          /\ mail' = [m \in Msg |-> mail[m] \ {b}]
          /\ touched' = [m \in Msg |-> IF b \in mail[m] THEN version + 1 ELSE touched[m]]
      BY <1>4 DEF DestroyBox
    <2>2. KnownIn(boxes') = KnownIn(boxes) \ {b}
      BY <1>1, <2>1 DEF AccountTyped, KnownIn
    <2>3. \A m \in Msg : mail[m] \subseteq KnownIn(boxes)
      BY DEF AccountInv
    <2>4. \A m \in Msg : mail'[m] = mail[m] \ {b}
                         /\ touched'[m] = IF b \in mail[m] THEN version + 1 ELSE touched[m]
      BY <2>1
    <2>5. \A m \in Msg : /\ mail'[m] \subseteq KnownIn(boxes')
                         /\ touched'[m] = version + 1
                            \/ (touched'[m] = touched[m] /\ mail'[m] = mail[m])
      BY <2>2, <2>3, <2>4
    <2> QED
      BY <2>1, <2>2, <2>5 DEF AccountInv
  <1>5. ASSUME NEW m \in Msg, NEW in \in SUBSET Box, FileMessage(m, in) PROVE Effect
    <2>1. UNCHANGED <<boxes, retired>> /\ in \subseteq KnownIn(boxes)
      BY <1>5 DEF FileMessage, KnownIn, Exists
    <2>2. mail' = [mail EXCEPT ![m] = in] /\ touched' = [touched EXCEPT ![m] = version + 1]
      BY <1>5 DEF FileMessage
    <2>3. \A n \in Msg : /\ mail'[n] = IF n = m THEN in ELSE mail[n]
                         /\ touched'[n] = IF n = m THEN version + 1 ELSE touched[n]
      BY <1>1, <2>2 DEF AccountTyped
    <2> QED
      BY <2>1, <2>3 DEF AccountInv
  <1>6. Effect
    BY <1>3, <1>4, <1>5 DEF Account
  <1>7. \A m \in Msg : touched[m] \in Nat
    BY <1>1, TreeBounds DEF AccountTyped
  <1>8. \A m \in Msg : /\ mail'[m] \subseteq KnownIn(boxes') /\ touched'[m] <= version'
                       /\ mail'[m] # {} => touched'[m] # 0
    <2> SUFFICES ASSUME NEW m \in Msg
                 PROVE  /\ mail'[m] \subseteq KnownIn(boxes') /\ touched'[m] <= version'
                        /\ mail'[m] # {} => touched'[m] # 0
      OBVIOUS
    <2>1. touched[m] \in Nat /\ touched[m] <= version /\ (mail[m] # {} => touched[m] # 0)
      BY <1>7 DEF AccountInv
    <2>2. CASE touched'[m] = version + 1
      BY <1>1, <1>2, <1>6, <2>2
    <2>3. CASE touched'[m] = touched[m] /\ mail'[m] = mail[m]
      BY <1>1, <1>2, <1>6, <2>1, <2>3
    <2> QED
      BY <1>6, <2>2, <2>3
  <1>9. AccountInv'
    <2>1. calm' => (Ids(listed) /\ Ids(ix.box) /\ Ids(Opened.box) /\ gone \subseteq retired)'
      <3>1. ix' = ix /\ Opened' = Opened /\ gone' = gone /\ calm' = calm /\ listed' = listed
        BY <1>2 DEF Opened
      <3>2. calm => Ids(listed) /\ Ids(ix.box) /\ Ids(Opened.box) /\ gone \subseteq retired
        BY DEF AccountInv
      <3>3. /\ KnownIn(ix'.box) = KnownIn(ix.box) /\ KnownIn(Opened'.box) = KnownIn(Opened.box)
            /\ KnownIn(listed') = KnownIn(listed)
        BY <3>1
      <3> QED
        BY <1>6, <3>1, <3>2, <3>3 DEF Ids
    <2> QED
      BY <1>6, <1>8, <2>1 DEF AccountInv
  <1> QED
    BY <1>2, <1>6, <1>9

\* The steps of a pass that no fault ends.
Working ==
    \/ \E kind \in {"sync", "refresh"} : Begin(kind)
    \/ ListMailboxes \/ PlanSync \/ PlanAll \/ UpsertsDone
    \/ \E b \in Box : RenameDir(b) \/ MakeDir(b) \/ WriteCard(b)
    \/ \E m \in Msg : AddMail(m) \/ UpdateMail(m) \/ DeleteMail(m)
    \/ CommitDay \/ MailDone \/ (\E b \in Box : Prune(b)) \/ PruneDone
    \/ Commit \/ Save

\* There are no others, if nothing interrupts a pass.
LEMMA WorkingSteps ==
    ASSUME HeldInv, Unbroken', calm, [Next]_vars
    PROVE  HeldInv' /\ (Account \/ Working \/ UNCHANGED vars)
  <1>1. IndexInv /\ IndexInv' /\ HeldInv'
    BY StepPlaced, StepHeld DEF HeldInv, PlainOrUnbroken
  <1>2. ~Interrupt
    BY <1>1, TreeBounds DEF IndexInv, TypeInv, PassTyped, Unbroken, Interrupt
  <1>3. ASSUME NEW b \in Box, RenameFails(b) PROVE FALSE
    BY <1>1, <1>3, UpsertHeld
  <1>4. ~CommitFails
    BY <1>1, ConcludingHeld
  <1> QED
    BY <1>1, <1>2, <1>3, <1>4 DEF Next, Pass, Working

\* The numbers and indexes a pass compares.
LEMMA PassNumbers ==
    ASSUME TypeInv
    PROVE  /\ Cursor \in Nat /\ version \in Nat \ {0} /\ target \in Nat
           /\ \A m \in Msg : touched[m] \in Nat
           /\ Opened \in Index /\ ix \in Index
           /\ pc = "idle" <=> pc \notin {"list", "plan", "upsert", "card", "mail", "prune", "commit", "save"}
  <1>1. Cursor \in Nat /\ Opened \in Index
    BY EmptyIndexPlaced, TreeBounds DEF TypeInv, StoreTyped, Cursor, Opened, Saved
  <1>2. version \in Nat \ {0} /\ target \in Nat /\ \A m \in Msg : touched[m] \in Nat
    BY TreeBounds DEF TypeInv, AccountTyped, PassTyped
  <1>3. ix \in Index
    BY DEF TypeInv, ProcessTyped
  <1>4. pc = "idle" <=> pc \notin {"list", "plan", "upsert", "card", "mail", "prune", "commit", "save"}
    BY DEF TypeInv, PassTyped
  <1> QED
    BY <1>1, <1>2, <1>3, <1>4

\* What the next pass opens, and from where it goes on.
LEMMA OpenedAfter ==
    ASSUME TypeInv, TypeInv'
    PROVE  /\ saved' = saved => Cursor' = Cursor /\ Opened' = Opened
           /\ CommitDay => Cursor' = Cursor /\ Opened' = ix
           /\ Save => Cursor' = target /\ Opened' = ix
  <1>1. saved' = saved => Cursor' = Cursor /\ Opened' = Opened
    BY DEF Cursor, Opened
  <1>2. head' \in Tree
    BY DEF TypeInv, StoreTyped
  <1>3. CommitDay \/ Save => saved' # None /\ saved'.index = ix
    BY <1>2, CheckpointSaves
  <1>4. CommitDay => saved'.cursor = Cursor
    BY DEF CommitDay
  <1>5. Save => saved'.cursor = target
    BY DEF Save
  <1> QED
    BY <1>1, <1>3, <1>4, <1>5 DEF Cursor, Opened

\* A pass opens what was saved.
LEMMA BeginOpens ==
    ASSUME HeldInv, calm, NEW kind, Begin(kind)
    PROVE  ix' = Opened
  <1>1. pc = "idle" /\ ix' \in IndexAtHand
    BY DEF Begin
  <1> QED
    BY <1>1, OpenIndexHeld

\* A card adds its mailbox to the index and touches no mail.
LEMMA CardEffect ==
    ASSUME TypeInv, NEW b \in Box, WriteCard(b)
    PROVE  /\ b \in KnownIn(listed) /\ ix'.mail = ix.mail
           /\ KnownIn(ix'.box) \subseteq KnownIn(ix.box) \cup {b}
  <1>1. ix \in Index /\ listed \in TreeOfBoxes
    BY DEF TypeInv, ProcessTyped, PassTyped, TreeOfBoxes
  <1>2. b \in todo /\ pc \in {"upsert", "card"}
    BY DEF WriteCard, Turn
  <1>3. b \in KnownIn(listed)
    BY <1>2 DEF TypeInv, QueuesKnown
  <1>4. PICK e : ix' = [ix EXCEPT !.box[b] = e]
    BY DEF WriteCard
  <1>5. ix'.mail = ix.mail /\ ix'.box = [ix.box EXCEPT ![b] = e]
    BY <1>1, <1>4 DEF Index
  <1>6. \A c \in Box \ {b} : ix'.box[c] = ix.box[c]
    BY <1>1, <1>5 DEF Index
  <1> QED
    BY <1>3, <1>5, <1>6 DEF KnownIn

\* A rename keeps every mailbox and all mail, and what is filed stays filed.
LEMMA RenameEffect ==
    ASSUME HeldInv, IndexInv', calm, NEW b \in Box, RenameDir(b)
    PROVE  /\ KnownIn(ix'.box) = KnownIn(ix.box) /\ KnownMail(ix') = KnownMail(ix)
           /\ \A m \in KnownMail(ix) :
                 /\ ix'.mail[m].in = ix.mail[m].in
                 /\ ix.mail[m].dir # Unfiled => ix'.mail[m].dir # Unfiled
  <1> DEFINE from == ix.box[b].dir
             to == MovedDir(b)
  <1>1. TypeInv /\ ForestInv /\ TypeInv' /\ PlacedInv'
    BY DEF HeldInv, IndexInv
  <1>2. /\ pc = "upsert" /\ Turn(b) /\ ix' = IndexRebased(from, to) /\ b \in KnownIn(ix.box)
        /\ calm' = calm
    BY DEF RenameDir, Moves, KnownIn, account
  <1>3. ix \in Index /\ from \in Path /\ ix' \in Index
    BY <1>1, <1>2, IndexEntries DEF TypeInv, ProcessTyped
  <1>4. AtTurn(b)
    BY <1>1, <1>2, TurnIsReady
  <1>5. b \in KnownIn(listed) /\ listed \in [Box -> Info \cup {None}]
    BY <1>4, ParentPlaced DEF AtTurn, TreeOfBoxes
  <1>6. to \in Path /\ to # <<>>
    BY <1>3, <1>5, AssignedDirs
  <1>7. /\ \A c \in Box : ix'.box[c] = IF ix.box[c] = None THEN None
                  ELSE [info |-> ix.box[c].info, dir |-> Rebased(ix.box[c].dir, from, to)]
        /\ \A m \in Msg : ix'.mail[m] = IF ix.mail[m] = None THEN None
                  ELSE [in |-> ix.mail[m].in, dir |-> Rebased(ix.mail[m].dir, from, to)]
        /\ KnownIn(ix'.box) = KnownIn(ix.box)
        /\ \A m \in Msg : ix'.mail[m] = None <=> ix.mail[m] = None
    <2> HIDE DEF from, to
    <2> QED
      BY <1>2, <1>3, <1>6, IndexRebasedTyped
  <1>8. ix'.box[b].dir = to
    <2>1. ix'.box[b] = [info |-> ix.box[b].info, dir |-> Rebased(from, from, to)]
      BY <1>2, <1>7 DEF KnownIn
    <2>2. Rebased(from, from, to) = to
      BY <1>3, <1>6, RebasedElements
    <2> HIDE DEF from, to
    <2> QED
      BY <2>1, <2>2
  <1>9. to # Unfiled
    <2>1. WellPlaced(ix', PlacedInfo')
      BY <1>1, <1>2 DEF PlacedInv
    <2>2. b \in KnownIn(ix'.box)
      BY <1>2, <1>7
    <2>3. ix'.box[b].dir # Unfiled
      <3> HIDE DEF PlacedInfo
      <3> QED
        BY <1>3, <2>1, <2>2, WellPlacedApart
    <2> QED
      BY <1>8, <2>3
  <1>10. ASSUME NEW m \in KnownMail(ix)
         PROVE  /\ ix'.mail[m].in = ix.mail[m].in
                /\ ix.mail[m].dir # Unfiled => ix'.mail[m].dir # Unfiled
    <2> DEFINE q == ix.mail[m].dir
    <2>1. m \in Msg /\ ix.mail[m] # None /\ q \in Path
      BY <1>3, <1>10, IndexEntries DEF KnownMail
    <2>2. ix'.mail[m] = [in |-> ix.mail[m].in, dir |-> Rebased(q, from, to)]
      BY <1>7, <2>1
    <2> HIDE DEF q, from, to
    <2>3. ix'.mail[m].in = ix.mail[m].in /\ ix'.mail[m].dir = Rebased(q, from, to)
      BY <2>2
    <2>4. CASE IsPrefix(from, q)
      <3>1. Rebased(q, from, to) \in Path /\ IsPrefix(to, Rebased(q, from, to))
        BY <1>3, <1>6, <2>1, <2>4, RebasedElements DEF from
      <3> QED
        BY <1>6, <1>9, <2>3, <3>1, UnfiledIsTop
    <2>5. CASE ~IsPrefix(from, q)
      <3>1. Rebased(q, from, to) = q
        BY <1>3, <1>6, <2>1, <2>5, RebasedElements DEF from
      <3> QED
        BY <2>3, <3>1 DEF q
    <2> QED
      BY <2>3, <2>4, <2>5
  <1> QED
    BY <1>7, <1>10 DEF KnownMail

\* Mail that is in a mailbox the index knows goes to a mailbox's directory.
LEMMA MailIsFiled ==
    ASSUME NEW index \in Index, NEW f, WellPlaced(index, f),
           NEW in, in \cap KnownIn(index.box) # {}
    PROVE  DirFor(index, in) # Unfiled
  <1>1. PICK b \in KnownIn(index.box) : DirFor(index, in) = index.box[b].dir
    BY DirForMail
  <1>2. index.box[b].dir # Unfiled
    BY WellPlacedApart
  <1> QED
    BY <1>1, <1>2

\* A change of mail is done to one message, and is off the plan.
LEMMA MailEffect ==
    ASSUME HeldInv, calm, NEW m \in Msg, AddMail(m) \/ UpdateMail(m) \/ DeleteMail(m)
    PROVE  /\ pc = "mail" /\ pc' = "mail" /\ ix'.box = ix.box /\ plan'.in = plan.in
           /\ \A k \in Msg \ {m} : ix'.mail[k] = ix.mail[k]
           /\ \/ /\ m \in plan.add \cup plan.update
                 /\ ix'.mail[m] = [in |-> plan.in[m], dir |-> DirFor(ix, plan.in[m])]
                 /\ ix'.mail[m] # None
              \/ m \in plan.delete /\ ix'.mail[m] = None
           /\ plan'.add \subseteq plan.add /\ plan'.update \subseteq plan.update
           /\ plan'.delete \subseteq plan.delete
           /\ Queued \ {m} \subseteq Queued'
           /\ (plan.update \cup plan.delete) \ {m} \subseteq plan'.update \cup plan'.delete
  <1>1. /\ ix \in Index /\ plan.in \in [Msg -> SUBSET Box] /\ pc = "mail" /\ pc' = "mail"
        /\ plan \in [add : SUBSET Msg, update : SUBSET Msg, delete : SUBSET Msg,
                     in : [Msg -> SUBSET Box], uncommitted : BOOLEAN]
    BY DEF HeldInv, IndexInv, TypeInv, ProcessTyped, PassTyped, AddMail, UpdateMail, DeleteMail
  <1> DEFINE new == [in |-> plan.in[m], dir |-> DirFor(ix, plan.in[m])]
  <1>2. new # None
    <2>1. new \in MailEntry
      BY <1>1, DirForPath DEF MailEntry
    <2> QED
      BY <2>1, NoneAssumption
  <1>3. ASSUME NEW e, ix' = [ix EXCEPT !.mail[m] = e]
        PROVE  /\ ix'.box = ix.box /\ ix'.mail[m] = e
               /\ \A k \in Msg \ {m} : ix'.mail[k] = ix.mail[k]
    BY <1>1, <1>3 DEF Index
  <1> HIDE DEF new
  <1>4. CASE AddMail(m)
    <2>1. /\ m \in plan.add /\ ix' = [ix EXCEPT !.mail[m] = new]
          /\ plan' = [plan EXCEPT !.add = @ \ {m}, !.uncommitted = TRUE]
      BY <1>4 DEF AddMail, new
    <2>2. /\ plan'.in = plan.in /\ plan'.add = plan.add \ {m} /\ plan'.update = plan.update
          /\ plan'.delete = plan.delete
      BY <1>1, <2>1
    <2>3. /\ ix'.box = ix.box /\ ix'.mail[m] = new
          /\ \A k \in Msg \ {m} : ix'.mail[k] = ix.mail[k]
      BY <1>3, <2>1
    <2> QED
      BY <1>1, <1>2, <2>1, <2>2, <2>3 DEF Queued, new
  <1>5. CASE UpdateMail(m)
    <2>1. m \in plan.update /\ plan' = [plan EXCEPT !.update = @ \ {m}]
      BY <1>5 DEF UpdateMail
    <2>2. HasEml(disk, ix.mail[m].dir, m)
      <3>1. ix.mail[m] # None
        BY <1>1, <2>1 DEF HeldInv, IndexInv, TypeInv, QueuesKnown
      <3>2. IsCopy(disk, ix)
        BY <1>1 DEF HeldInv, DiskInv, Stored
      <3> QED
        BY <3>1, <3>2 DEF IsCopy, EmlsOf, EmlOf, KnownMail, HasEml
    <2>3. ix' = [ix EXCEPT !.mail[m] = new]
      BY <1>5, <2>2 DEF UpdateMail, new
    <2>4. /\ plan'.in = plan.in /\ plan'.add = plan.add /\ plan'.update = plan.update \ {m}
          /\ plan'.delete = plan.delete
      BY <1>1, <2>1
    <2>5. /\ ix'.box = ix.box /\ ix'.mail[m] = new
          /\ \A k \in Msg \ {m} : ix'.mail[k] = ix.mail[k]
      BY <1>3, <2>3
    <2> QED
      BY <1>1, <1>2, <2>1, <2>4, <2>5 DEF Queued, new
  <1>6. CASE DeleteMail(m)
    <2>1. m \in plan.delete /\ plan' = [plan EXCEPT !.delete = @ \ {m}]
      BY <1>6 DEF DeleteMail
    <2>2. /\ plan'.in = plan.in /\ plan'.add = plan.add /\ plan'.update = plan.update
          /\ plan'.delete = plan.delete \ {m}
      BY <1>1, <2>1
    <2>3. CASE Known(m)
      <3>1. ix' = [ix EXCEPT !.mail[m] = None]
        BY <1>6, <2>3 DEF DeleteMail
      <3>2. /\ ix'.box = ix.box /\ ix'.mail[m] = None
            /\ \A k \in Msg \ {m} : ix'.mail[k] = ix.mail[k]
        BY <1>3, <3>1
      <3> QED
        BY <1>1, <2>1, <2>2, <3>2 DEF Queued
    <2>4. CASE ~Known(m)
      <3>1. ix' = ix /\ ix.mail[m] = None
        BY <1>6, <2>4 DEF DeleteMail, Known
      <3> QED
        BY <1>1, <2>1, <2>2, <3>1 DEF Queued
    <2> QED
      BY <2>3, <2>4
  <1> QED
    BY <1>4, <1>5, <1>6

\* A removal takes away that mailbox or nothing.
LEMMA PruneEffect ==
    ASSUME TypeInv, NEW b \in Box, Prune(b)
    PROVE  /\ pc = "prune" /\ pc' = "prune" /\ b \in todo /\ todo' = todo \ {b}
           /\ ix'.mail = ix.mail
           /\ \A c \in Box \ {b} : ix'.box[c] = ix.box[c]
           /\ \/ HasContents(ix.box[b].dir) /\ ix'.box = ix.box
              \/ ix'.box[b] = None
  <1>1. ix \in Index
    BY DEF TypeInv, ProcessTyped
  <1>2. pc = "prune" /\ pc' = "prune" /\ b \in todo /\ todo' = todo \ {b}
    BY DEF Prune
  <1>3. CASE HasContents(ix.box[b].dir)
    BY <1>2, <1>3 DEF Prune
  <1>4. CASE ~HasContents(ix.box[b].dir)
    <2>1. ix' = [ix EXCEPT !.box[b] = None]
      BY <1>4 DEF Prune
    <2> QED
      BY <1>1, <1>2, <2>1 DEF Index
  <1> QED
    BY <1>3, <1>4

\* No step of a pass makes up a mailbox.
LEMMA StepAccount ==
    ASSUME HeldInv, HeldInv', calm, calm' = calm, AccountInv, Account \/ Working \/ UNCHANGED vars
    PROVE  AccountInv'
  <1>1. TypeInv /\ TypeInv' /\ IndexInv'
    BY DEF HeldInv, IndexInv
  <1>2. CASE Account
    BY <1>1, <1>2, AccountEffect
  <1>3. CASE UNCHANGED vars
    BY <1>3 DEF vars, account, durable, process, pass, AccountInv, Ids, Opened, KnownIn
  <1>4. ASSUME UNCHANGED account,
               KnownIn(listed') \subseteq KnownIn(listed) \cup KnownIn(boxes),
               KnownIn(ix'.box) \subseteq KnownIn(ix.box) \cup KnownIn(Opened.box) \cup KnownIn(listed),
               KnownIn(Opened'.box) \subseteq KnownIn(Opened.box) \cup KnownIn(ix.box),
               gone' \subseteq gone \cup (KnownIn(ix.box) \ KnownIn(boxes))
        PROVE  AccountInv'
    <2>1. Ids(listed) /\ Ids(ix.box) /\ Ids(Opened.box) /\ gone \subseteq retired
      BY DEF AccountInv
    <2>2. Ids(listed)' /\ Ids(ix.box)' /\ Ids(Opened.box)' /\ (gone \subseteq retired)'
      BY <1>4, <2>1 DEF Ids, account
    <2>3. UNCHANGED <<boxes, mail, touched, version, retired>>
      BY <1>4 DEF account
    <2> QED
      BY <2>2, <2>3 DEF AccountInv
  <1>5. saved' = saved => Opened' = Opened
    BY <1>1, OpenedAfter
  <1>6. KnownIn([b \in Box |-> None]) = {} /\ KnownIn(EmptyIndex.box) = {}
    BY EmptyIndexPlaced DEF KnownIn
  <1>7. CASE \E kind \in {"sync", "refresh"} : Begin(kind)
    <2>1. ix' = Opened
      BY <1>7, BeginOpens
    <2>2. UNCHANGED <<account, saved, listed, gone>>
      BY <1>7 DEF Begin, durable, server, account
    <2> QED
      BY <1>4, <1>5, <2>1, <2>2
  <1>8. CASE ListMailboxes
    <2>1. UNCHANGED <<account, saved, ix>> /\ listed' = boxes
          /\ gone' \subseteq KnownIn(ix.box) \ KnownIn(boxes)
      BY <1>8 DEF ListMailboxes, durable, process
    <2> QED
      BY <1>4, <1>5, <2>1
  <1>9. CASE PlanSync \/ PlanAll \/ UpsertsDone \/ MailDone \/ PruneDone \/ Commit
    <2>1. UNCHANGED <<account, saved>>
      BY <1>9 DEF PlanSync, PlanAll, UpsertsDone, MailDone, PruneDone, Commit, durable, server, account
    <2>2. \/ UNCHANGED <<ix, listed, gone>>
          \/ ix' = EmptyIndex /\ listed' = [b \in Box |-> None] /\ gone' = {}
      BY <1>9 DEF PlanSync, PlanAll, UpsertsDone, MailDone, PruneDone, Commit, process, pass, Forget
    <2> QED
      BY <1>4, <1>5, <1>6, <2>1, <2>2
  <1>10. ASSUME NEW b \in Box, RenameDir(b) \/ MakeDir(b) \/ WriteCard(b) PROVE AccountInv'
    <2>1. UNCHANGED <<account, saved, listed, gone>>
      BY <1>10 DEF RenameDir, MakeDir, WriteCard, pass
    <2>2. KnownIn(ix'.box) \subseteq KnownIn(ix.box) \cup KnownIn(listed)
      <3>1. CASE RenameDir(b)
        BY <1>1, <3>1, RenameEffect
      <3>2. CASE MakeDir(b)
        BY <3>2 DEF MakeDir, process
      <3>3. CASE WriteCard(b)
        BY <1>1, <3>3, CardEffect
      <3> QED
        BY <1>10, <3>1, <3>2, <3>3
    <2> QED
      BY <1>4, <1>5, <2>1, <2>2
  <1>11. ASSUME NEW m \in Msg, AddMail(m) \/ UpdateMail(m) \/ DeleteMail(m) PROVE AccountInv'
    <2>1. UNCHANGED <<account, saved, listed, gone>>
      BY <1>11 DEF AddMail, UpdateMail, DeleteMail
    <2>2. ix'.box = ix.box
      BY <1>11, MailEffect
    <2> QED
      BY <1>4, <1>5, <2>1, <2>2
  <1>12. CASE CommitDay
    <2>1. UNCHANGED <<account, listed, gone, ix>> /\ Opened' = ix
      BY <1>1, <1>12, OpenedAfter DEF CommitDay
    <2> QED
      BY <1>4, <2>1
  <1>13. ASSUME NEW b \in Box, Prune(b) PROVE AccountInv'
    <2>1. UNCHANGED <<account, saved, listed, gone>>
      BY <1>13 DEF Prune, pass
    <2>2. KnownIn(ix'.box) \subseteq KnownIn(ix.box)
      BY <1>1, <1>13, PruneEffect DEF KnownIn
    <2> QED
      BY <1>4, <1>5, <2>1, <2>2
  <1>14. CASE Save
    <2>1. /\ UNCHANGED account /\ Opened' = ix
          /\ ix' = EmptyIndex /\ listed' = [b \in Box |-> None] /\ gone' = {}
      BY <1>1, <1>14, OpenedAfter DEF Save, Forget
    <2> QED
      BY <1>4, <1>6, <2>1
  <1> QED
    BY <1>2, <1>3, <1>7, <1>8, <1>9, <1>10, <1>11, <1>12, <1>13, <1>14 DEF Working

\* The steps between the plan and the end of a pass.
Middle ==
    \/ PlanAll \/ UpsertsDone \/ MailDone \/ PruneDone \/ Commit
    \/ \E b \in Box : RenameDir(b) \/ MakeDir(b) \/ WriteCard(b) \/ Prune(b)
    \/ \E m \in Msg : AddMail(m) \/ UpdateMail(m) \/ DeleteMail(m)

\* They leave alone what a pass began with.
LEMMA MiddleSteps ==
    ASSUME TypeInv, Middle, calm' = calm
    PROVE  /\ UNCHANGED <<account, saved, stage, delta, listed, gone, target, done>>
           /\ pc \notin {"idle", "list"} /\ pc' \notin {"idle", "list"}
           /\ pc = "plan" \/ pc' = "plan" => stage # "sync"
  <1>1. CASE PlanAll \/ UpsertsDone \/ MailDone \/ PruneDone \/ Commit
    <2>1. UNCHANGED <<account, saved, stage, delta, listed, gone, target, done>>
      BY <1>1 DEF PlanAll, UpsertsDone, MailDone, PruneDone, Commit, durable, pass, server, account
    <2>2. /\ pc \notin {"idle", "list"} /\ pc' \notin {"idle", "list"}
          /\ pc = "plan" \/ pc' = "plan" => stage # "sync"
      BY <1>1 DEF PlanAll, UpsertsDone, MailDone, PruneDone, Commit
    <2> QED
      BY <2>1, <2>2
  <1>2. ASSUME NEW b \in Box, RenameDir(b) \/ MakeDir(b) \/ WriteCard(b) \/ Prune(b)
        PROVE  /\ UNCHANGED <<account, saved, stage, delta, listed, gone, target, done>>
               /\ pc \in {"upsert", "card", "prune"} /\ pc' \in {"upsert", "card", "prune"}
    BY <1>2 DEF RenameDir, MakeDir, WriteCard, Prune, pass
  <1>3. ASSUME NEW m \in Msg, AddMail(m) \/ UpdateMail(m) \/ DeleteMail(m)
        PROVE  /\ UNCHANGED <<account, saved, stage, delta, listed, gone, target, done>>
               /\ pc = "mail" /\ pc' = "mail"
    BY <1>3 DEF AddMail, UpdateMail, DeleteMail
  <1> QED
    BY <1>1, <1>2, <1>3 DEF Middle

\* No other step is left.
LEMMA WorkingParts ==
    Working <=> \/ \E kind \in {"sync", "refresh"} : Begin(kind)
                \/ ListMailboxes \/ PlanSync \/ CommitDay \/ Save \/ Middle
  BY DEF Working, Middle

\* The numbers a pass works with stand in order: what it goes on from, what it is
\* about to save, where the account is.
LEMMA StepTime ==
    ASSUME HeldInv, HeldInv', calm, calm' = calm, AccountInv, TimeInv, Account \/ Working \/ UNCHANGED vars
    PROVE  TimeInv'
  <1>1. TypeInv /\ TypeInv'
    BY DEF HeldInv, IndexInv
  <1>2. /\ Cursor \in Nat /\ version \in Nat \ {0} /\ target \in Nat
        /\ \A m \in Msg : touched[m] \in Nat
    BY <1>1, PassNumbers
  <1>3. /\ Cursor <= version
        /\ pc = "idle" /\ saved # None => Cursor # 0
        /\ pc # "idle" =>
             /\ Cursor <= target /\ target <= version
             /\ (stage = "backfill" <=> Cursor = 0) /\ target # 0
             /\ stage = "sync" /\ target = Cursor =>
                  pc = "plan" /\ delta.changed \cup delta.destroyed = {} /\ todo \cup gone = {}
             /\ stage = "sync" => \A m \in Msg : touched[m] <= target =>
                   /\ m \in delta.changed <=> touched[m] > Cursor /\ mail[m] # {}
                   /\ m \in delta.destroyed <=> touched[m] > Cursor /\ mail[m] = {}
    BY DEF TimeInv
  <1>4. saved' = saved => Cursor' = Cursor
    BY <1>1, OpenedAfter
  <1>5. CASE Account
    <2>1. /\ UNCHANGED <<calm, saved, pc, todo, stage, delta, gone, target>>
          /\ version' = version + 1
          /\ \A m \in Msg : \/ touched'[m] = version + 1
                            \/ touched'[m] = touched[m] /\ mail'[m] = mail[m]
      BY <1>1, <1>5, AccountEffect
    <2>2. pc # "idle" /\ stage = "sync" => \A m \in Msg : touched'[m] <= target =>
             /\ m \in delta.changed <=> touched'[m] > Cursor /\ mail'[m] # {}
             /\ m \in delta.destroyed <=> touched'[m] > Cursor /\ mail'[m] = {}
      <3> SUFFICES ASSUME pc # "idle", stage = "sync", NEW m \in Msg, touched'[m] <= target
                   PROVE  /\ m \in delta.changed <=> touched'[m] > Cursor /\ mail'[m] # {}
                          /\ m \in delta.destroyed <=> touched'[m] > Cursor /\ mail'[m] = {}
        OBVIOUS
      <3>1. touched'[m] = touched[m] /\ mail'[m] = mail[m]
        BY <1>2, <1>3, <2>1
      <3> QED
        BY <1>3, <3>1
    <2>3. Cursor' <= version' /\ (pc # "idle" => target <= version')
      BY <1>2, <1>3, <1>4, <2>1
    <2> QED
      BY <1>3, <1>4, <2>1, <2>2, <2>3 DEF TimeInv
  <1>6. CASE UNCHANGED vars
    <2>1. UNCHANGED <<calm, saved, pc, todo, stage, delta, gone, target, version, touched, mail>>
      BY <1>6 DEF vars, account, durable, pass
    <2> QED
      BY <1>3, <1>4, <2>1 DEF TimeInv
  <1>7. ASSUME NEW kind \in {"sync", "refresh"}, Begin(kind) PROVE TimeInv'
    <2>1. /\ pc = "idle" /\ pc' \in {"plan", "list"} /\ UNCHANGED <<account, saved, todo, gone>>
          /\ stage' = IF Cursor = 0 THEN "backfill" ELSE kind
          /\ target' = IF stage' = "backfill" /\ saved # None THEN saved.start ELSE version
          /\ stage' = "sync" => delta' = [changed   |-> {m \in Msg : touched[m] > Cursor /\ mail[m] # {}},
                                          destroyed |-> {m \in Msg : touched[m] > Cursor /\ mail[m] = {}}]
          /\ stage' = "sync" /\ version = Cursor => pc' = "plan"
      BY <1>7 DEF Begin, durable, server, account
    <2>2. todo \cup gone = {}
      BY <1>1, <2>1 DEF TypeInv, PassTyped, QueuesKnown
    <2>3. target' = version
      BY <1>3, <2>1
    <2>4. stage' = "sync" => /\ delta'.changed = {m \in Msg : touched[m] > Cursor /\ mail[m] # {}}
                             /\ delta'.destroyed = {m \in Msg : touched[m] > Cursor /\ mail[m] = {}}
      BY <2>1
    <2>5. \A m \in Msg : touched[m] <= version
      BY DEF AccountInv
    <2>6. stage' = "sync" /\ target' = Cursor => delta'.changed \cup delta'.destroyed = {}
      BY <1>2, <2>3, <2>4, <2>5
    <2>7. UNCHANGED <<version, touched, mail>>
      BY <2>1 DEF account
    <2>8. Cursor' = Cursor /\ (stage' = "backfill" <=> Cursor = 0)
      BY <1>4, <2>1
    <2>9. stage' = "sync" => \A m \in Msg :
             /\ m \in delta'.changed <=> touched'[m] > Cursor' /\ mail'[m] # {}
             /\ m \in delta'.destroyed <=> touched'[m] > Cursor' /\ mail'[m] = {}
      BY <2>4, <2>7, <2>8
    <2>10. /\ Cursor' <= version' /\ Cursor' <= target' /\ target' <= version' /\ target' # 0
      BY <1>2, <1>3, <2>3, <2>7, <2>8
    <2>11. stage' = "sync" /\ target' = Cursor' => pc' = "plan" /\ todo' \cup gone' = {}
      BY <2>1, <2>2, <2>3, <2>8
    <2> QED
      BY <2>1, <2>6, <2>8, <2>9, <2>10, <2>11 DEF TimeInv
  <1>8. CASE ListMailboxes
    <2>1. /\ UNCHANGED <<calm, saved, stage, delta, target, version, touched, mail>>
          /\ pc = "list" /\ pc' # "idle"
      BY <1>8 DEF ListMailboxes, account, durable
    <2> QED
      BY <1>3, <1>4, <2>1 DEF TimeInv
  <1>9. CASE PlanSync
    <2>1. UNCHANGED <<calm, saved, version, touched, mail>> /\ pc = "plan" /\ stage = "sync"
      BY <1>9 DEF PlanSync, account, durable
    <2>2. CASE pc' = "idle"
      BY <1>3, <1>4, <2>1, <2>2 DEF TimeInv
    <2>3. CASE pc' # "idle"
      <3>1. UNCHANGED <<stage, delta, target>>
        BY <1>9, <2>3 DEF PlanSync, Forget
      <3>2. target # Cursor
        <4> SUFFICES ASSUME target = Cursor PROVE FALSE
          OBVIOUS
        <4>1. delta.changed = {} /\ delta.destroyed = {} /\ todo \cup gone = {}
          BY <1>3, <2>1
        <4> QED
          BY <1>9, <2>3, <4>1 DEF PlanSync, Forget
      <3> QED
        BY <1>3, <1>4, <2>1, <2>3, <3>1, <3>2 DEF TimeInv
    <2> QED
      BY <2>2, <2>3
  <1>10. CASE CommitDay
    <2>1. UNCHANGED <<calm, pc, todo, stage, delta, gone, target, version, touched, mail>> /\ pc = "mail"
      BY <1>10 DEF CommitDay, account
    <2>2. Cursor' = Cursor
      BY <1>1, <1>10, OpenedAfter
    <2> QED
      BY <1>3, <2>1, <2>2 DEF TimeInv
  <1>11. CASE Save
    <2>1. UNCHANGED <<calm, version>> /\ pc = "save" /\ pc' = "idle"
      BY <1>11 DEF Save, Forget, account
    <2>2. Cursor' = target
      BY <1>1, <1>11, OpenedAfter
    <2> QED
      BY <1>3, <2>1, <2>2 DEF TimeInv
  <1>12. CASE Middle
    <2>1. /\ UNCHANGED <<account, saved, stage, delta, target>>
          /\ pc \notin {"idle", "list"} /\ pc' \notin {"idle", "list"}
          /\ pc = "plan" => stage # "sync"
      BY <1>1, <1>12, MiddleSteps
    <2>2. UNCHANGED <<calm, version, touched, mail>>
      BY <2>1 DEF account
    <2>3. ~(stage = "sync" /\ target = Cursor)
      BY <1>3, <2>1
    <2> QED
      BY <1>3, <1>4, <2>1, <2>2, <2>3 DEF TimeInv
  <1> QED
    BY <1>5, <1>6, <1>7, <1>8, <1>9, <1>10, <1>11, <1>12, WorkingParts

\* A pass knows the mailboxes of all mail up to the version it is going to save.
LEMMA StepList ==
    ASSUME HeldInv, HeldInv', calm, calm' = calm, AccountInv, TimeInv, TimeInv', ListInv,
           Account \/ Working \/ UNCHANGED vars
    PROVE  ListInv'
  <1>1. TypeInv /\ TypeInv' /\ ForestInv /\ IndexInv'
    BY DEF HeldInv, IndexInv
  <1>2. /\ version \in Nat \ {0} /\ target \in Nat /\ \A m \in Msg : touched[m] \in Nat
    BY <1>1, PassNumbers
  <1>3. saved' = saved => Cursor' = Cursor
    BY <1>1, OpenedAfter
  <1>4. ListInv <=> (calm /\ pc \notin {"idle", "list"} /\ ~Direct => ListFacts)
    BY DEF ListInv, ListFacts
  <1>5. ListInv' <=> (calm' /\ pc' \notin {"idle", "list"} /\ ~Direct' => ListFacts')
    BY DEF ListInv, ListFacts
  <1>6. CASE Account
    <2>1. /\ UNCHANGED <<calm, saved, pc, todo, stage, listed, gone, target, ix>>
          /\ version' = version + 1
          /\ \A m \in Msg : \/ touched'[m] = version + 1
                            \/ touched'[m] = touched[m] /\ mail'[m] = mail[m]
      BY <1>1, <1>6, AccountEffect
    <2>2. Direct' <=> Direct
      BY <1>3, <2>1 DEF Direct
    <2>3. ASSUME pc \notin {"idle", "list"}, ~Direct PROVE ListFacts'
      <3>1. ListFacts
        BY <1>4, <2>3
      <3>2. target <= version
        BY <2>3 DEF TimeInv
      <3>3. target' # version'
        BY <1>2, <2>1, <3>2
      <3>4. \A m \in Msg : touched'[m] <= target' => mail'[m] \subseteq KnownIn(listed')
        <4> SUFFICES ASSUME NEW m \in Msg, touched'[m] <= target
                     PROVE  mail'[m] \subseteq KnownIn(listed)
          BY <2>1
        <4>1. touched'[m] = touched[m] /\ mail'[m] = mail[m]
          BY <1>2, <2>1, <3>2
        <4> QED
          BY <3>1, <4>1 DEF ListFacts
      <3> QED
        BY <2>1, <3>1, <3>3, <3>4 DEF ListFacts, InfoOf
    <2> QED
      BY <1>5, <2>1, <2>2, <2>3
  <1>7. CASE UNCHANGED vars
    <2>1. UNCHANGED <<account, saved, pc, todo, stage, listed, gone, target, ix>>
      BY <1>7 DEF vars, durable, process, pass
    <2>2. UNCHANGED <<calm, boxes, mail, touched, version>>
      BY <2>1 DEF account
    <2>3. Direct' <=> Direct
      BY <1>3, <2>1 DEF Direct
    <2> QED
      BY <1>4, <1>5, <2>1, <2>2, <2>3 DEF ListFacts, InfoOf
  <1>8. ASSUME NEW kind \in {"sync", "refresh"}, Begin(kind) PROVE ListInv'
    <2>1. /\ pc' \in {"plan", "list"} /\ UNCHANGED saved
          /\ pc' = "plan" => stage' = "sync" /\ target' = version /\ version = Cursor
      BY <1>8 DEF Begin, durable
    <2> QED
      BY <1>3, <1>5, <2>1 DEF Direct
  <1>9. CASE ListMailboxes
    <2>1. /\ UNCHANGED <<account, ix, stage, target>> /\ listed' = boxes
          /\ gone' = IF stage = "backfill" THEN {} ELSE KnownIn(ix.box) \ KnownIn(boxes)
          /\ pc' = IF stage = "sync" THEN "plan" ELSE "upsert"
      BY <1>9 DEF ListMailboxes, process
    <2>2. \A m \in Msg : mail[m] \subseteq KnownIn(boxes)
      BY DEF AccountInv
    <2>3. UNCHANGED <<boxes, mail, touched, version>>
      BY <2>1 DEF account
    <2>4. ListFacts'
      BY <2>1, <2>2, <2>3 DEF ListFacts
    <2> QED
      BY <1>5, <2>4
  <1>10. CASE PlanSync
    <2>1. UNCHANGED <<account, saved>> /\ pc = "plan" /\ stage = "sync" /\ pc' \in {"idle", "upsert"}
      BY <1>10 DEF PlanSync, durable, Forget
    <2>2. CASE pc' = "idle"
      BY <1>5, <2>2
    <2>3. CASE pc' = "upsert"
      <3>1. UNCHANGED <<stage, target, ix, listed, gone>>
        BY <1>10, <2>3 DEF PlanSync, Forget
      <3>2. UNCHANGED <<calm, boxes, mail, touched, version>>
        BY <2>1 DEF account
      <3>3. target' # Cursor'
        BY <2>1, <2>3, <3>1, <3>2 DEF TimeInv
      <3>4. ~Direct
        BY <1>3, <2>1, <3>1, <3>3 DEF Direct
      <3>5. ListFacts
        BY <1>4, <2>1, <3>4
      <3>6. ListFacts'
        BY <2>1, <2>3, <3>1, <3>2, <3>5 DEF ListFacts
      <3> QED
        BY <1>5, <3>6
    <2> QED
      BY <2>1, <2>2, <2>3
  <1>11. CASE CommitDay
    <2>1. UNCHANGED <<account, pc, todo, stage, listed, gone, target, ix>> /\ pc = "mail"
      BY <1>11 DEF CommitDay
    <2>2. UNCHANGED <<calm, boxes, mail, touched, version>>
      BY <2>1 DEF account
    <2>3. ~Direct
      BY <2>1 DEF Direct
    <2> QED
      BY <1>4, <1>5, <2>1, <2>2, <2>3 DEF ListFacts, InfoOf
  <1>12. CASE Save
    <2>1. pc' = "idle"
      BY <1>12 DEF Save, Forget
    <2> QED
      BY <1>5, <2>1
  <1>13. CASE Middle
    <2>1. /\ UNCHANGED <<account, saved, stage, listed, gone, target>>
          /\ pc \notin {"idle", "list"} /\ pc' \notin {"idle", "list"}
          /\ pc = "plan" \/ pc' = "plan" => stage # "sync"
      BY <1>1, <1>13, MiddleSteps
    <2>2. UNCHANGED <<calm, boxes, mail, touched, version>>
      BY <2>1 DEF account
    <2>3. ListFacts
      BY <1>4, <2>1 DEF Direct
    <2>4. ASSUME KnownIn(ix'.box) \subseteq KnownIn(ix.box) \cup KnownIn(listed),
                 pc' = "prune" => todo' \subseteq gone,
                 pc' \in {"mail", "prune", "commit", "save"} \/ (pc' = "plan" /\ stage # "sync") =>
                    \A b \in KnownIn(listed) : InfoOf(ix')[b] = listed[b]
          PROVE  ListFacts'
      BY <2>1, <2>2, <2>3, <2>4 DEF ListFacts
    <2>5. CASE PlanAll \/ MailDone \/ PruneDone \/ Commit
      <3>1. /\ ix' = ix /\ (pc' = "prune" => todo' \subseteq gone)
            /\ pc \in {"mail", "prune", "commit", "save"} \/ (pc = "plan" /\ stage # "sync")
        BY <2>5 DEF PlanAll, MailDone, PruneDone, Commit, process
      <3>2. \A b \in KnownIn(listed) : InfoOf(ix)[b] = listed[b]
        BY <2>3, <3>1 DEF ListFacts
      <3>3. InfoOf(ix') = InfoOf(ix) /\ KnownIn(ix'.box) = KnownIn(ix.box)
        BY <3>1
      <3>5. \A b \in KnownIn(listed) : InfoOf(ix')[b] = listed[b]
        BY <3>2, <3>3
      <3>6. KnownIn(ix'.box) \subseteq KnownIn(ix.box) \cup KnownIn(listed)
        BY <3>1
      <3>7. pc' = "prune" => todo' \subseteq gone
        BY <3>1
      <3> QED
        BY <1>5, <2>4, <3>5, <3>6, <3>7
    <2>6. CASE UpsertsDone
      <3>1. ix' = ix /\ pc = "upsert" /\ todo = {} /\ pc' # "prune"
        BY <2>6 DEF UpsertsDone, process
      <3>2. \A b \in KnownIn(listed) : b \in KnownIn(ix.box) /\ ix.box[b].info = listed[b]
        BY <1>1, <3>1 DEF ForestInv
      <3>3. \A b \in KnownIn(listed) : InfoOf(ix)[b] = listed[b]
        BY <3>2 DEF InfoOf, KnownIn
      <3>4. InfoOf(ix') = InfoOf(ix) /\ KnownIn(ix'.box) = KnownIn(ix.box)
        BY <3>1
      <3>5. \A b \in KnownIn(listed) : InfoOf(ix')[b] = listed[b]
        BY <3>3, <3>4
      <3>6. KnownIn(ix'.box) \subseteq KnownIn(ix.box) \cup KnownIn(listed)
        BY <3>1
      <3>7. pc' = "prune" => todo' \subseteq gone
        BY <3>1
      <3> QED
        BY <1>5, <2>4, <3>5, <3>6, <3>7
    <2>7. ASSUME NEW b \in Box, RenameDir(b) \/ MakeDir(b) \/ WriteCard(b) PROVE ListFacts'
      <3>1. pc' \in {"upsert", "card"}
        BY <2>7 DEF RenameDir, MakeDir, WriteCard
      <3>2. KnownIn(ix'.box) \subseteq KnownIn(ix.box) \cup KnownIn(listed)
        <4>1. CASE RenameDir(b)
          BY <1>1, <4>1, RenameEffect
        <4>2. CASE MakeDir(b)
          BY <4>2 DEF MakeDir, process
        <4>3. CASE WriteCard(b)
          BY <1>1, <4>3, CardEffect
        <4> QED
          BY <2>7, <4>1, <4>2, <4>3
      <3> QED
        BY <2>4, <3>1, <3>2
    <2>8. ASSUME NEW m \in Msg, AddMail(m) \/ UpdateMail(m) \/ DeleteMail(m) PROVE ListFacts'
      <3>1. pc = "mail" /\ pc' = "mail" /\ ix'.box = ix.box
        BY <2>8, MailEffect
      <3> QED
        BY <2>3, <2>4, <3>1 DEF ListFacts, InfoOf
    <2>9. ASSUME NEW b \in Box, Prune(b) PROVE ListFacts'
      <3>1. /\ pc = "prune" /\ pc' = "prune" /\ b \in todo /\ todo' = todo \ {b}
            /\ \A c \in Box \ {b} : ix'.box[c] = ix.box[c]
            /\ ix'.box = ix.box \/ ix'.box[b] = None
        BY <1>1, <2>9, PruneEffect
      <3>2. todo \subseteq gone /\ b \notin KnownIn(listed)
        BY <2>3, <3>1 DEF ListFacts
      <3>3. \A c \in KnownIn(listed) : InfoOf(ix')[c] = InfoOf(ix)[c]
        BY <3>1, <3>2 DEF InfoOf, KnownIn
      <3>4. KnownIn(ix'.box) \subseteq KnownIn(ix.box)
        BY <3>1 DEF KnownIn
      <3> QED
        BY <2>3, <2>4, <3>1, <3>2, <3>3, <3>4 DEF ListFacts
    <2> QED
      BY <1>5, <1>13, <2>5, <2>6, <2>7, <2>8, <2>9 DEF Middle
  <1> QED
    BY <1>6, <1>7, <1>8, <1>9, <1>10, <1>11, <1>12, <1>13, WorkingParts

\* Where the list is in the index, mail of listed mailboxes is filed.
LEMMA ListedMailIsFiled ==
    ASSUME HeldInv, calm, ListInv, pc = "mail", NEW m \in Msg, touched[m] <= target, mail[m] # {}
    PROVE  DirFor(ix, mail[m]) # Unfiled
  <1>1. ListFacts
    BY DEF ListInv, ListFacts, Direct
  <1>2. mail[m] \subseteq KnownIn(listed) /\ \A b \in KnownIn(listed) : InfoOf(ix)[b] = listed[b]
    BY <1>1 DEF ListFacts
  <1>3. KnownIn(listed) \subseteq KnownIn(ix.box)
    BY <1>2 DEF KnownIn, InfoOf
  <1>4. ix \in Index /\ WellPlaced(ix, PlacedInfo)
    BY DEF HeldInv, IndexInv, TypeInv, ProcessTyped, PlacedInv
  <1>5. mail[m] \cap KnownIn(ix.box) # {}
    BY <1>2, <1>3
  <1> HIDE DEF PlacedInfo
  <1> QED
    BY <1>4, <1>5, MailIsFiled

\* What a plan holds.
LEMMA PlanSyncEffect ==
    ASSUME PlanSync, pc' # "idle"
    PROVE  LET wanted == {m \in delta.changed : mail[m] # {} /\ Matches(InfoOf(ix), mail[m])} IN
           /\ pc' = "upsert" /\ UNCHANGED <<ix, stage, target, todo, listed, gone, done>>
           /\ plan'.add = {m \in wanted : ~Known(m)} /\ plan'.update = {m \in wanted : Known(m)}
           /\ plan'.delete = delta.destroyed \cup
                  {m \in delta.changed \ wanted : mail[m] # {} /\ Known(m)}
           /\ plan'.in = mail
  <1> DEFINE there == {m \in delta.changed : mail[m] # {}}
             wanted == {m \in there : Matches(InfoOf(ix), mail[m])}
             planned == [add |-> {m \in wanted : ~Known(m)},
                         update |-> {m \in wanted : Known(m)},
                         delete |-> delta.destroyed \cup {m \in there \ wanted : Known(m)},
                         in |-> mail, uncommitted |-> FALSE]
  <1>1. plan' = planned /\ pc' = "upsert" /\ UNCHANGED <<ix, todo, stage, delta, listed, gone, target, done>>
    BY DEF PlanSync, Forget
  <1>2. /\ plan'.add = {m \in wanted : ~Known(m)} /\ plan'.update = {m \in wanted : Known(m)}
        /\ plan'.delete = delta.destroyed \cup {m \in there \ wanted : Known(m)}
        /\ plan'.in = mail
    BY <1>1
  <1> QED
    BY <1>1, <1>2

\* What the plan of a reconciliation or a backfill holds.
LEMMA PlanAllEffect ==
    ASSUME PlanAll
    PROVE  LET wanted == {m \in Msg : mail[m] # {} /\ Matches(InfoOf(ix), mail[m])}
               full == stage = "refresh" IN
           /\ pc = "plan" /\ stage # "sync" /\ pc' = "mail" /\ ix' = ix
           /\ plan'.add = {m \in wanted : ~Known(m)}
           /\ plan'.update = {m \in wanted : full /\ Known(m) /\ ix.mail[m].in # mail[m]}
           /\ plan'.delete = {m \in Msg \ wanted : full /\ Known(m)}
           /\ plan'.in = mail
  <1> DEFINE there == {m \in Msg : mail[m] # {}}
             wanted == {m \in there : Matches(InfoOf(ix), mail[m])}
             full == stage = "refresh"
             planned == [add |-> {m \in wanted : ~Known(m)},
                    update |-> {m \in wanted : full /\ Known(m) /\ ix.mail[m].in # mail[m]},
                    delete |-> {m \in Msg \ wanted : full /\ Known(m)},
                    in |-> mail, uncommitted |-> FALSE]
  <1>1. plan' = planned /\ pc = "plan" /\ stage # "sync" /\ pc' = "mail" /\ ix' = ix
    BY DEF PlanAll, process
  <1>2. /\ plan'.add = {m \in wanted : ~Known(m)}
        /\ plan'.update = {m \in wanted : full /\ Known(m) /\ ix.mail[m].in # mail[m]}
        /\ plan'.delete = {m \in Msg \ wanted : full /\ Known(m)}
        /\ plan'.in = mail
    BY <1>1
  <1> QED
    BY <1>1, <1>2

\* Mailboxes come and go, and the mail that is filed stays filed.
LEMMA UpsertKeepsMail ==
    ASSUME HeldInv, IndexInv', calm, NEW b \in Box, RenameDir(b) \/ MakeDir(b) \/ WriteCard(b)
    PROVE  \A m \in Msg :
              /\ ix'.mail[m] = None <=> ix.mail[m] = None
              /\ ix.mail[m] # None =>
                    /\ ix'.mail[m].in = ix.mail[m].in
                    /\ ix.mail[m].dir # Unfiled => ix'.mail[m].dir # Unfiled
  <1>1. CASE RenameDir(b)
    BY <1>1, RenameEffect DEF KnownMail
  <1>2. CASE MakeDir(b)
    BY <1>2 DEF MakeDir, process
  <1>3. CASE WriteCard(b)
    <2>1. ix'.mail = ix.mail
      BY <1>3, CardEffect DEF HeldInv, IndexInv
    <2> QED
      BY <2>1
  <1> QED
    BY <1>1, <1>2, <1>3

\* The plan of a catch-up covers what has changed since the last save.
LEMMA PlanSyncCovers ==
    ASSUME HeldInv, calm, TimeInv, MailInv, PlanSync, pc' # "idle"
    PROVE  PlannedUpToDate'
  <1> DEFINE wanted == {m \in delta.changed : mail[m] # {} /\ Matches(InfoOf(ix), mail[m])}
  <1>1. /\ pc' = "upsert" /\ ix' = ix /\ UNCHANGED <<target, stage>>
        /\ plan'.add = {m \in wanted : ~Known(m)} /\ plan'.update = {m \in wanted : Known(m)}
        /\ plan'.delete = delta.destroyed \cup
               {m \in delta.changed \ wanted : mail[m] # {} /\ Known(m)}
        /\ plan'.in = mail
    BY PlanSyncEffect
  <1>2. pc = "plan" /\ stage = "sync" /\ UNCHANGED <<mail, touched, filter>>
    BY DEF PlanSync, account
  <1>3. /\ Cursor \in Nat /\ target \in Nat /\ \A m \in Msg : touched[m] \in Nat
    BY PassNumbers DEF HeldInv, IndexInv
  <1>4. ASSUME NEW m \in Msg, touched[m] <= target
        PROVE  /\ m \in plan'.add \cup plan'.update => plan'.in[m] = mail[m] /\ mail[m] # {}
               /\ m \in plan'.delete => mail[m] = {} \/ filter # None
               /\ m \notin Queued' => UpToDate(ix.mail[m], m)
    <2>1. /\ m \in delta.changed <=> touched[m] > Cursor /\ mail[m] # {}
          /\ m \in delta.destroyed <=> touched[m] > Cursor /\ mail[m] = {}
      BY <1>2, <1>4 DEF TimeInv
    <2>2. touched[m] <= Cursor => UpToDate(ix.mail[m], m)
      BY <1>2 DEF MailInv, HeldUpToDate
    <2>3. filter = None => Matches(InfoOf(ix), mail[m])
      BY DEF Matches
    <2>4. m \in plan'.delete => mail[m] = {} \/ filter # None
      BY <1>1, <2>1, <2>3
    <2>5. ASSUME m \notin Queued', touched[m] > Cursor PROVE UpToDate(ix.mail[m], m)
      <3>1. mail[m] # {} /\ m \in delta.changed
        BY <1>1, <2>1, <2>5 DEF Queued
      <3>2. m \notin wanted
        BY <1>1, <2>5 DEF Queued
      <3>3. ~Known(m) /\ filter # None
        BY <1>1, <2>3, <2>5, <3>1, <3>2 DEF Queued
      <3> QED
        BY <3>1, <3>3 DEF UpToDate, Known
    <2>6. m \in plan'.add \cup plan'.update => plan'.in[m] = mail[m] /\ mail[m] # {}
      BY <1>1
    <2> QED
      BY <1>3, <2>2, <2>4, <2>5, <2>6
  <1> HIDE DEF wanted
  <1> QED
    BY <1>1, <1>2, <1>4 DEF PlannedUpToDate, UpToDate

\* The plan of a reconciliation or of a backfill covers everything.
LEMMA PlanAllCovers ==
    ASSUME HeldInv, calm, MailInv, PlanAll
    PROVE  PlannedUpToDate'
  <1> DEFINE wanted == {m \in Msg : mail[m] # {} /\ Matches(InfoOf(ix), mail[m])}
             full == stage = "refresh"
  <1>1. /\ pc = "plan" /\ stage # "sync" /\ pc' = "mail" /\ ix' = ix
        /\ plan'.add = {m \in wanted : ~Known(m)}
        /\ plan'.update = {m \in wanted : full /\ Known(m) /\ ix.mail[m].in # mail[m]}
        /\ plan'.delete = {m \in Msg \ wanted : full /\ Known(m)}
        /\ plan'.in = mail
    BY PlanAllEffect
  <1>2. UNCHANGED <<mail, touched, filter, target>>
    BY DEF PlanAll, server
  <1>3. stage \in {"backfill", "refresh"}
    BY <1>1 DEF HeldInv, IndexInv, TypeInv, PassTyped
  <1>4. ASSUME NEW m \in Msg
        PROVE  /\ m \in plan'.add \cup plan'.update => plan'.in[m] = mail[m] /\ mail[m] # {}
               /\ m \in plan'.delete => mail[m] = {} \/ filter # None
               /\ m \notin Queued' => UpToDate(ix.mail[m], m)
    <2>1. /\ stage = "backfill" => ~Known(m)
          /\ stage = "refresh" /\ Known(m) => ix.mail[m].dir # Unfiled
      BY <1>1 DEF MailInv, FiledAtFirst, KnownMail, Known
    <2>2. filter = None => Matches(InfoOf(ix), mail[m])
      BY DEF Matches
    <2>3. ASSUME m \notin Queued' PROVE UpToDate(ix.mail[m], m)
      <3>1. m \notin plan'.add /\ m \notin plan'.update /\ m \notin plan'.delete
        BY <2>3 DEF Queued
      <3>2. CASE m \in wanted
        <4>1. Known(m) /\ full /\ ix.mail[m].in = mail[m] /\ mail[m] # {}
          BY <1>1, <1>3, <2>1, <3>1, <3>2
        <4> QED
          BY <2>1, <4>1 DEF UpToDate, Known
      <3>3. CASE m \notin wanted
        <4>1. ~Known(m)
          BY <1>1, <1>3, <2>1, <3>1, <3>3
        <4>2. mail[m] # {} => filter # None
          BY <2>2, <3>3
        <4> QED
          BY <4>1, <4>2 DEF UpToDate, Known
      <3> QED
        BY <3>2, <3>3
    <2>4. m \in plan'.add \cup plan'.update => plan'.in[m] = mail[m] /\ mail[m] # {}
      BY <1>1
    <2>5. m \in plan'.delete => mail[m] = {} \/ filter # None
      BY <1>1, <2>2
    <2> QED
      BY <2>3, <2>4, <2>5
  <1> HIDE DEF wanted
  <1> QED
    BY <1>1, <1>2, <1>4 DEF PlannedUpToDate, UpToDate

\* A change of mail brings that message up to date.
LEMMA MailBroughtUpToDate ==
    ASSUME HeldInv, calm, ListInv, MailInv, NEW m \in Msg,
           AddMail(m) \/ UpdateMail(m) \/ DeleteMail(m), touched[m] <= target
    PROVE  UpToDate(ix'.mail[m], m)
  <1>1. /\ pc = "mail"
        /\ \/ /\ m \in plan.add \cup plan.update
              /\ ix'.mail[m] = [in |-> plan.in[m], dir |-> DirFor(ix, plan.in[m])]
              /\ ix'.mail[m] # None
           \/ m \in plan.delete /\ ix'.mail[m] = None
    BY MailEffect
  <1>2. /\ m \in plan.add \cup plan.update => plan.in[m] = mail[m] /\ mail[m] # {}
        /\ m \in plan.delete => mail[m] = {} \/ filter # None
    BY <1>1 DEF MailInv, PlannedUpToDate
  <1>3. CASE m \in plan.add \cup plan.update /\ ix'.mail[m] # None
             /\ ix'.mail[m] = [in |-> plan.in[m], dir |-> DirFor(ix, plan.in[m])]
    <2>1. DirFor(ix, mail[m]) # Unfiled
      BY <1>1, <1>2, <1>3, ListedMailIsFiled
    <2>2. ix'.mail[m].in = mail[m] /\ ix'.mail[m].dir = DirFor(ix, mail[m])
      BY <1>2, <1>3
    <2> QED
      BY <1>2, <1>3, <2>1, <2>2 DEF UpToDate
  <1>4. CASE m \in plan.delete /\ ix'.mail[m] = None
    BY <1>2, <1>4 DEF UpToDate
  <1> QED
    BY <1>1, <1>3, <1>4

\* What the account changes is past what a pass goes on from, and past what it
\* is about to save.
LEMMA AccountIsAhead ==
    ASSUME TypeInv, calm, calm' = calm, AccountInv, TimeInv, Account
    PROVE  /\ UNCHANGED <<filter, calm, saved, ix, pc, stage, plan, target>>
           /\ \A m \in Msg : touched'[m] <= Cursor \/ (pc # "idle" /\ touched'[m] <= target) =>
                 touched'[m] = touched[m] /\ mail'[m] = mail[m]
  <1>1. /\ UNCHANGED <<filter, calm, saved, ix, pc, stage, plan, target>>
        /\ \A m \in Msg : \/ touched'[m] = version + 1
                          \/ touched'[m] = touched[m] /\ mail'[m] = mail[m]
    BY AccountEffect
  <1>2. Cursor \in Nat /\ version \in Nat /\ target \in Nat
    BY PassNumbers
  <1>3. Cursor <= version /\ (pc # "idle" => target <= version)
    BY DEF TimeInv
  <1> QED
    BY <1>1, <1>2, <1>3

\* All mail that changed before a save is in the index as it is in the account.
LEMMA StepMail ==
    ASSUME HeldInv, HeldInv', calm, calm' = calm, AccountInv, TimeInv, ListInv, MailInv,
           Account \/ Working \/ UNCHANGED vars
    PROVE  MailInv'
  <1>1. TypeInv /\ TypeInv' /\ IndexInv'
    BY DEF HeldInv, IndexInv
  <1>2. /\ version \in Nat \ {0} /\ target \in Nat /\ Cursor \in Nat
        /\ \A m \in Msg : touched[m] \in Nat
    BY <1>1, PassNumbers
  <1>3. saved' = saved => Cursor' = Cursor /\ Opened' = Opened
    BY <1>1, OpenedAfter
  <1>4. OpenedUpToDate /\ HeldUpToDate /\ FiledAtFirst /\ PlannedUpToDate /\ DoneUpToDate
    BY DEF MailInv
  <1>5. CASE Account
    <2>1. /\ UNCHANGED <<filter, calm, saved, ix, pc, stage, plan, target>>
          /\ \A m \in Msg : touched'[m] <= Cursor \/ (pc # "idle" /\ touched'[m] <= target) =>
                touched'[m] = touched[m] /\ mail'[m] = mail[m]
      BY <1>1, <1>5, AccountIsAhead
    <2>2. Cursor' = Cursor /\ Opened' = Opened
      BY <1>3, <2>1
    <2>3. OpenedUpToDate' /\ HeldUpToDate'
      BY <1>4, <2>1, <2>2 DEF OpenedUpToDate, HeldUpToDate, UpToDate
    <2>4. FiledAtFirst'
      BY <1>4, <2>1 DEF FiledAtFirst, KnownMail
    <2>5. PlannedUpToDate'
      BY <1>4, <2>1 DEF PlannedUpToDate, UpToDate, Queued
    <2>6. DoneUpToDate'
      BY <1>4, <2>1 DEF DoneUpToDate, UpToDate
    <2> QED
      BY <2>3, <2>4, <2>5, <2>6 DEF MailInv
  <1>6. ASSUME UNCHANGED <<account, saved>>,
               pc' # "idle" => \A m \in Msg : touched[m] <= Cursor => UpToDate(ix'.mail[m], m),
               FiledAtFirst' /\ PlannedUpToDate' /\ DoneUpToDate'
        PROVE  MailInv'
    <2>1. UNCHANGED <<mail, touched, filter>>
      BY <1>6 DEF account
    <2>2. OpenedUpToDate' /\ HeldUpToDate'
      BY <1>3, <1>4, <1>6, <2>1 DEF OpenedUpToDate, HeldUpToDate, UpToDate
    <2> QED
      BY <1>6, <2>2 DEF MailInv
  <1>7. CASE UNCHANGED vars
    <2>1. UNCHANGED <<account, saved, ix, pc, stage, plan, target>>
      BY <1>7 DEF vars, durable, process, pass
    <2>2. UNCHANGED <<mail, touched, filter>>
      BY <2>1 DEF account
    <2>3. FiledAtFirst' /\ PlannedUpToDate' /\ DoneUpToDate'
      BY <1>4, <2>1, <2>2 DEF FiledAtFirst, PlannedUpToDate, DoneUpToDate, UpToDate, Queued, KnownMail
    <2> QED
      BY <1>4, <1>6, <2>1, <2>3 DEF HeldUpToDate
  <1>8. ASSUME NEW kind \in {"sync", "refresh"}, Begin(kind) PROVE MailInv'
    <2>1. /\ pc = "idle" /\ pc' \in {"plan", "list"} /\ UNCHANGED <<account, saved>>
          /\ stage' = IF Cursor = 0 THEN "backfill" ELSE kind
      BY <1>8 DEF Begin, durable, server, account
    <2> kind = "refresh" => Cursor # 0 /\ ~Waiting
      <3>1. (kind = "refresh" => Cursor # 0) /\ calm' = (calm /\ (kind = "refresh" => ~Waiting))
        BY <1>8 DEF Begin
      <3> HIDE DEF Waiting
      <3>2. calm'
        OBVIOUS
      <3>3. kind = "refresh" => ~Waiting
        BY <3>1, <3>2
      <3> QED
        BY <3>1, <3>3
    <2>2. ix' = Opened
      BY <1>8, BeginOpens
    <2>3. stage' = "backfill" => KnownMail(ix') = {}
      <3>1. stage' = "backfill" => saved = None
        BY <2>1 DEF TimeInv
      <3> QED
        BY <2>2, <3>1 DEF Opened, KnownMail, EmptyIndex
    <2>4. stage' = "refresh" => \A m \in KnownMail(ix') : ix'.mail[m].dir # Unfiled
      <3>1. stage' = "refresh" => kind = "refresh"
        BY <2>1
      <3>2. stage' = "refresh" => ix' = saved.index
        BY <2>1, <2>2, <3>1 DEF Opened, Cursor
      <3> QED
        BY <2>1, <3>1, <3>2 DEF Waiting, KnownMail
    <2>5. FiledAtFirst' /\ PlannedUpToDate' /\ DoneUpToDate'
      BY <2>1, <2>3, <2>4 DEF FiledAtFirst, PlannedUpToDate, DoneUpToDate
    <2> QED
      BY <1>4, <1>6, <2>1, <2>2, <2>5 DEF OpenedUpToDate
  <1>9. CASE ListMailboxes
    <2>1. /\ UNCHANGED <<account, saved, ix, stage, plan, target>> /\ pc = "list"
          /\ pc' = IF stage = "sync" THEN "plan" ELSE "upsert"
      BY <1>9 DEF ListMailboxes, durable, process
    <2>2. FiledAtFirst' /\ PlannedUpToDate' /\ DoneUpToDate'
      BY <1>4, <2>1 DEF FiledAtFirst, PlannedUpToDate, DoneUpToDate, KnownMail
    <2> QED
      BY <1>4, <1>6, <2>1, <2>2 DEF HeldUpToDate
  <1>10. CASE PlanSync
    <2>1. UNCHANGED <<account, saved>> /\ pc = "plan" /\ stage = "sync"
      BY <1>10 DEF PlanSync, durable
    <2>2. CASE pc' = "idle"
      <3>1. FiledAtFirst' /\ PlannedUpToDate' /\ DoneUpToDate'
        BY <2>2 DEF FiledAtFirst, PlannedUpToDate, DoneUpToDate
      <3> QED
        BY <1>6, <2>1, <2>2, <3>1
    <2>3. CASE pc' # "idle"
      <3>1. PlannedUpToDate'
        BY <1>10, <2>3, PlanSyncCovers
      <3>2. pc' = "upsert" /\ UNCHANGED <<ix, stage>>
        BY <1>10, <2>3, PlanSyncEffect
      <3>3. FiledAtFirst' /\ DoneUpToDate'
        BY <2>1, <3>2 DEF FiledAtFirst, DoneUpToDate
      <3> QED
        BY <1>4, <1>6, <2>1, <3>1, <3>2, <3>3 DEF HeldUpToDate
    <2> QED
      BY <2>2, <2>3
  <1>11. CASE CommitDay
    <2>1. UNCHANGED <<account, pc, stage, ix, target>> /\ pc = "mail"
      BY <1>11 DEF CommitDay
    <2>2. Cursor' = Cursor /\ Opened' = ix
      BY <1>1, <1>11, OpenedAfter
    <2>3. UNCHANGED <<mail, touched, filter>>
      BY <2>1 DEF account
    <2>4. /\ plan'.add = plan.add /\ plan'.update = plan.update /\ plan'.delete = plan.delete
          /\ plan'.in = plan.in
      <3>1. plan' = [plan EXCEPT !.uncommitted = FALSE]
        BY <1>11 DEF CommitDay
      <3> QED
        BY <1>1, <3>1 DEF TypeInv, PassTyped
    <2>5. OpenedUpToDate' /\ HeldUpToDate'
      BY <1>4, <2>1, <2>2, <2>3 DEF OpenedUpToDate, HeldUpToDate, UpToDate
    <2>6. FiledAtFirst' /\ DoneUpToDate'
      BY <2>1 DEF FiledAtFirst, DoneUpToDate
    <2>7. PlannedUpToDate'
      BY <1>4, <2>1, <2>3, <2>4 DEF PlannedUpToDate, UpToDate, Queued
    <2> QED
      BY <2>5, <2>6, <2>7 DEF MailInv
  <1>12. CASE Save
    <2>1. UNCHANGED <<mail, touched, filter>> /\ pc = "save" /\ pc' = "idle"
      BY <1>12 DEF Save, Forget, account
    <2>2. Cursor' = target /\ Opened' = ix
      BY <1>1, <1>12, OpenedAfter
    <2>3. OpenedUpToDate'
      BY <1>4, <2>1, <2>2 DEF OpenedUpToDate, DoneUpToDate, UpToDate
    <2>4. HeldUpToDate' /\ FiledAtFirst' /\ PlannedUpToDate' /\ DoneUpToDate'
      BY <2>1 DEF HeldUpToDate, FiledAtFirst, PlannedUpToDate, DoneUpToDate
    <2> QED
      BY <2>3, <2>4 DEF MailInv
  <1>13. CASE Middle
    <2>1. /\ UNCHANGED <<account, saved, stage, target>>
          /\ pc \notin {"idle", "list"} /\ pc' \notin {"idle", "list"}
      BY <1>1, <1>13, MiddleSteps
    <2>2. UNCHANGED <<mail, touched, filter>>
      BY <2>1 DEF account
    <2>3. \A m \in Msg : touched[m] <= Cursor => UpToDate(ix.mail[m], m)
      BY <1>4, <2>1 DEF HeldUpToDate
    <2>4. CASE PlanAll
      <3>1. pc' = "mail" /\ ix' = ix
        BY <2>4, PlanAllEffect
      <3>2. PlannedUpToDate'
        BY <2>4, PlanAllCovers
      <3>3. FiledAtFirst' /\ DoneUpToDate'
        BY <3>1 DEF FiledAtFirst, DoneUpToDate
      <3> QED
        BY <1>6, <2>1, <2>3, <3>1, <3>2, <3>3
    <2>5. CASE UpsertsDone
      <3>1. ix' = ix /\ plan' = plan /\ pc = "upsert" /\ pc' = IF stage = "sync" THEN "mail" ELSE "plan"
        BY <2>5 DEF UpsertsDone, process, pass
      <3>2. FiledAtFirst' /\ PlannedUpToDate' /\ DoneUpToDate'
        BY <1>4, <2>1, <2>2, <3>1 DEF FiledAtFirst, PlannedUpToDate, DoneUpToDate, UpToDate, Queued, KnownMail
      <3> QED
        BY <1>6, <2>1, <2>3, <3>1, <3>2
    <2>6. CASE MailDone
      <3>1. ix' = ix /\ pc = "mail" /\ pc' = "prune" /\ Queued = {}
        BY <2>6 DEF MailDone, process, Queued
      <3>2. DoneUpToDate'
        BY <1>4, <2>1, <2>2, <3>1 DEF PlannedUpToDate, DoneUpToDate, UpToDate
      <3>3. FiledAtFirst' /\ PlannedUpToDate'
        BY <3>1 DEF FiledAtFirst, PlannedUpToDate
      <3> QED
        BY <1>6, <2>1, <2>3, <3>1, <3>2, <3>3
    <2>7. CASE PruneDone \/ Commit
      <3>1. ix' = ix /\ pc \in {"prune", "commit"} /\ pc' \in {"commit", "save"}
        BY <2>7 DEF PruneDone, Commit, process
      <3>2. FiledAtFirst' /\ PlannedUpToDate' /\ DoneUpToDate'
        BY <1>4, <2>1, <2>2, <3>1 DEF FiledAtFirst, PlannedUpToDate, DoneUpToDate, UpToDate
      <3> QED
        BY <1>6, <2>1, <2>3, <3>1, <3>2
    <2>8. ASSUME NEW b \in Box, RenameDir(b) \/ MakeDir(b) \/ WriteCard(b) PROVE MailInv'
      <3>1. plan' = plan /\ pc \in {"upsert", "card"} /\ pc' \in {"upsert", "card"}
        BY <2>8 DEF RenameDir, MakeDir, WriteCard, pass
      <3>2. \A m \in Msg :
              /\ ix'.mail[m] = None <=> ix.mail[m] = None
              /\ ix.mail[m] # None =>
                    /\ ix'.mail[m].in = ix.mail[m].in
                    /\ ix.mail[m].dir # Unfiled => ix'.mail[m].dir # Unfiled
        BY <1>1, <2>8, UpsertKeepsMail
      <3>3. \A m \in Msg : UpToDate(ix.mail[m], m) => UpToDate(ix'.mail[m], m)
        BY <3>2 DEF UpToDate
      <3>4. FiledAtFirst'
        BY <1>4, <2>1, <3>1, <3>2 DEF FiledAtFirst, KnownMail
      <3>5. PlannedUpToDate'
        BY <1>4, <2>1, <2>2, <3>1, <3>3 DEF PlannedUpToDate, UpToDate, Queued
      <3>6. DoneUpToDate'
        BY <3>1 DEF DoneUpToDate
      <3> QED
        BY <1>6, <2>1, <2>3, <3>3, <3>4, <3>5, <3>6
    <2>9. ASSUME NEW m \in Msg, AddMail(m) \/ UpdateMail(m) \/ DeleteMail(m) PROVE MailInv'
      <3>1. /\ pc = "mail" /\ pc' = "mail" /\ plan'.in = plan.in
            /\ \A k \in Msg \ {m} : ix'.mail[k] = ix.mail[k]
            /\ plan'.add \subseteq plan.add /\ plan'.update \subseteq plan.update
            /\ plan'.delete \subseteq plan.delete
            /\ Queued \ {m} \subseteq Queued'
        BY <2>9, MailEffect
      <3>2. touched[m] <= target => UpToDate(ix'.mail[m], m)
        BY <2>9, MailBroughtUpToDate
      <3>3. Cursor <= target
        BY <2>1 DEF TimeInv
      <3>4. \A k \in Msg : touched[k] <= Cursor => UpToDate(ix'.mail[k], k)
        BY <1>2, <2>3, <3>1, <3>2, <3>3
      <3>5. PlannedUpToDate'
        <4> SUFFICES ASSUME NEW k \in Msg, touched[k] <= target
                     PROVE  /\ k \in plan'.add \cup plan'.update => plan'.in[k] = mail[k] /\ mail[k] # {}
                            /\ k \in plan'.delete => mail[k] = {} \/ filter # None
                            /\ k \notin Queued' => UpToDate(ix'.mail[k], k)
          BY <2>1, <2>2, <3>1 DEF PlannedUpToDate, UpToDate
        <4>1. /\ k \in plan.add \cup plan.update => plan.in[k] = mail[k] /\ mail[k] # {}
              /\ k \in plan.delete => mail[k] = {} \/ filter # None
              /\ k \notin Queued => UpToDate(ix.mail[k], k)
          BY <1>4, <3>1 DEF PlannedUpToDate
        <4> QED
          BY <3>1, <3>2, <4>1
      <3>6. FiledAtFirst' /\ DoneUpToDate'
        BY <3>1 DEF FiledAtFirst, DoneUpToDate
      <3> QED
        BY <1>6, <2>1, <3>4, <3>5, <3>6
    <2>10. ASSUME NEW b \in Box, Prune(b) PROVE MailInv'
      <3>1. pc = "prune" /\ pc' = "prune" /\ ix'.mail = ix.mail
        BY <1>1, <2>10, PruneEffect
      <3>2. FiledAtFirst' /\ PlannedUpToDate' /\ DoneUpToDate'
        BY <1>4, <2>1, <2>2, <3>1 DEF FiledAtFirst, PlannedUpToDate, DoneUpToDate, UpToDate
      <3> QED
        BY <1>6, <2>1, <2>3, <3>1, <3>2
    <2> QED
      BY <1>13, <2>4, <2>5, <2>6, <2>7, <2>8, <2>9, <2>10 DEF Middle
  <1> QED
    BY <1>5, <1>7, <1>8, <1>9, <1>10, <1>11, <1>12, <1>13, WorkingParts

-----------------------------------------------------------------------------
(* The filter, on the index and on the account.                             *)

\* The mailboxes on a line have lines of every size up to its own, one each.
LEMMA LineSizes ==
    ASSUME NEW t \in TreeOfBoxes, IsForest(t), NEW b \in KnownIn(t)
    PROVE  /\ IsFiniteSet(Line(t, b)) /\ Cardinality(Line(t, b)) \in Nat
           /\ \A i \in 1 .. Cardinality(Line(t, b)) :
                 \E c \in Line(t, b) : /\ Cardinality(Line(t, c)) = i
                                       /\ \A d \in Line(t, b) : Cardinality(Line(t, d)) = i => d = c
  <1> DEFINE K == KnownIn(t)
             Size(c) == Cardinality(Line(t, c))
             Sized(c) == \A i \in 1 .. Size(c) :
                            \E d \in Line(t, c) : /\ Size(d) = i
                                                  /\ \A e \in Line(t, c) : Size(e) = i => e = d
  <1>1. \A c \in K : /\ IsFiniteSet(Line(t, c)) /\ Size(c) \in Nat
                     /\ c \in Line(t, c) /\ Line(t, c) \subseteq K
    <2> SUFFICES ASSUME NEW c \in K
                 PROVE  /\ IsFiniteSet(Line(t, c)) /\ Size(c) \in Nat
                        /\ c \in Line(t, c) /\ Line(t, c) \subseteq K
      OBVIOUS
    <2>1. c \in Line(t, c) /\ Line(t, c) \subseteq K
      BY LineIsLeast
    <2>2. IsFiniteSet(Line(t, c))
      BY <2>1, KnownBoxes, FS_Subset
    <2> QED
      BY <2>1, <2>2, FS_CardinalityType
  <1>2. ASSUME NEW c \in K, ~Sized(c), \A d \in K : Size(d) < Size(c) => Sized(d) PROVE FALSE
    <2> DEFINE p == t[c].parent
    <2>1. PICK i \in 1 .. Size(c) : \A d \in Line(t, c) : Size(d) = i =>
                                        \E e \in Line(t, c) : Size(e) = i /\ e # d
      BY <1>2
    <2>2. CASE p = None
      <3>1. Closed(t, {c})
        BY <2>2, KnownBoxes DEF Closed
      <3>2. Line(t, c) = {c}
        BY <1>1, <3>1, LineIsLeast
      <3>3. Size(c) = 1
        BY <3>2, FS_Singleton
      <3>4. i = 1
        BY <2>1, <3>3
      <3> HIDE DEF Size
      <3> QED
        BY <2>1, <3>2, <3>3, <3>4
    <2>3. CASE p # None
      <3>1. p \in K /\ p \in Line(t, c) /\ p # c
        BY <2>3, ParentOnLine
      <3>2. c \notin Line(t, p) /\ Line(t, p) \subseteq Line(t, c)
        BY <3>1, LineIsAcyclic, LineOfLine
      <3>3. Closed(t, Line(t, p) \cup {c})
        <4>1. Closed(t, Line(t, p)) /\ p \in Line(t, p)
          BY <3>1, LineIsLeast
        <4> QED
          BY <4>1 DEF Closed
      <3>4. Line(t, c) = Line(t, p) \cup {c}
        BY <1>1, <3>1, <3>2, <3>3, LineIsLeast
      <3>5. Size(c) = Size(p) + 1
        <4>1. IsFiniteSet(Line(t, p))
          BY <1>1, <3>1
        <4>2. Cardinality(Line(t, p) \cup {c}) = Cardinality(Line(t, p)) + 1
          BY <3>2, <4>1, FS_AddElement
        <4> QED
          BY <3>4, <4>2
      <3>6. Sized(p)
        <4>1. Size(p) < Size(c)
          BY <1>1, <3>1, <3>5
        <4> HIDE DEF Size, Sized
        <4> QED
          BY <1>2, <3>1, <4>1
      <3>7. \A d \in Line(t, p) : Size(d) \in Nat /\ Size(d) <= Size(p)
        <4> SUFFICES ASSUME NEW d \in Line(t, p) PROVE Size(d) \in Nat /\ Size(d) <= Size(p)
          OBVIOUS
        <4>1. d \in K /\ Line(t, d) \subseteq Line(t, p)
          BY <3>1, LineOfLine
        <4> QED
          BY <1>1, <3>1, <4>1, FS_Subset
      <3>8. Size(p) \in Nat
        BY <1>1, <3>1
      <3> HIDE DEF Size
      <3>9. CASE i = Size(c)
        <4>1. PICK e \in Line(t, c) : Size(e) = i /\ e # c
          BY <1>1, <2>1, <3>9
        <4>2. e \in Line(t, p)
          BY <3>4, <4>1
        <4> QED
          BY <3>5, <3>7, <3>8, <3>9, <4>1, <4>2
      <3>10. CASE i # Size(c)
        <4>1. i \in 1 .. Size(p)
          BY <2>1, <3>5, <3>8, <3>10
        <4>2. PICK d \in Line(t, p) : Size(d) = i /\ \A e \in Line(t, p) : Size(e) = i => e = d
          BY <3>6, <4>1
        <4>3. PICK e \in Line(t, c) : Size(e) = i /\ e # d
          BY <2>1, <3>4, <4>2
        <4>4. e # c
          BY <3>10, <4>3
        <4> QED
          BY <3>4, <4>2, <4>3, <4>4
      <3> QED
        BY <3>9, <3>10
    <2> QED
      BY <2>2, <2>3
  <1>3. ASSUME ~Sized(b) PROVE FALSE
    <2> DEFINE T == {Size(c) : c \in {c \in K : ~Sized(c)}}
    <2> HIDE DEF Size, Sized
    <2>1. T \subseteq Nat /\ T # {}
      BY <1>1, <1>3
    <2>2. PICK n \in T : \A k \in T : n <= k
      BY <2>1, LeastExists
    <2>3. PICK c \in K : ~Sized(c) /\ Size(c) = n
      BY <2>2
    <2>4. \A d \in K : Size(d) < Size(c) => Sized(d)
      <3> SUFFICES ASSUME NEW d \in K, Size(d) < Size(c), ~Sized(d) PROVE FALSE
        OBVIOUS
      <3>1. Size(d) \in T
        OBVIOUS
      <3> QED
        BY <1>1, <2>2, <2>3, <3>1
    <2> QED
      BY <1>2, <2>3, <2>4
  <1>4. Sized(b)
    BY <1>3
  <1> QED
    BY <1>1, <1>4

\* A tree with more mailboxes, none of them above those of a forest, gives those
\* of the forest the same lines.
LEMMA LinesAgree ==
    ASSUME NEW t, NEW u \in TreeOfBoxes, IsForest(u),
           \A b \in KnownIn(u) : t[b] = u[b], NEW b \in KnownIn(u)
    PROVE  b \in KnownIn(t) /\ Line(t, b) = Line(u, b)
  <1>1. KnownIn(u) \subseteq KnownIn(t)
    BY DEF KnownIn
  <1>2. \A c \in KnownIn(u) : u[c].parent \in KnownIn(u) \cup {None}
    BY DEF IsForest
  <1>3. None \notin KnownIn(t)
    BY BoxAssumption DEF KnownIn
  <1>4. /\ Line(u, b) \subseteq KnownIn(u) /\ b \in Line(u, b) /\ Closed(u, Line(u, b))
        /\ \A S \in SUBSET KnownIn(u) : b \in S /\ Closed(u, S) => Line(u, b) \subseteq S
    BY LineIsLeast
  <1>5. /\ Line(t, b) \subseteq KnownIn(t) /\ b \in Line(t, b) /\ Closed(t, Line(t, b))
        /\ \A S \in SUBSET KnownIn(t) : b \in S /\ Closed(t, S) => Line(t, b) \subseteq S
    BY <1>1, LineIsLeast
  <1>6. Closed(t, Line(u, b))
    <2> SUFFICES ASSUME NEW c \in Line(u, b), t[c].parent \in KnownIn(t)
                 PROVE  t[c].parent \in Line(u, b)
      BY DEF Closed
    <2>1. c \in KnownIn(u) /\ t[c] = u[c]
      BY <1>4
    <2>2. u[c].parent \in KnownIn(u)
      BY <1>2, <1>3, <2>1
    <2> QED
      BY <1>4, <2>1, <2>2 DEF Closed
  <1>7. Line(t, b) \subseteq Line(u, b)
    BY <1>1, <1>4, <1>5, <1>6
  <1>8. Closed(u, Line(t, b))
    BY <1>1, <1>4, <1>5, <1>7 DEF Closed
  <1> QED
    BY <1>1, <1>4, <1>5, <1>7, <1>8

\* So they have the same names.
LEMMA NamesAgree ==
    ASSUME NEW t, NEW u \in TreeOfBoxes, IsForest(u),
           \A b \in KnownIn(u) : t[b] = u[b], NEW b \in KnownIn(u)
    PROVE  NamePath(t, b) = NamePath(u, b)
  <1> DEFINE L == Line(u, b)
             N == 1 .. Cardinality(L)
             At(v, i) == CHOOSE c \in L : Cardinality(Line(v, c)) = i
  <1>1. L \subseteq KnownIn(u) /\ \A c \in L : Line(t, c) = Line(u, c)
    BY LineIsLeast, LinesAgree
  <1>2. Line(t, b) = L
    BY LinesAgree
  <1>3. \A i \in N : \E c \in L : /\ Cardinality(Line(u, c)) = i
                                  /\ \A d \in L : Cardinality(Line(u, d)) = i => d = c
    BY LineSizes
  <1>4. ASSUME NEW i \in N PROVE t[At(t, i)].name = u[At(u, i)].name
    <2>1. PICK c \in L : /\ Cardinality(Line(u, c)) = i
                         /\ \A d \in L : Cardinality(Line(u, d)) = i => d = c
      BY <1>3
    <2>2. At(u, i) = c
      BY <2>1
    <2>3. At(t, i) = c
      <3>1. /\ Cardinality(Line(t, c)) = i
            /\ \A d \in L : Cardinality(Line(t, d)) = i => d = c
        BY <1>1, <2>1
      <3> QED
        BY <3>1
    <2>4. t[c] = u[c]
      BY <1>1
    <2> HIDE DEF At
    <2> QED
      BY <2>2, <2>3, <2>4
  <1>5. /\ NamePath(t, b) = [i \in N |-> t[At(t, i)].name]
        /\ NamePath(u, b) = [i \in N |-> u[At(u, i)].name]
    BY <1>2 DEF NamePath
  <1> HIDE DEF At, N, L
  <1> QED
    BY <1>4, <1>5

\* And the filter passes the same mail.
LEMMA MatchesAgree ==
    ASSUME NEW t, NEW u \in TreeOfBoxes, IsForest(u),
           \A b \in KnownIn(u) : t[b] = u[b], NEW in, in \subseteq KnownIn(u)
    PROVE  Matches(t, in) <=> Matches(u, in)
  <1>1. KnownIn(u) \subseteq KnownIn(t)
    BY DEF KnownIn
  <1>2. \A b \in in : NamePath(t, b) = NamePath(u, b)
    BY NamesAgree
  <1>3. in \cap KnownIn(t) = in /\ in \cap KnownIn(u) = in
    BY <1>1
  <1> QED
    BY <1>2, <1>3 DEF Matches

-----------------------------------------------------------------------------
(* A full refresh.                                                          *)

\* A pass that reached the present knows the mailboxes as they are.
LEMMA ListedAsTheyAre ==
    ASSUME HeldInv, calm, ListInv, target = version,
           pc \in {"mail", "prune", "commit", "save"} \/ (pc = "plan" /\ stage # "sync")
    PROVE  \A b \in KnownIn(boxes) : InfoOf(ix)[b] = boxes[b]
  BY DEF ListInv, ListFacts, Direct

\* What was saved at the present version has the mailboxes as they are.
LEMMA StepBoxes ==
    ASSUME HeldInv, HeldInv', calm, calm' = calm, AccountInv, TimeInv, ListInv, BoxInv,
           Account \/ Working \/ UNCHANGED vars
    PROVE  BoxInv'
  <1>1. TypeInv /\ TypeInv'
    BY DEF HeldInv, IndexInv
  <1>2. version \in Nat /\ target \in Nat /\ Cursor \in Nat
    BY <1>1, PassNumbers
  <1>3. saved' = saved => Cursor' = Cursor /\ Opened' = Opened
    BY <1>1, OpenedAfter
  <1>4. CASE Account
    <2>1. version' = version + 1 /\ UNCHANGED saved
      BY <1>1, <1>4, AccountEffect
    <2>2. Cursor' # version'
      BY <1>2, <1>3, <2>1 DEF TimeInv
    <2> QED
      BY <2>2 DEF BoxInv
  <1>5. ASSUME UNCHANGED <<account, saved>> PROVE BoxInv'
    <2>1. UNCHANGED <<boxes, version>> /\ Cursor' = Cursor /\ Opened' = Opened
      BY <1>3, <1>5 DEF account
    <2>2. InfoOf(Opened') = InfoOf(Opened) /\ KnownIn(boxes') = KnownIn(boxes)
      BY <2>1
    <2> QED
      BY <2>1, <2>2 DEF BoxInv
  <1>6. CASE UNCHANGED vars
    BY <1>5, <1>6 DEF vars, durable
  <1>7. CASE (\E kind \in {"sync", "refresh"} : Begin(kind)) \/ ListMailboxes \/ PlanSync
    BY <1>5, <1>7 DEF Begin, ListMailboxes, PlanSync, durable, server, account
  <1>8. CASE Middle
    BY <1>1, <1>5, <1>8, MiddleSteps
  <1>9. CASE CommitDay \/ Save
    <2>1. pc \in {"mail", "save"} /\ UNCHANGED <<boxes, version>>
      BY <1>9 DEF CommitDay, Save, account
    <2>2. Opened' = ix /\ Cursor' \in {Cursor, target}
      BY <1>1, <1>9, OpenedAfter
    <2>3. Cursor' = version => target = version
      BY <1>2, <2>1, <2>2 DEF TimeInv
    <2>4. Cursor' = version => \A b \in KnownIn(boxes) : InfoOf(ix)[b] = boxes[b]
      BY <2>1, <2>3, ListedAsTheyAre
    <2>5. InfoOf(Opened') = InfoOf(ix) /\ KnownIn(boxes') = KnownIn(boxes)
      BY <2>1, <2>2
    <2> QED
      BY <2>1, <2>4, <2>5 DEF BoxInv
  <1> QED
    BY <1>4, <1>6, <1>7, <1>8, <1>9, WorkingParts

\* The filter passes on the index what it passes on the account.
LEMMA PlanAllExact ==
    ASSUME HeldInv, calm, calm' = calm, AccountInv, ListInv, PlanAll
    PROVE  PlannedExact'
  <1> DEFINE wanted == {m \in Msg : mail[m] # {} /\ Matches(InfoOf(ix), mail[m])}
  <1>1. /\ pc = "plan" /\ stage # "sync" /\ pc' = "mail" /\ ix' = ix
        /\ plan'.add = {m \in wanted : ~Known(m)}
        /\ plan'.update = {m \in wanted : stage = "refresh" /\ Known(m) /\ ix.mail[m].in # mail[m]}
        /\ plan'.delete = {m \in Msg \ wanted : stage = "refresh" /\ Known(m)}
        /\ plan'.in = mail
    BY PlanAllEffect
  <1>2. UNCHANGED account /\ UNCHANGED <<target, stage>>
    BY DEF PlanAll, server, account
  <1>3. \A m \in Msg : Wanted(m)' <=> Wanted(m)
    BY <1>2 DEF account, Wanted, Matches
  <1>4. UNCHANGED <<mail, version>>
    BY <1>2 DEF account
  <1>5. ASSUME stage = "refresh", target = version, NEW m \in Msg
        PROVE  /\ m \in plan'.add \cup plan'.update => Wanted(m) /\ plan'.in[m] = mail[m]
               /\ m \in plan'.delete => ~Wanted(m)
               /\ m \notin Queued' => Exact(ix.mail[m], m)
    <2>1. \A b \in KnownIn(boxes) : InfoOf(ix)[b] = boxes[b]
      BY <1>1, <1>5, ListedAsTheyAre
    <2>2. boxes \in TreeOfBoxes /\ IsForest(boxes) /\ mail[m] \subseteq KnownIn(boxes)
      BY DEF HeldInv, IndexInv, TypeInv, AccountTyped, ForestInv, TreeOfBoxes, AccountInv
    <2>3. Matches(InfoOf(ix), mail[m]) <=> Matches(boxes, mail[m])
      BY <2>1, <2>2, MatchesAgree
    <2>4. Wanted(m) <=> m \in wanted
      BY <2>3 DEF Wanted
    <2> HIDE DEF wanted
    <2>5. m \in plan'.add \cup plan'.update => Wanted(m) /\ plan'.in[m] = mail[m]
      BY <1>1, <2>4
    <2>6. m \in plan'.delete => ~Wanted(m)
      BY <1>1, <2>4
    <2>7. ASSUME m \notin Queued' PROVE Exact(ix.mail[m], m)
      <3>1. m \notin plan'.add /\ m \notin plan'.update /\ m \notin plan'.delete
        BY <2>7 DEF Queued
      <3> QED
        BY <1>1, <1>5, <2>4, <3>1 DEF Exact, Known
    <2> QED
      BY <2>5, <2>6, <2>7
  <1> HIDE DEF wanted
  <1> QED
    BY <1>1, <1>2, <1>3, <1>4, <1>5 DEF PlannedExact, Exact

\* A full refresh of a quiet account ends with the mail the filter passes, each
\* message with its mailboxes, and no other.
LEMMA StepFull ==
    ASSUME HeldInv, HeldInv', calm, calm' = calm, AccountInv, TimeInv, ListInv, FullInv,
           Account \/ Working \/ UNCHANGED vars
    PROVE  FullInv'
  <1>1. TypeInv /\ TypeInv'
    BY DEF HeldInv, IndexInv
  <1>2. version \in Nat /\ target \in Nat /\ Cursor \in Nat
    BY <1>1, PassNumbers
  <1>3. saved' = saved => Cursor' = Cursor /\ Opened' = Opened
    BY <1>1, OpenedAfter
  <1>4. PlannedExact /\ DoneExact /\ OpenedExact
    BY DEF FullInv
  <1>5. UNCHANGED account => UNCHANGED <<mail, version>> /\ \A m \in Msg : Wanted(m)' <=> Wanted(m)
    BY DEF account, Wanted, Matches
  <1>6. CASE Account
    <2>1. version' = version + 1 /\ UNCHANGED <<saved, pc, target>>
      BY <1>1, <1>6, AccountEffect
    <2>2. Cursor' # version' /\ (pc # "idle" => target' # version')
      BY <1>2, <1>3, <2>1 DEF TimeInv
    <2> QED
      BY <2>1, <2>2 DEF FullInv, PlannedExact, DoneExact, OpenedExact
  <1>7. CASE UNCHANGED vars
    <2>1. UNCHANGED <<account, saved, pc, stage, target, done, plan, ix>>
      BY <1>7 DEF vars, durable, process, pass
    <2> QED
      BY <1>3, <1>4, <1>5, <2>1 DEF FullInv, PlannedExact, DoneExact, OpenedExact, Exact, Queued
  <1>8. CASE (\E kind \in {"sync", "refresh"} : Begin(kind)) \/ ListMailboxes
    <2>1. /\ pc' \in {"list", "plan", "upsert"}
      BY <1>8 DEF Begin, ListMailboxes
    <2> QED
      BY <2>1 DEF FullInv, PlannedExact, DoneExact, OpenedExact
  <1>9. CASE PlanSync
    <2>1. pc' = "upsert" \/ (pc' = "idle" /\ done' = "sync")
      BY <1>9 DEF PlanSync, Forget
    <2> QED
      BY <2>1 DEF FullInv, PlannedExact, DoneExact, OpenedExact
  <1>10. CASE CommitDay
    <2>1. UNCHANGED <<account, pc, stage, target, ix>> /\ pc = "mail"
      BY <1>10 DEF CommitDay
    <2>2. /\ plan'.add = plan.add /\ plan'.update = plan.update /\ plan'.delete = plan.delete
          /\ plan'.in = plan.in
      <3>1. plan' = [plan EXCEPT !.uncommitted = FALSE]
        BY <1>10 DEF CommitDay
      <3> QED
        BY <1>1, <3>1 DEF TypeInv, PassTyped
    <2> QED
      BY <1>4, <1>5, <2>1, <2>2 DEF FullInv, PlannedExact, DoneExact, OpenedExact, Exact, Queued
  <1>11. CASE Save
    <2>1. UNCHANGED account /\ pc = "save" /\ pc' = "idle" /\ done' = stage
      BY <1>11 DEF Save, Forget
    <2>2. Cursor' = target /\ Opened' = ix
      BY <1>1, <1>11, OpenedAfter
    <2>3. OpenedExact'
      BY <1>4, <1>5, <2>1, <2>2 DEF OpenedExact, DoneExact, Exact
    <2>4. PlannedExact' /\ DoneExact'
      BY <2>1 DEF PlannedExact, DoneExact
    <2> QED
      BY <2>3, <2>4 DEF FullInv
  <1>12. CASE Middle
    <2>1. UNCHANGED <<account, stage, target>> /\ pc' # "idle"
      BY <1>1, <1>12, MiddleSteps
    <2>2. OpenedExact'
      BY <2>1 DEF OpenedExact
    <2>3. CASE PlanAll
      <3>1. pc' = "mail"
        BY <2>3, PlanAllEffect
      <3>2. PlannedExact'
        BY <2>3, PlanAllExact
      <3> QED
        BY <2>2, <3>1, <3>2 DEF FullInv, DoneExact
    <2>4. ASSUME pc' \in {"plan", "upsert", "card"} \/ (pc' = "mail" /\ stage = "sync") PROVE FullInv'
      BY <2>1, <2>2, <2>4 DEF FullInv, PlannedExact, DoneExact
    <2>5. CASE UpsertsDone
      BY <2>4, <2>5 DEF UpsertsDone
    <2>6. CASE MailDone
      <3>1. ix' = ix /\ pc = "mail" /\ pc' = "prune" /\ Queued = {}
        BY <2>6 DEF MailDone, process, Queued
      <3> QED
        BY <1>4, <1>5, <2>1, <2>2, <3>1 DEF FullInv, PlannedExact, DoneExact, Exact
    <2>7. CASE PruneDone \/ Commit
      <3>1. ix' = ix /\ pc \in {"prune", "commit"} /\ pc' \in {"commit", "save"}
        BY <2>7 DEF PruneDone, Commit, process
      <3> QED
        BY <1>4, <1>5, <2>1, <2>2, <3>1 DEF FullInv, PlannedExact, DoneExact, Exact
    <2>8. ASSUME NEW b \in Box, RenameDir(b) \/ MakeDir(b) \/ WriteCard(b) PROVE FullInv'
      BY <2>4, <2>8 DEF RenameDir, MakeDir, WriteCard
    <2>9. ASSUME NEW m \in Msg, AddMail(m) \/ UpdateMail(m) \/ DeleteMail(m) PROVE FullInv'
      <3>1. /\ pc = "mail" /\ pc' = "mail" /\ plan'.in = plan.in
            /\ \A k \in Msg \ {m} : ix'.mail[k] = ix.mail[k]
            /\ \/ /\ m \in plan.add \cup plan.update
                  /\ ix'.mail[m] = [in |-> plan.in[m], dir |-> DirFor(ix, plan.in[m])]
                  /\ ix'.mail[m] # None
               \/ m \in plan.delete /\ ix'.mail[m] = None
            /\ plan'.add \subseteq plan.add /\ plan'.update \subseteq plan.update
            /\ plan'.delete \subseteq plan.delete
            /\ Queued \ {m} \subseteq Queued'
        BY <2>9, MailEffect
      <3>2. ASSUME stage = "refresh", target = version, NEW k \in Msg
            PROVE  /\ k \in plan'.add \cup plan'.update => Wanted(k) /\ plan'.in[k] = mail[k]
                   /\ k \in plan'.delete => ~Wanted(k)
                   /\ k \notin Queued' => Exact(ix'.mail[k], k)
        <4>1. \A n \in Msg : /\ n \in plan.add \cup plan.update => Wanted(n) /\ plan.in[n] = mail[n]
                             /\ n \in plan.delete => ~Wanted(n)
                             /\ n \notin Queued => Exact(ix.mail[n], n)
          BY <1>4, <3>1, <3>2 DEF PlannedExact
        <4>2. Exact(ix'.mail[m], m)
          BY <3>1, <4>1 DEF Exact
        <4> QED
          BY <3>1, <4>1, <4>2
      <3>3. PlannedExact'
        BY <1>5, <2>1, <3>1, <3>2 DEF PlannedExact, Exact
      <3> QED
        BY <2>2, <3>1, <3>3 DEF FullInv, DoneExact
    <2>10. ASSUME NEW b \in Box, Prune(b) PROVE FullInv'
      <3>1. pc = "prune" /\ pc' = "prune" /\ ix'.mail = ix.mail
        BY <1>1, <2>10, PruneEffect
      <3> QED
        BY <1>4, <1>5, <2>1, <2>2, <3>1 DEF FullInv, PlannedExact, DoneExact, Exact
    <2> QED
      BY <1>12, <2>3, <2>5, <2>6, <2>7, <2>8, <2>9, <2>10 DEF Middle
  <1> QED
    BY <1>6, <1>7, <1>8, <1>9, <1>10, <1>11, <1>12, WorkingParts

-----------------------------------------------------------------------------
(* A quiet account is mirrored.                                             *)

MirrorInv == calm => AccountInv /\ TimeInv /\ ListInv /\ MailInv /\ BoxInv /\ FullInv

\* The first state.
LEMMA InitMirrors ==
    ASSUME Init, TypeInv
    PROVE  MirrorInv
  <1>1. /\ pc = "idle" /\ stage = "none" /\ ix = EmptyIndex /\ gone = {} /\ retired = {}
        /\ KnownIn(listed) = {} /\ Cursor = 0 /\ Opened = EmptyIndex /\ version = 1
        /\ saved = None /\ done = "none"
    BY DEF Init, KnownIn, Cursor, Opened
  <1>2. touched = [m \in Msg |-> IF mail[m] = {} THEN 0 ELSE 1]
    BY DEF Init
  <1>3. \A m \in Msg : touched[m] = IF mail[m] = {} THEN 0 ELSE 1
    BY <1>2
  <1>4. \A m \in Msg : mail[m] \subseteq KnownIn(boxes)
    <2>1. PICK s \in Starts : boxes = s.boxes /\ mail = s.mail
      BY DEF Init
    <2> QED
      BY <2>1, StartsAssumption
  <1>5. KnownIn(EmptyIndex.box) = {} /\ \A m \in Msg : EmptyIndex.mail[m] = None
    BY EmptyIndexPlaced DEF EmptyIndex
  <1>6. AccountInv
    BY <1>1, <1>3, <1>4, <1>5 DEF AccountInv, Ids
  <1>7. TimeInv /\ ListInv /\ BoxInv /\ FullInv
    BY <1>1 DEF TimeInv, ListInv, ListFacts, BoxInv, FullInv, PlannedExact, DoneExact, OpenedExact
  <1>8. MailInv
    <2>1. OpenedUpToDate
      BY <1>1, <1>3, <1>5 DEF OpenedUpToDate, UpToDate
    <2> QED
      BY <1>1, <2>1 DEF MailInv, HeldUpToDate, FiledAtFirst, PlannedUpToDate, DoneUpToDate
  <1> QED
    BY <1>6, <1>7, <1>8 DEF MirrorInv

\* Every step.
LEMMA StepMirrors ==
    ASSUME HeldInv, MirrorInv, Unbroken', [Next]_vars
    PROVE  MirrorInv'
  <1>1. CASE ~calm'
    BY <1>1 DEF MirrorInv
  <1>2. CASE calm'
    <2> calm /\ calm' = calm
      BY <1>2, CalmStays
    <2>1. HeldInv' /\ (Account \/ Working \/ UNCHANGED vars)
      BY WorkingSteps
    <2>2. AccountInv /\ TimeInv /\ ListInv /\ MailInv /\ BoxInv /\ FullInv
      BY DEF MirrorInv
    <2>3. AccountInv'
      BY <2>1, <2>2, StepAccount
    <2>4. TimeInv'
      BY <2>1, <2>2, StepTime
    <2>5. ListInv'
      BY <2>1, <2>2, <2>4, StepList
    <2>6. MailInv' /\ BoxInv' /\ FullInv'
      BY <2>1, <2>2, StepMail, StepBoxes, StepFull
    <2> QED
      BY <2>3, <2>4, <2>5, <2>6 DEF MirrorInv
  <1> QED
    BY <1>1, <1>2

\* Up to the first interruption.
LEMMA SpecMirrors == Spec => [](Unbroken => HeldInv /\ MirrorInv)
  <1>1. Init => MirrorInv
    BY InitTyped, InitMirrors
  <1>2. TypeInv /\ (Unbroken => HeldInv) /\ (Unbroken => MirrorInv) /\ [Next]_vars
        => (Unbroken => MirrorInv)'
    BY StopsStay, StepMirrors
  <1> QED
    BY <1>1, <1>2, SpecTyped, SpecHeld, PTL DEF Spec

\* A full refresh of a quiet account leaves the account's tree and the mail the
\* filter passes on it, filed under a mailbox each message is in; so does a
\* catch-up when no filter looks at mailboxes: whatever the account did before
\* and during the passes that came first, if none of them was interrupted, none was
\* a reconciliation begun while mail waited in `_unfiled` (where it then stays:
\* stream.rs:252 begins it when it is due, sync.rs compares mailboxes, not places),
\* and none a backfill of a git store that met no mail.
THEOREM TheArchiveMirrors == Spec => [](Unbroken => Mirrors)
  <1>1. HeldInv /\ MirrorInv => Mirrors
    <2> SUFFICES ASSUME HeldInv, MirrorInv, calm, pc = "idle", Cursor = version,
                        done = "refresh" \/ (done = "sync" /\ filter = None),
                        NEW index \in OpenIndex
                 PROVE  /\ \A b \in KnownIn(boxes) : InfoOf(index)[b] = boxes[b]
                        /\ \A m \in Msg :
                             IF mail[m] # {} /\ Matches(boxes, mail[m])
                             THEN /\ index.mail[m] # None /\ index.mail[m].in = mail[m]
                                  /\ index.mail[m].dir \in {index.box[b].dir : b \in mail[m]}
                             ELSE index.mail[m] = None
      BY DEF Mirrors, Settled
    <2>1. AccountInv /\ TimeInv /\ ListInv /\ MailInv /\ BoxInv /\ FullInv
      BY DEF MirrorInv
    <2>2. index = Opened /\ Stored(Opened, {})
      <3>1. saved # None
        BY DEF HeldInv, DiskInv
      <3> QED
        BY <3>1, OpenIndexPlaced DEF HeldInv, DiskInv, Opened
    <2>3. \A b \in KnownIn(boxes) : InfoOf(index)[b] = boxes[b]
      BY <2>1, <2>2 DEF BoxInv
    <2>4. ASSUME NEW m \in Msg
          PROVE  IF mail[m] # {} /\ Matches(boxes, mail[m])
                 THEN /\ index.mail[m] # None /\ index.mail[m].in = mail[m]
                      /\ index.mail[m].dir \in {index.box[b].dir : b \in mail[m]}
                 ELSE index.mail[m] = None
      <3>1. UpToDate(index.mail[m], m)
        <4>1. touched[m] <= version
          BY <2>1 DEF AccountInv
        <4> QED
          BY <2>1, <2>2, <4>1 DEF MailInv, OpenedUpToDate
      <3>2. Exact(index.mail[m], m)
        <4>1. CASE done = "refresh"
          BY <2>1, <2>2, <4>1 DEF FullInv, OpenedExact
        <4>2. CASE filter = None
          BY <3>1, <4>2 DEF Exact, Wanted, UpToDate, Matches
        <4> QED
          BY <4>1, <4>2
      <3>3. ASSUME index.mail[m] # None, index.mail[m].in = mail[m]
            PROVE  index.mail[m].dir \in {index.box[b].dir : b \in mail[m]}
        <4>1. index.mail[m].dir # Unfiled
          BY <3>1, <3>3 DEF UpToDate
        <4>2. m \in KnownMail(index) /\ Filed(index)
          BY <2>2, <3>3 DEF KnownMail, Stored
        <4> QED
          BY <3>3, <4>1, <4>2 DEF Filed
      <3> QED
        BY <3>2, <3>3 DEF Exact, Wanted
    <2> QED
      BY <2>3, <2>4
  <1> QED
    BY <1>1, SpecMirrors, PTL

-----------------------------------------------------------------------------
(* Mailboxes that are gone.                                                 *)

\* Of several mailboxes, one has the most of anything counted.
LEMMA GreatestExists ==
    ASSUME NEW f \in [Box -> Nat], NEW S, S \subseteq Box, S # {}
    PROVE  \E b \in S : \A c \in S : f[c] <= f[b]
  <1> DEFINE Topped(R) == \E b \in R : \A c \in R : f[c] <= f[b]
             T == {Cardinality(R) : R \in {R \in SUBSET S : R # {} /\ ~Topped(R)}}
  <1>1. IsFiniteSet(S)
    BY BoxAssumption, FS_Subset
  <1>2. \A R \in SUBSET S : IsFiniteSet(R) /\ Cardinality(R) \in Nat
    BY <1>1, FS_Subset, FS_CardinalityType
  <1>3. SUFFICES ASSUME ~Topped(S) PROVE FALSE
    OBVIOUS
  <1> HIDE DEF Topped
  <1>4. T \subseteq Nat /\ T # {}
    BY <1>2, <1>3
  <1>5. PICK n \in T : \A k \in T : n <= k
    BY <1>4, LeastExists
  <1>6. PICK R \in SUBSET S : R # {} /\ ~Topped(R) /\ Cardinality(R) = n
    BY <1>5
  <1>7. PICK x : x \in R
    BY <1>6
  <1>8. IsFiniteSet(R \ {x}) /\ Cardinality(R \ {x}) = Cardinality(R) - 1
    BY <1>2, <1>7, FS_RemoveElement
  <1>9. CASE R \ {x} = {}
    <2>1. R = {x} /\ x \in Box
      BY <1>7, <1>9
    <2>2. f[x] <= f[x]
      BY <2>1
    <2> QED
      BY <1>6, <2>1, <2>2 DEF Topped
  <1>10. CASE R \ {x} # {}
    <2>1. Topped(R \ {x})
      <3> SUFFICES ASSUME ~Topped(R \ {x}) PROVE FALSE
        OBVIOUS
      <3>1. Cardinality(R \ {x}) \in T
        BY <1>10
      <3>2. n <= Cardinality(R) - 1
        BY <1>5, <1>8, <3>1
      <3> QED
        BY <1>2, <1>6, <3>2
    <2>2. PICK b \in R \ {x} : \A c \in R \ {x} : f[c] <= f[b]
      BY <2>1 DEF Topped
    <2>3. x \in Box /\ \A c \in R : f[c] \in Nat
      BY <1>7
    <2>4. CASE f[x] <= f[b]
      BY <1>6, <2>2, <2>4 DEF Topped
    <2>5. CASE ~(f[x] <= f[b])
      <3>1. \A c \in R : f[c] <= f[x]
        BY <1>7, <2>2, <2>3, <2>5
      <3> QED
        BY <1>6, <1>7, <3>1 DEF Topped
    <2> QED
      BY <2>4, <2>5
  <1> QED
    BY <1>9, <1>10

\* What is above the directory of a mailbox on the list is that of a mailbox on
\* the list.
LEMMA AboveIsListed ==
    ASSUME ix \in Index, WellPlaced(ix, InfoOf(ix)), listed \in TreeOfBoxes, IsForest(listed),
           \A a \in KnownIn(listed) : InfoOf(ix)[a] = listed[a],
           NEW b \in KnownIn(ix.box), NEW c \in KnownIn(listed), Above(ix.box[b].dir, ix.box[c].dir)
    PROVE  b \in KnownIn(listed)
  <1> DEFINE K == KnownIn(listed)
             Dir(a) == ix.box[a].dir
             Stray(a) == a \in K /\ Above(Dir(b), Dir(a))
             T == {Len(Dir(a)) : a \in {a \in K : Stray(a)}}
  <1>1. SUFFICES ASSUME b \notin K PROVE FALSE
    OBVIOUS
  <1>2. K \subseteq KnownIn(ix.box)
    BY DEF KnownIn, InfoOf
  <1>3. \A a \in KnownIn(ix.box) : Dir(a) \in Path /\ Dir(a) # <<>>
    BY IndexEntries DEF WellPlaced, NestedAs
  <1>4. \A a \in KnownIn(ix.box) : Len(Dir(a)) \in Nat
    BY <1>3, PathElements
  <1>5. PICK a \in K : Stray(a) /\ \A d \in K : Stray(d) => Len(Dir(a)) <= Len(Dir(d))
    <2> HIDE DEF Stray, Dir
    <2>1. T \subseteq Nat /\ T # {}
      BY <1>2, <1>4 DEF Stray, Dir
    <2>2. PICK n \in T : \A k \in T : n <= k
      BY <2>1, LeastExists
    <2>3. PICK a \in K : Stray(a) /\ Len(Dir(a)) = n
      BY <2>2
    <2> QED
      BY <2>2, <2>3
  <1> DEFINE p == listed[a].parent
  <1>6. /\ a \in KnownIn(ix.box) /\ InfoOf(ix)[a] = listed[a] /\ Above(Dir(b), Dir(a))
        /\ p = None => Front(Dir(a)) = <<>>
        /\ p # None => p \in KnownIn(ix.box) /\ Front(Dir(a)) = Dir(p)
    BY <1>2, <1>5 DEF WellPlaced, NestedAs
  <1>7. IsPrefix(Dir(b), Front(Dir(a))) /\ Above(Front(Dir(a)), Dir(a))
    BY <1>3, <1>6, PrefixOfFront
  <1>8. CASE p = None
    <2>1. IsPrefix(Dir(b), <<>>)
      BY <1>6, <1>7, <1>8
    <2> QED
      BY <1>3, <2>1, PrefixOrder
  <1>9. CASE p # None
    <2>1. p \in K
      BY <1>9 DEF IsForest
    <2>2. IsPrefix(Dir(b), Dir(p)) /\ Above(Dir(p), Dir(a))
      BY <1>6, <1>7, <1>9
    <2>3. Dir(b) # Dir(p)
      <3>1. p # b /\ p \in KnownIn(ix.box)
        BY <1>1, <1>2, <2>1
      <3> QED
        BY <3>1, WellPlacedApart
    <2>4. Above(Dir(b), Dir(p))
      BY <1>2, <1>3, <2>1, <2>2, <2>3, AboveIsPrefix
    <2>5. Len(Dir(p)) < Len(Dir(a))
      BY <1>2, <1>3, <1>6, <2>1, <2>2, AboveIsPrefix
    <2>6. Len(Dir(a)) <= Len(Dir(p))
      BY <1>5, <2>1, <2>4
    <2>7. Len(Dir(p)) \in Nat /\ Len(Dir(a)) \in Nat
      BY <1>2, <1>4, <1>6, <2>1
    <2> HIDE DEF Dir, p
    <2> QED
      BY <2>5, <2>6, <2>7
  <1> QED
    BY <1>8, <1>9

\* Whatever keeps a mailbox that is gone from being removed is another one.
LEMMA GoneHoldsGone ==
    ASSUME HeldInv, calm, ListInv, ThinInv, stage = "refresh", pc = "prune",
           gone \subseteq KnownIn(ix.box), NEW b \in gone, HasContents(ix.box[b].dir)
    PROVE  \E c \in gone : Above(ix.box[b].dir, ix.box[c].dir)
  <1>1. /\ ix \in Index /\ WellPlaced(ix, InfoOf(ix)) /\ listed \in TreeOfBoxes /\ IsForest(listed)
        /\ Filed(ix)
    BY PlacedInfoAtRest DEF HeldInv, IndexInv, TypeInv, ProcessTyped, PassTyped, PlacedInv, ForestInv,
       TreeOfBoxes, DiskInv, Stored
  <1>2. ListFacts
    BY DEF ListInv, ListFacts, Direct
  <1>3. /\ b \in KnownIn(ix.box) /\ b \notin KnownIn(listed)
        /\ KnownIn(ix.box) \subseteq KnownIn(listed) \cup gone
        /\ \A a \in KnownIn(listed) : InfoOf(ix)[a] = listed[a]
    BY <1>2 DEF ListFacts
  <1>4. \A c \in KnownIn(listed) : ~Above(ix.box[b].dir, ix.box[c].dir)
    BY <1>1, <1>3, AboveIsListed
  <1>5. ASSUME NEW m \in Msg, ix.mail[m] # None,
               ix.mail[m].dir = ix.box[b].dir \/ Above(ix.box[b].dir, ix.mail[m].dir)
        PROVE  FALSE
    <2>1. m \in KnownMail(ix) /\ ix.mail[m].in = plan.in[m] /\ plan.in[m] \cap gone = {}
      BY <1>5 DEF KnownMail, ThinInv, ThinFacts
    <2>2. ix.box[b].dir \in Path /\ ix.box[b].dir # <<>> /\ ix.box[b].dir # Unfiled
      <3>1. ix.box[b].dir # Unfiled
        BY <1>1, <1>3, WellPlacedApart
      <3> QED
        BY <1>1, <1>3, <3>1, IndexEntries DEF WellPlaced, NestedAs
    <2>3. CASE ix.mail[m].dir = Unfiled
      <3>1. IsPrefix(ix.box[b].dir, Unfiled)
        BY <1>5, <2>2, <2>3, UnfiledIsTop, AboveIsPrefix
      <3> QED
        BY <2>2, <3>1, UnfiledIsTop
    <2>4. ASSUME NEW c \in ix.mail[m].in \cap KnownIn(ix.box), ix.mail[m].dir = ix.box[c].dir
          PROVE  FALSE
      <3>1. c \in KnownIn(listed) /\ c # b /\ c \in KnownIn(ix.box)
        BY <1>3, <2>1, <2>4
      <3>2. ix.box[c].dir # ix.box[b].dir
        BY <1>1, <1>3, <3>1, WellPlacedApart
      <3> QED
        BY <1>4, <1>5, <2>4, <3>1, <3>2
    <2> QED
      BY <1>1, <2>1, <2>3, <2>4 DEF Filed
  <1>6. PICK c \in KnownIn(ix.box) : Above(ix.box[b].dir, ix.box[c].dir)
    BY <1>5 DEF HasContents
  <1> QED
    BY <1>3, <1>4, <1>6

\* Some mailbox that is gone has no other below it.
LEMMA DeepestIsBare ==
    ASSUME ix \in Index, gone \subseteq KnownIn(ix.box), gone # {}
    PROVE  \E b \in gone : \A c \in gone : ~Above(ix.box[b].dir, ix.box[c].dir)
  <1> DEFINE f == [b \in Box |-> IF b \in gone THEN Len(ix.box[b].dir) ELSE 0]
  <1>1. \A b \in gone : b \in Box /\ ix.box[b].dir \in Path /\ Len(ix.box[b].dir) \in Nat
    BY IndexEntries, PathElements
  <1>2. f \in [Box -> Nat] /\ \A b \in gone : f[b] = Len(ix.box[b].dir)
    BY <1>1
  <1> HIDE DEF f
  <1>3. PICK b \in gone : \A c \in gone : f[c] <= f[b]
    BY <1>1, <1>2, GreatestExists
  <1>4. ASSUME NEW c \in gone, Above(ix.box[b].dir, ix.box[c].dir) PROVE FALSE
    <2>1. Len(ix.box[b].dir) < Len(ix.box[c].dir)
      BY <1>1, <1>4, AboveIsPrefix
    <2>2. Len(ix.box[c].dir) <= Len(ix.box[b].dir)
      BY <1>2, <1>3
    <2> QED
      BY <1>1, <2>1, <2>2
  <1> QED
    BY <1>4

\* Of the mailboxes a refresh finds gone, it removes one at least.
LEMMA StepThin ==
    ASSUME HeldInv, HeldInv', calm, calm' = calm, AccountInv, ListInv, ThinInv,
           Account \/ Working \/ UNCHANGED vars
    PROVE  ThinInv'
  <1>1. TypeInv /\ TypeInv'
    BY DEF HeldInv, IndexInv
  <1>2. ASSUME UNCHANGED <<ix, pc, todo, stage, gone>>, plan'.in = plan.in, plan'.update = plan.update,
               plan'.delete = plan.delete
        PROVE  ThinInv'
    <2>1. stage = "refresh" => ThinFacts
      BY DEF ThinInv
    <2>2. ThinFacts => ThinFacts'
      BY <1>2 DEF ThinFacts, KnownMail
    <2> QED
      BY <1>2, <2>1, <2>2 DEF ThinInv
  <1>3. CASE Account
    BY <1>1, <1>2, <1>3, AccountEffect
  <1>4. CASE UNCHANGED vars
    BY <1>2, <1>4 DEF vars, process, pass
  <1>5. ASSUME pc' \in {"idle", "list", "plan", "upsert", "card"} PROVE ThinInv'
    BY <1>5 DEF ThinInv, ThinFacts
  <1>6. CASE (\E kind \in {"sync", "refresh"} : Begin(kind)) \/ ListMailboxes \/ PlanSync \/ Save
    BY <1>5, <1>6 DEF Begin, ListMailboxes, PlanSync, Save, Forget
  <1>7. CASE CommitDay
    <2>1. UNCHANGED <<ix, pc, todo, stage, gone>> /\ plan' = [plan EXCEPT !.uncommitted = FALSE]
      BY <1>7 DEF CommitDay
    <2>2. plan'.update = plan.update /\ plan'.delete = plan.delete /\ plan'.in = plan.in
      BY <1>1, <2>1 DEF TypeInv, PassTyped
    <2> QED
      BY <1>2, <2>1, <2>2
  <1>8. CASE Middle
    <2>1. UNCHANGED <<account, stage, gone>>
      BY <1>1, <1>8, MiddleSteps
    <2>2. SUFFICES ASSUME stage = "refresh" PROVE ThinInv'
      BY <2>1 DEF ThinInv
    <2>3. ThinFacts
      BY <2>2 DEF ThinInv
    <2>4. SUFFICES ASSUME pc' \notin {"idle", "list", "plan", "upsert", "card"} PROVE ThinFacts'
      BY <1>5 DEF ThinInv
    <2>5. CASE PlanAll
      <3>1. /\ pc = "plan" /\ pc' = "mail" /\ ix' = ix /\ plan'.in = mail
            /\ \A m \in Msg : /\ Known(m) /\ ix.mail[m].in # mail[m] =>
                                   m \in plan'.update \cup plan'.delete
        <4> DEFINE wanted == {m \in Msg : mail[m] # {} /\ Matches(InfoOf(ix), mail[m])}
        <4>1. /\ pc = "plan" /\ pc' = "mail" /\ ix' = ix /\ plan'.in = mail
              /\ plan'.update = {m \in wanted : stage = "refresh" /\ Known(m) /\ ix.mail[m].in # mail[m]}
              /\ plan'.delete = {m \in Msg \ wanted : stage = "refresh" /\ Known(m)}
          BY <2>5, PlanAllEffect
        <4> HIDE DEF wanted
        <4> QED
          BY <2>2, <4>1
      <3>2. \A m \in Msg : mail[m] \cap gone = {}
        BY DEF AccountInv
      <3> QED
        BY <2>1, <3>1, <3>2 DEF ThinFacts, KnownMail, Known
    <2>6. CASE UpsertsDone
      BY <2>2, <2>4, <2>6 DEF UpsertsDone
    <2>7. CASE MailDone
      <3>1. /\ ix' = ix /\ plan' = plan /\ pc = "mail" /\ pc' = "prune" /\ todo' = gone
            /\ plan.update \cup plan.delete = {}
        BY <2>7 DEF MailDone, process, pass
      <3> QED
        BY <2>1, <2>3, <3>1 DEF ThinFacts, KnownMail
    <2>8. CASE PruneDone
      <3>1. ix' = ix /\ pc = "prune" /\ todo = {} /\ pc' \in {"commit", "save"}
        BY <2>8 DEF PruneDone, process
      <3>2. ASSUME gone # {}, gone \subseteq KnownIn(ix.box) PROVE FALSE
        <4>1. \A b \in gone : \E c \in gone : Above(ix.box[b].dir, ix.box[c].dir)
          BY <2>3, <3>1, <3>2 DEF ThinFacts
        <4> QED
          BY <1>1, <3>2, <4>1, DeepestIsBare DEF TypeInv, ProcessTyped
      <3> QED
        BY <2>1, <3>1, <3>2 DEF ThinFacts
    <2>9. CASE Commit
      <3>1. ix' = ix /\ pc = "commit" /\ pc' = "save"
        BY <2>9 DEF Commit, process
      <3> QED
        BY <2>1, <2>3, <3>1 DEF ThinFacts
    <2>10. ASSUME NEW b \in Box, RenameDir(b) \/ MakeDir(b) \/ WriteCard(b) PROVE ThinFacts'
      BY <2>4, <2>10 DEF RenameDir, MakeDir, WriteCard
    <2>11. ASSUME NEW m \in Msg, AddMail(m) \/ UpdateMail(m) \/ DeleteMail(m) PROVE ThinFacts'
      <3>1. /\ pc = "mail" /\ pc' = "mail" /\ plan'.in = plan.in
            /\ \A k \in Msg \ {m} : ix'.mail[k] = ix.mail[k]
            /\ \/ /\ ix'.mail[m] = [in |-> plan.in[m], dir |-> DirFor(ix, plan.in[m])]
               \/ ix'.mail[m] = None
            /\ (plan.update \cup plan.delete) \ {m} \subseteq plan'.update \cup plan'.delete
        BY <2>11, MailEffect
      <3>2. ASSUME NEW k \in Msg, ix'.mail[k] # None
            PROVE  k \in plan'.update \cup plan'.delete \/ ix'.mail[k].in = plan.in[k]
        <4>1. CASE k = m
          BY <3>1, <3>2, <4>1
        <4>2. CASE k # m
          BY <2>3, <3>1, <3>2, <4>2 DEF ThinFacts, KnownMail
        <4> QED
          BY <4>1, <4>2
      <3> QED
        BY <2>1, <2>3, <3>1, <3>2 DEF ThinFacts, KnownMail
    <2>12. ASSUME NEW b \in Box, Prune(b) PROVE ThinFacts'
      <3>1. /\ pc = "prune" /\ pc' = "prune" /\ b \in todo /\ todo' = todo \ {b}
            /\ ix'.mail = ix.mail /\ plan' = plan
            /\ \/ HasContents(ix.box[b].dir) /\ ix'.box = ix.box
               \/ ix'.box[b] = None
        BY <1>1, <2>12, PruneEffect DEF Prune, pass
      <3>2. b \in gone
        BY <3>1 DEF ListInv, ListFacts, Direct
      <3>3. ASSUME gone \subseteq KnownIn(ix'.box), NEW a \in gone \ todo'
            PROVE  \E c \in gone : Above(ix'.box[a].dir, ix'.box[c].dir)
        <4>1. HasContents(ix.box[b].dir) /\ ix'.box = ix.box
          BY <3>1, <3>2, <3>3 DEF KnownIn
        <4>2. gone \subseteq KnownIn(ix.box)
          BY <3>3, <4>1
        <4>3. CASE a = b
          BY <2>2, <3>1, <3>2, <4>1, <4>2, <4>3, GoneHoldsGone
        <4>4. CASE a # b
          BY <2>3, <3>1, <3>3, <4>1, <4>2, <4>4 DEF ThinFacts
        <4> QED
          BY <4>3, <4>4
      <3> QED
        BY <2>1, <2>3, <3>1, <3>3 DEF ThinFacts, KnownMail
    <2> QED
      BY <1>8, <2>5, <2>6, <2>7, <2>8, <2>9, <2>10, <2>11, <2>12 DEF Middle
  <1> QED
    BY <1>3, <1>4, <1>6, <1>7, <1>8, WorkingParts

\* Up to the first interruption.
LEMMA SpecThins == Spec => [](Unbroken /\ calm => ThinInv)
  <1>1. Init => (calm => ThinInv)
    BY DEF Init, ThinInv, ThinFacts
  <1>2. TypeInv /\ (Unbroken => HeldInv /\ MirrorInv) /\ (Unbroken /\ calm => ThinInv) /\ [Next]_vars
        => (Unbroken /\ calm => ThinInv)'
    <2> SUFFICES ASSUME HeldInv, MirrorInv, calm => ThinInv, [Next]_vars, Unbroken', calm'
                 PROVE  ThinInv'
      BY StopsStay
    <2>1. calm /\ calm' = calm
      BY CalmStays
    <2>2. HeldInv' /\ (Account \/ Working \/ UNCHANGED vars)
      BY <2>1, WorkingSteps
    <2> QED
      BY <2>1, <2>2, StepThin DEF MirrorInv
  <1> QED
    BY <1>1, <1>2, SpecTyped, SpecMirrors, PTL DEF Spec

\* A mailbox whose removal is put off because it has contents does not stay for
\* good: of the mailboxes a refresh finds gone, however they nest and whatever
\* mail is left in them, it removes one at least; again while nothing interrupts a
\* pass and with the two exceptions of calm.
THEOREM RefreshesPrune == Spec /\ []Unbroken => RefreshPrunes
  <1>1. (calm => ThinInv) =>
          [calm /\ pc = "save" /\ stage = "refresh" /\ gone # {} => ~(gone \subseteq KnownIn(ix.box))]_vars
    BY DEF ThinInv, ThinFacts
  <1> QED
    BY <1>1, SpecThins, PTL DEF RefreshPrunes

==============================================================================
