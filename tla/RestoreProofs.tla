------------------------------ MODULE RestoreProofs ------------------------------
(***************************************************************************)
(* For every archive, account, filter and prefix, and whatever requests    *)
(* fail or have their answer lost: a restore files under the mailboxes it  *)
(* means, imports nothing twice, reports what it did, and does what a dry  *)
(* run said.                                                               *)
(***************************************************************************)
EXTENDS Restore, FiniteSetTheorems, TLAPS

-----------------------------------------------------------------------------
(* Recursion and induction along the parents.                               *)

\* A set of naturals has a least element.
LEMMA LeastExists ==
    ASSUME NEW T, T \subseteq Nat, T # {}
    PROVE  \E x \in T : \A y \in T : x <= y
  <1>1. PICK x \in T : \A y \in T : ~(<<y, x>> \in OpToRel(<, Nat))
    BY NatLessThanWellFounded, WFMin
  <1>2. ASSUME NEW y \in T PROVE x <= y
    <2>1. x \in Nat /\ y \in Nat
      OBVIOUS
    <2>2. y < x => <<y, x>> \in OpToRel(<, Nat)
      BY <2>1 DEF OpToRel
    <2>3. ~(y < x)
      BY <1>1, <2>2, Zenon
    <2> QED
      BY <2>1, <2>3
  <1> QED
    BY <1>2

\* up leads from every member of S to one of less depth, or out of S to nil.
Ascends(S, up, nil, depth, top) ==
    /\ nil \notin S /\ up \in [S -> S \cup {nil}]
    /\ top \in Nat /\ depth \in [S -> 0 .. top]
    /\ \A x \in S : up[x] # nil => depth[up[x]] < depth[x]

\* What holds of a member when it holds of the one above it holds of all.
LEMMA Climb ==
    ASSUME NEW S, NEW up, NEW nil, NEW depth, NEW top, Ascends(S, up, nil, depth, top),
           NEW T, \A x \in S : up[x] = nil \/ up[x] \in T => x \in T
    PROVE  S \subseteq T
  <1> SUFFICES ASSUME NEW z \in S, z \notin T PROVE FALSE
    OBVIOUS
  <1> DEFINE D == {depth[x] : x \in S \ T}
  <1>1. /\ up \in [S -> S \cup {nil}] /\ depth \in [S -> Nat]
        /\ \A x \in S : up[x] # nil => depth[up[x]] < depth[x]
    BY DEF Ascends
  <1>2. D \subseteq Nat /\ depth[z] \in D
    BY <1>1
  <1>3. PICK d \in D : \A e \in D : d <= e
    BY <1>2, LeastExists
  <1>4. PICK x \in S \ T : d = depth[x]
    OBVIOUS
  <1>5. up[x] # nil /\ up[x] \in S \ T
    BY <1>1
  <1>6. depth[up[x]] < depth[x] /\ depth[up[x]] \in D
    BY <1>1, <1>5
  <1>7. depth[x] <= depth[up[x]] /\ depth[x] \in Nat /\ depth[up[x]] \in Nat
    BY <1>1, <1>3, <1>4, <1>5, <1>6
  <1> QED
    BY <1>6, <1>7

\* f is computed on the way down from what it is above.
FollowsUp(f, S, up, nil, v, g) ==
    \A x \in S : f[x] = g[<<IF up[x] = nil THEN v ELSE f[up[x]], x>>]

\* A function can be defined along the way up.
LEMMA Recurse ==
    ASSUME NEW S, NEW up, NEW nil, NEW depth, NEW top, Ascends(S, up, nil, depth, top),
           NEW V, NEW v \in V, NEW g \in [V \X S -> V]
    PROVE  \E f \in [S -> V] : FollowsUp(f, S, up, nil, v, g)
  <1> DEFINE Above(f, x) == IF up[x] = nil THEN v ELSE f[up[x]]
             Solves(f, n) == \A x \in S : depth[x] < n => f[x] = g[<<Above(f, x), x>>]
             Unsolved == {n \in Nat : \A f \in [S -> V] : ~Solves(f, n)}
  <1>1. /\ up \in [S -> S \cup {nil}] /\ depth \in [S -> 0 .. top] /\ top \in Nat
        /\ \A x \in S : up[x] # nil => depth[up[x]] < depth[x]
    BY DEF Ascends
  <1>2. ASSUME NEW f \in [S -> V], NEW x \in S
        PROVE  Above(f, x) \in V /\ g[<<Above(f, x), x>>] \in V
    BY <1>1
  <1>3. ASSUME NEW n \in Nat, NEW f \in [S -> V], Solves(f, n)
        PROVE  \E h \in [S -> V] : Solves(h, n + 1)
    <2> DEFINE h == [x \in S |-> g[<<Above(f, x), x>>]]
    <2>1. h \in [S -> V]
      BY <1>2
    <2>2. ASSUME NEW x \in S, depth[x] < n + 1 PROVE h[x] = g[<<Above(h, x), x>>]
      <3>1. CASE up[x] = nil
        BY <3>1
      <3>2. CASE up[x] # nil
        <4>1. up[x] \in S /\ depth[up[x]] < n
          BY <1>1, <2>2, <3>2
        <4>2. f[up[x]] = g[<<Above(f, up[x]), up[x]>>]
          BY <1>3, <4>1
        <4>3. h[up[x]] = f[up[x]]
          BY <4>1, <4>2
        <4> QED
          BY <3>2, <4>3
      <3> QED
        BY <3>1, <3>2
    <2> QED
      BY <2>1, <2>2
  <1>4. Unsolved = {}
    <2> SUFFICES ASSUME Unsolved # {} PROVE FALSE
      OBVIOUS
    <2>1. PICK n \in Unsolved : \A k \in Unsolved : n <= k
      BY LeastExists
    <2>2. n # 0
      <3>1. [x \in S |-> v] \in [S -> V] /\ Solves([x \in S |-> v], 0)
        BY <1>1
      <3> QED
        BY <3>1
    <2>3. n - 1 \in Nat /\ n - 1 \notin Unsolved
      BY <2>1, <2>2
    <2>4. PICK f \in [S -> V] : Solves(f, n - 1)
      BY <2>3
    <2>5. \E h \in [S -> V] : Solves(h, (n - 1) + 1)
      BY <1>3, <2>3, <2>4
    <2> QED
      BY <2>1, <2>5
  <1>5. top + 1 \in Nat
    BY <1>1
  <1>6. PICK f \in [S -> V] : Solves(f, top + 1)
    BY <1>4, <1>5
  <1>7. \A x \in S : f[x] = g[<<Above(f, x), x>>]
    BY <1>1, <1>6
  <1> QED
    BY <1>7 DEF FollowsUp

-----------------------------------------------------------------------------
(* Names, paths and chains of mailboxes.                                    *)

\* The markers for absence and for the two places made up are no mailboxes.
LEMMA Distinct ==
    /\ None \notin Box /\ PrefixPlace \notin Box /\ Unfiled \notin Box
    /\ PrefixPlace # Unfiled /\ None \notin Names
  BY MailboxAssumption, NameAssumption DEF PrefixPlace, Unfiled

\* The parents of the archived mailboxes lead up.
LEMMA BoxesAscend ==
    \E depth : Ascends(Box, Parent, None, depth, Cardinality(Box))
  <1>1. PICK depth \in [Box -> 0 .. Cardinality(Box)] :
            \A b \in Box : Parent[b] # None => depth[Parent[b]] < depth[b]
    BY MailboxAssumption
  <1>2. Cardinality(Box) \in Nat
    BY MailboxAssumption, FS_CardinalityType
  <1> QED
    BY <1>1, <1>2, Distinct, MailboxAssumption DEF Ascends

\* Lower case of paths.
LEMMA LoweredPaths ==
    ASSUME NEW s \in Seq(Names), NEW t \in Seq(Names)
    PROVE  /\ Lowered(s) \in Seq(Names)
           /\ Lowered(s \o t) = Lowered(s) \o Lowered(t)
           /\ Lowered(Lowered(s)) = Lowered(s)
  <1>1. Lower \in [Names -> Names] /\ \A n \in Names : Lower[Lower[n]] = Lower[n]
    BY NameAssumption
  <1>2. \A u \in Seq(Names) :
            /\ Lowered(u) \in Seq(Names) /\ Len(Lowered(u)) = Len(u)
            /\ \A i \in 1 .. Len(u) : u[i] \in Names /\ Lowered(u)[i] = Lower[u[i]]
    <2> TAKE u \in Seq(Names)
    <2>1. /\ DOMAIN u = 1 .. Len(u) /\ Len(u) \in Nat
          /\ \A i \in 1 .. Len(u) : u[i] \in Names
      OBVIOUS
    <2>2. Lowered(u) = [i \in 1 .. Len(u) |-> Lower[u[i]]]
      BY <2>1 DEF Lowered
    <2>3. \A i \in 1 .. Len(u) : Lower[u[i]] \in Names
      BY <1>1, <2>1
    <2> QED
      BY <2>1, <2>2, <2>3
  <1>3. Lowered(s \o t) = Lowered(s) \o Lowered(t)
    <2>1. s \o t \in Seq(Names) /\ Len(s \o t) = Len(s) + Len(t)
      OBVIOUS
    <2>2. ASSUME NEW i \in 1 .. Len(s) + Len(t)
          PROVE  Lowered(s \o t)[i] = (Lowered(s) \o Lowered(t))[i]
      <3>1. Lowered(s \o t)[i] = Lower[(s \o t)[i]]
        BY <1>2, <2>1
      <3>2. CASE i <= Len(s)
        BY <1>2, <3>1, <3>2
      <3>3. CASE i > Len(s)
        <4>1. i - Len(s) \in 1 .. Len(t) /\ (s \o t)[i] = t[i - Len(s)]
          BY <3>3
        <4>2. (Lowered(s) \o Lowered(t))[i] = Lowered(t)[i - Len(s)]
          BY <1>2, <3>3
        <4> QED
          BY <1>2, <3>1, <4>1, <4>2
      <3>4. i <= Len(s) \/ i > Len(s)
        OBVIOUS
      <3> QED
        BY <3>2, <3>3, <3>4
    <2>3. /\ Lowered(s \o t) \in Seq(Names) /\ Lowered(s) \o Lowered(t) \in Seq(Names)
          /\ Len(Lowered(s \o t)) = Len(s) + Len(t)
          /\ Len(Lowered(s) \o Lowered(t)) = Len(s) + Len(t)
      <3>1. /\ Lowered(s) \in Seq(Names) /\ Len(Lowered(s)) = Len(s)
            /\ Lowered(t) \in Seq(Names) /\ Len(Lowered(t)) = Len(t)
            /\ Lowered(s \o t) \in Seq(Names) /\ Len(Lowered(s \o t)) = Len(s \o t)
        BY <1>2, <2>1
      <3>2. \A u, w \in Seq(Names) :
                u \o w \in Seq(Names) /\ Len(u \o w) = Len(u) + Len(w)
        OBVIOUS
      <3>3. /\ Lowered(s) \o Lowered(t) \in Seq(Names)
            /\ Len(Lowered(s) \o Lowered(t)) = Len(Lowered(s)) + Len(Lowered(t))
        BY <3>1, <3>2, Zenon
      <3> QED
        BY <2>1, <3>1, <3>3, Zenon
    <2>4. \A i \in 1 .. Len(Lowered(s \o t)) :
              Lowered(s \o t)[i] = (Lowered(s) \o Lowered(t))[i]
      BY <2>2, <2>3
    <2>5. \A u, w \in Seq(Names) :
              Len(u) = Len(w) /\ (\A i \in 1 .. Len(u) : u[i] = w[i]) => u = w
      OBVIOUS
    <2> QED
      BY <2>3, <2>4, <2>5, Zenon
  <1>4. Lowered(Lowered(s)) = Lowered(s)
    <2>1. /\ Lowered(s) \in Seq(Names) /\ Lowered(Lowered(s)) \in Seq(Names)
          /\ Len(Lowered(Lowered(s))) = Len(Lowered(s))
      BY <1>2
    <2>2. \A i \in 1 .. Len(Lowered(s)) : Lowered(Lowered(s))[i] = Lowered(s)[i]
      BY <1>1, <1>2
    <2>3. \A u, w \in Seq(Names) :
              Len(u) = Len(w) /\ (\A i \in 1 .. Len(u) : u[i] = w[i]) => u = w
      OBVIOUS
    <2> QED
      BY <2>1, <2>2, <2>3, Zenon
  <1> QED
    BY <1>2, <1>3, <1>4

\* The path of a mailbox is that of its parent and its own name.
LEMMA NamePathRecurses ==
    \A b \in Box : NamePath[b] = (IF Parent[b] = None THEN <<>> ELSE NamePath[Parent[b]])
                                 \o Segments[Name[b]]
  <1> DEFINE g == [x \in Seq(Names) \X Box |-> x[1] \o Segments[Name[x[2]]]]
  <1>1. \A b \in Box : Segments[Name[b]] \in Seq(Names)
    BY MailboxAssumption, NameAssumption
  <1>2. g \in [Seq(Names) \X Box -> Seq(Names)]
    BY <1>1
  <1>3. <<>> \in Seq(Names)
    OBVIOUS
  <1>4. PICK f \in [Box -> Seq(Names)] : FollowsUp(f, Box, Parent, None, <<>>, g)
    <2>1. PICK depth : Ascends(Box, Parent, None, depth, Cardinality(Box))
      BY BoxesAscend
    <2> HIDE DEF g
    <2> QED
      BY <1>2, <1>3, <2>1, Recurse
  <1>5. \A b \in Box : (IF Parent[b] = None THEN <<>> ELSE f[Parent[b]]) \in Seq(Names)
    BY <1>3, MailboxAssumption
  <1>6. f = [b \in Box |-> (IF Parent[b] = None THEN <<>> ELSE f[Parent[b]])
                           \o Segments[Name[b]]]
    BY <1>4, <1>5 DEF FollowsUp
  <1>7. NamePath = [b \in Box |-> (IF Parent[b] = None THEN <<>> ELSE NamePath[Parent[b]])
                                  \o Segments[Name[b]]]
    BY <1>6 DEF NamePath
  <1> QED
    BY <1>7

\* It is a path.
LEMMA NamePaths == \A b \in Box : NamePath[b] \in Seq(Names)
  <1> DEFINE T == {b \in Box : NamePath[b] \in Seq(Names)}
  <1>1. ASSUME NEW b \in Box, Parent[b] = None \/ Parent[b] \in T PROVE b \in T
    <2>1. Segments[Name[b]] \in Seq(Names)
      BY MailboxAssumption, NameAssumption
    <2>2. (IF Parent[b] = None THEN <<>> ELSE NamePath[Parent[b]]) \in Seq(Names)
      BY <1>1
    <2>3. \A u, w \in Seq(Names) : u \o w \in Seq(Names)
      OBVIOUS
    <2>4. NamePath[b] \in Seq(Names)
      BY <2>1, <2>2, <2>3, NamePathRecurses, Zenon
    <2> QED
      BY <2>4
  <1> HIDE DEF T
  <1>2. Box \subseteq T
    BY <1>1, BoxesAscend, Climb
  <1> QED
    BY <1>2 DEF T

\* The chain of a mailbox is itself and the chain of its parent.
LEMMA ChainRecurses ==
    \A b \in Box : Chain[b] = {b} \cup (IF Parent[b] = None THEN {} ELSE Chain[Parent[b]])
  <1> DEFINE g == [x \in (SUBSET Box) \X Box |-> {x[2]} \cup x[1]]
  <1>1. g \in [(SUBSET Box) \X Box -> SUBSET Box] /\ {} \in SUBSET Box
    OBVIOUS
  <1>2. PICK f \in [Box -> SUBSET Box] : FollowsUp(f, Box, Parent, None, {}, g)
    <2>1. PICK depth : Ascends(Box, Parent, None, depth, Cardinality(Box))
      BY BoxesAscend
    <2> HIDE DEF g
    <2> QED
      BY <1>1, <2>1, Recurse
  <1>3. \A b \in Box : (IF Parent[b] = None THEN {} ELSE f[Parent[b]]) \in SUBSET Box
    BY MailboxAssumption
  <1>4. f = [b \in Box |-> {b} \cup (IF Parent[b] = None THEN {} ELSE f[Parent[b]])]
    BY <1>2, <1>3 DEF FollowsUp
  <1>5. Chain = [b \in Box |-> {b} \cup (IF Parent[b] = None THEN {} ELSE Chain[Parent[b]])]
    BY <1>4 DEF Chain
  <1> QED
    BY <1>5

\* A chain is of mailboxes, is closed under parents, and is longer than that of
\* the parent.
LEMMA Chains ==
    \A b \in Box :
        /\ b \in Chain[b] /\ Chain[b] \subseteq Box
        /\ Cardinality(Chain[b]) \in 1 .. Cardinality(Box)
        /\ \A c \in Chain[b] : Parent[c] # None => Parent[c] \in Chain[b]
        /\ Parent[b] # None => Cardinality(Chain[Parent[b]]) < Cardinality(Chain[b])
  <1>1. PICK depth : Ascends(Box, Parent, None, depth, Cardinality(Box))
    BY BoxesAscend
  <1>2. /\ Parent \in [Box -> Box \cup {None}] /\ depth \in [Box -> Nat]
        /\ \A b \in Box : Parent[b] # None => depth[Parent[b]] < depth[b]
    BY <1>1 DEF Ascends
  <1> DEFINE Good(b) ==
                 /\ b \in Chain[b] /\ Chain[b] \subseteq Box
                 /\ \A c \in Chain[b] : Parent[c] # None => Parent[c] \in Chain[b]
                 /\ \A c \in Chain[b] : depth[c] <= depth[b]
             T == {b \in Box : Good(b)}
  <1>3. ASSUME NEW b \in Box, Parent[b] = None \/ Parent[b] \in T PROVE b \in T
    <2>1. CASE Parent[b] = None
      <3>1. Chain[b] = {b}
        BY <2>1, ChainRecurses
      <3> QED
        BY <1>2, <2>1, <3>1
    <2>2. CASE Parent[b] # None
      <3>1. Chain[b] = {b} \cup Chain[Parent[b]] /\ Parent[b] \in Box /\ Good(Parent[b])
        BY <1>3, <2>2, ChainRecurses
      <3>2. \A c \in Chain[b] : depth[c] <= depth[b]
        BY <1>2, <2>2, <3>1
      <3> QED
        BY <3>1, <3>2
    <2> QED
      BY <2>1, <2>2
  <1>4. Box \subseteq T
    <2> HIDE DEF T
    <2> QED
      BY <1>1, <1>3, Climb
  <1>5. ASSUME NEW b \in Box
        PROVE  IsFiniteSet(Chain[b]) /\ Cardinality(Chain[b]) \in 1 .. Cardinality(Box)
    <2>1. Chain[b] \in SUBSET Box /\ b \in Chain[b]
      BY <1>4
    <2>2. /\ IsFiniteSet(Chain[b]) /\ Cardinality(Chain[b]) <= Cardinality(Box)
          /\ Cardinality(Box) \in Nat
      BY <2>1, FS_Subset, FS_CardinalityType, MailboxAssumption
    <2>3. Cardinality(Chain[b]) \in Nat /\ Cardinality(Chain[b]) # 0
      BY <2>1, <2>2, FS_CardinalityType, FS_EmptySet
    <2> QED
      BY <2>2, <2>3
  <1>6. ASSUME NEW b \in Box, Parent[b] # None
        PROVE  Cardinality(Chain[Parent[b]]) < Cardinality(Chain[b])
    <2>1. Parent[b] \in Box /\ Chain[b] = {b} \cup Chain[Parent[b]]
      BY <1>2, <1>6, ChainRecurses
    <2>2. b \notin Chain[Parent[b]]
      BY <1>2, <1>4, <1>6, <2>1
    <2>3. IsFiniteSet(Chain[Parent[b]]) /\ Cardinality(Chain[Parent[b]]) \in Nat
      BY <1>5, <2>1
    <2>4. Cardinality(Chain[Parent[b]] \cup {b}) = Cardinality(Chain[Parent[b]]) + 1
      BY <2>2, <2>3, FS_AddElement
    <2>5. Chain[Parent[b]] \cup {b} = Chain[b]
      BY <2>1
    <2>6. Cardinality(Chain[b]) = Cardinality(Chain[Parent[b]]) + 1
      BY <2>4, <2>5
    <2> QED
      BY <2>3, <2>6
  <1> QED
    BY <1>4, <1>5, <1>6

-----------------------------------------------------------------------------
(* The mailboxes of the account.                                            *)

Mailbox == [name : Names, parent : Nat, role : STRING \cup {None}]

\* A parent comes before its children.
WellFormed(bs) == bs \in Seq(Mailbox) /\ \A i \in DOMAIN bs : bs[i].parent < i

\* What this says of each of them.
LEMMA MailboxesTyped ==
    ASSUME NEW bs, WellFormed(bs)
    PROVE  /\ DOMAIN bs = 1 .. Len(bs) /\ Len(bs) \in Nat
           /\ \A i \in DOMAIN bs :
                 /\ bs[i] \in Mailbox /\ bs[i].name \in Names
                 /\ bs[i].parent \in Nat /\ bs[i].parent < i
  <1>1. DOMAIN bs = 1 .. Len(bs) /\ Len(bs) \in Nat
    BY DEF WellFormed
  <1>2. ASSUME NEW i \in DOMAIN bs PROVE bs[i] \in Mailbox /\ bs[i].parent < i
    BY DEF WellFormed
  <1>3. \A r \in Mailbox : r.name \in Names /\ r.parent \in Nat
    BY DEF Mailbox
  <1> QED
    BY <1>1, <1>2, <1>3

\* So parents lead up to 0.
LEMMA AccountAscends ==
    ASSUME NEW bs, WellFormed(bs)
    PROVE  Ascends(DOMAIN bs, [i \in DOMAIN bs |-> bs[i].parent], 0,
                   [i \in DOMAIN bs |-> i], Len(bs))
  <1>1. /\ DOMAIN bs = 1 .. Len(bs) /\ Len(bs) \in Nat
        /\ \A i \in DOMAIN bs : bs[i].parent \in Nat /\ bs[i].parent < i
    BY MailboxesTyped
  <1>2. \A i \in DOMAIN bs : bs[i].parent \in DOMAIN bs \cup {0}
    BY <1>1
  <1>3. 0 \notin DOMAIN bs /\ \A i \in DOMAIN bs : i \in 0 .. Len(bs)
    BY <1>1
  <1> QED
    BY <1>1, <1>2, <1>3 DEF Ascends

\* The path of a mailbox is that of its parent and its own name.
LEMMA PathRecurses ==
    ASSUME NEW bs, WellFormed(bs)
    PROVE  /\ DOMAIN PathIn(bs) = DOMAIN bs
           /\ \A i \in DOMAIN bs :
                 PathIn(bs)[i] = (IF bs[i].parent = 0 THEN <<>> ELSE PathIn(bs)[bs[i].parent])
                                 \o Segments[bs[i].name]
  <1> DEFINE up == [i \in DOMAIN bs |-> bs[i].parent]
             g  == [x \in Seq(Names) \X DOMAIN bs |-> x[1] \o Segments[bs[x[2]].name]]
  <1>1. \A i \in DOMAIN bs : Segments[bs[i].name] \in Seq(Names)
    BY MailboxesTyped, NameAssumption
  <1>2. g \in [Seq(Names) \X DOMAIN bs -> Seq(Names)]
    BY <1>1
  <1>3. <<>> \in Seq(Names)
    OBVIOUS
  <1>4. PICK f \in [DOMAIN bs -> Seq(Names)] : FollowsUp(f, DOMAIN bs, up, 0, <<>>, g)
    <2>1. Ascends(DOMAIN bs, up, 0, [i \in DOMAIN bs |-> i], Len(bs))
      BY AccountAscends
    <2> HIDE DEF g, up
    <2> QED
      BY <1>2, <1>3, <2>1, Recurse
  <1>5. \A i \in DOMAIN bs :
            /\ (IF bs[i].parent = 0 THEN <<>> ELSE f[bs[i].parent]) \in Seq(Names)
            /\ up[i] = bs[i].parent
    BY <1>3, AccountAscends DEF Ascends
  <1>6. \A i \in DOMAIN bs :
            f[i] = g[<<IF bs[i].parent = 0 THEN <<>> ELSE f[bs[i].parent], i>>]
    <2> HIDE DEF g, up
    <2> QED
      BY <1>4, <1>5 DEF FollowsUp
  <1>7. f = [i \in DOMAIN bs |-> (IF bs[i].parent = 0 THEN <<>> ELSE f[bs[i].parent])
                                 \o Segments[bs[i].name]]
    BY <1>5, <1>6
  <1>8. PathIn(bs) = [i \in DOMAIN bs |->
                        (IF bs[i].parent = 0 THEN <<>> ELSE PathIn(bs)[bs[i].parent])
                        \o Segments[bs[i].name]]
    BY <1>7 DEF PathIn
  <1> QED
    BY <1>8

\* It is a path.
LEMMA PathsTyped ==
    ASSUME NEW bs, WellFormed(bs)
    PROVE  \A i \in DOMAIN bs : PathIn(bs)[i] \in Seq(Names)
  <1> DEFINE T  == {i \in DOMAIN bs : PathIn(bs)[i] \in Seq(Names)}
             up == [i \in DOMAIN bs |-> bs[i].parent]
  <1>1. ASSUME NEW i \in DOMAIN bs, up[i] = 0 \/ up[i] \in T PROVE i \in T
    <2>1. Segments[bs[i].name] \in Seq(Names)
      BY MailboxesTyped, NameAssumption
    <2>2. (IF bs[i].parent = 0 THEN <<>> ELSE PathIn(bs)[bs[i].parent]) \in Seq(Names)
      BY <1>1
    <2>3. \A u, w \in Seq(Names) : u \o w \in Seq(Names)
      OBVIOUS
    <2>4. PathIn(bs)[i] \in Seq(Names)
      BY <2>1, <2>2, <2>3, PathRecurses, Zenon
    <2> QED
      BY <2>4
  <1>2. Ascends(DOMAIN bs, up, 0, [i \in DOMAIN bs |-> i], Len(bs))
    BY AccountAscends
  <1>3. DOMAIN bs \subseteq T
    <2> HIDE DEF T, up
    <2> QED
      BY <1>1, <1>2, Climb
  <1> QED
    BY <1>3

\* A mailbox that is added leaves the paths of the others alone; its own is below
\* that of its parent.
LEMMA PathsKept ==
    ASSUME NEW bs, WellFormed(bs), NEW r \in Mailbox, r.parent \in 0 .. Len(bs)
    PROVE  /\ WellFormed(Append(bs, r))
           /\ \A i \in DOMAIN bs : PathIn(Append(bs, r))[i] = PathIn(bs)[i]
           /\ PathIn(Append(bs, r))[Len(bs) + 1]
                = (IF r.parent = 0 THEN <<>> ELSE PathIn(bs)[r.parent]) \o Segments[r.name]
  <1> DEFINE more == Append(bs, r)
             T    == {i \in DOMAIN bs : PathIn(more)[i] = PathIn(bs)[i]}
             up   == [i \in DOMAIN bs |-> bs[i].parent]
  <1>1. /\ DOMAIN bs = 1 .. Len(bs) /\ Len(bs) \in Nat
        /\ \A i \in DOMAIN bs : bs[i] \in Mailbox /\ bs[i].parent \in Nat /\ bs[i].parent < i
    BY MailboxesTyped
  <1>2. /\ more \in Seq(Mailbox) /\ DOMAIN more = DOMAIN bs \cup {Len(bs) + 1}
        /\ \A i \in DOMAIN bs : more[i] = bs[i]
        /\ more[Len(bs) + 1] = r
    BY <1>1 DEF WellFormed
  <1>3. WellFormed(more)
    <2>1. \A i \in DOMAIN more : more[i].parent < i
      BY <1>1, <1>2
    <2> QED
      BY <1>2, <2>1 DEF WellFormed
  <1> HIDE DEF more
  <1>4. ASSUME NEW i \in DOMAIN bs, up[i] = 0 \/ up[i] \in T PROVE i \in T
    <2>1. /\ PathIn(more)[i] = (IF bs[i].parent = 0 THEN <<>> ELSE PathIn(more)[bs[i].parent])
                               \o Segments[bs[i].name]
          /\ PathIn(bs)[i] = (IF bs[i].parent = 0 THEN <<>> ELSE PathIn(bs)[bs[i].parent])
                             \o Segments[bs[i].name]
      <3>1. i \in DOMAIN more /\ more[i] = bs[i]
        BY <1>2
      <3>2. PathIn(more)[i]
              = (IF more[i].parent = 0 THEN <<>> ELSE PathIn(more)[more[i].parent])
                \o Segments[more[i].name]
        BY <1>3, <3>1, PathRecurses
      <3> QED
        BY <3>1, <3>2, PathRecurses
    <2>2. bs[i].parent # 0 => PathIn(more)[bs[i].parent] = PathIn(bs)[bs[i].parent]
      BY <1>4
    <2>3. PathIn(more)[i] = PathIn(bs)[i]
      BY <2>1, <2>2, Zenon
    <2> QED
      BY <2>3
  <1>5. DOMAIN bs \subseteq T
    <2>1. Ascends(DOMAIN bs, up, 0, [i \in DOMAIN bs |-> i], Len(bs))
      BY AccountAscends
    <2> HIDE DEF T, up
    <2> QED
      BY <1>4, <2>1, Climb
  <1>6. \A i \in DOMAIN bs : PathIn(more)[i] = PathIn(bs)[i]
    BY <1>5
  <1>7. PathIn(more)[Len(bs) + 1]
          = (IF r.parent = 0 THEN <<>> ELSE PathIn(more)[r.parent]) \o Segments[r.name]
    BY <1>2, <1>3, PathRecurses
  <1>8. r.parent # 0 => r.parent \in DOMAIN bs
    BY <1>1
  <1>9. PathIn(more)[Len(bs) + 1]
          = (IF r.parent = 0 THEN <<>> ELSE PathIn(bs)[r.parent]) \o Segments[r.name]
    BY <1>6, <1>7, <1>8, Zenon
  <1> QED
    BY <1>3, <1>6, <1>9 DEF more

-----------------------------------------------------------------------------
(* The plan.                                                                *)

\* A place is a mailbox, the prefix or Unfiled; there are finitely many.
LEMMA PlacesFinite ==
    /\ IsFiniteSet(Place) /\ Cardinality(Place) \in Nat
    /\ \A S : S \subseteq Place => IsFiniteSet(S) /\ Cardinality(S) \in Nat
  <1>1. IsFiniteSet({PrefixPlace} \cup {Unfiled})
    BY FS_Singleton, FS_Union
  <1>2. IsFiniteSet(Place)
    <2>1. Place = Box \cup ({PrefixPlace} \cup {Unfiled})
      BY DEF Place
    <2> QED
      BY <1>1, <2>1, FS_Union, MailboxAssumption
  <1> QED
    BY <1>2, FS_Subset, FS_CardinalityType

\* A message has a place to go, which the plan includes.
LEMMA MessagesHavePlaces ==
    ASSUME NEW m \in Msg
    PROVE  /\ Resolved(m) \subseteq Box \cup {Unfiled} /\ Resolved(m) # {}
           /\ FiledUnder[m] \cap Box # {} => Resolved(m) = FiledUnder[m] \cap Box
           /\ FiledUnder[m] \cap Box = {} => \E p : Resolved(m) = {p}
  <1>1. DirectoryOf[m] # None => DirectoryOf[m] \in Box
    BY MessageAssumption
  <1>2. CASE FiledUnder[m] \cap Box # {}
    BY <1>2 DEF Resolved
  <1>3. CASE FiledUnder[m] \cap Box = {} /\ DirectoryOf[m] # None
    BY <1>1, <1>3 DEF Resolved
  <1>4. CASE FiledUnder[m] \cap Box = {} /\ DirectoryOf[m] = None
    BY <1>4 DEF Resolved
  <1> QED
    BY <1>2, <1>3, <1>4

\* The plan has the places of the messages, the mailboxes above them, and the
\* prefix if there is one.
LEMMA PlanCloses ==
    /\ Places \subseteq Place
    /\ \A m \in Selected : Resolved(m) \subseteq Places
    /\ PrefixPlace \in Places <=> prefix # None
    /\ \A p \in Places \cap Box : Parent[p] # None => Parent[p] \in Places \cap Box
  <1>0. \A p : p \in Places <=>
                  \/ p = PrefixPlace /\ prefix # None
                  \/ \E b \in Needed \cap Box : p \in Chain[b]
                  \/ p = Unfiled /\ p \in Needed
    BY DEF Places
  <1>1. Selected \subseteq Msg
    BY DEF Selected, Archived
  <1>2. Needed \subseteq Box \cup {Unfiled}
    BY <1>1, MessagesHavePlaces DEF Needed
  <1>3. \A b \in Needed \cap Box : Chain[b] \subseteq Box /\ Chain[b] \subseteq Places /\ b \in Chain[b]
    BY <1>0, Chains
  <1>4. Places \subseteq Place
    BY <1>0, <1>3 DEF Place
  <1>5. \A m \in Selected : Resolved(m) \subseteq Places
    <2>1. \A m \in Selected : Resolved(m) \subseteq Needed
      BY DEF Needed
    <2>2. Needed \subseteq Places
      BY <1>0, <1>2, <1>3
    <2> QED
      BY <2>1, <2>2
  <1>6. PrefixPlace \in Places <=> prefix # None
    BY <1>0, <1>3, Distinct
  <1>7. ASSUME NEW p \in Places \cap Box, Parent[p] # None PROVE Parent[p] \in Places \cap Box
    <2>1. PICK b \in Needed \cap Box : p \in Chain[b]
      BY <1>0, Distinct
    <2>2. Parent[p] \in Chain[b]
      BY <1>7, <2>1, Chains
    <2> QED
      BY <1>3, <2>1, <2>2
  <1> QED
    BY <1>4, <1>5, <1>6, <1>7

\* Nothing a run reads of the archive, the plan or the settings changes.
LEMMA GivenStays ==
    ASSUME UNCHANGED given
    PROVE  /\ prefix' = prefix /\ content' = content
           /\ Selected' = Selected /\ Places' = Places
           /\ \A p : Key(p)' = Key(p) /\ TruePath(p)' = TruePath(p)
           /\ \A m : Readable(m)' = Readable(m)
  <1>1. prefix' = prefix /\ content' = content
    BY DEF given
  <1>2. Selected' = Selected
    BY <1>1 DEF Selected, Archived
  <1> QED
    BY <1>1, <1>2 DEF Places, Needed, Key, TruePath, Under, Readable

\* The order of places, as ranks.
LEMMA Ranks ==
    /\ Rank(PrefixPlace) = 0
    /\ Rank(Unfiled) = Cardinality(Box) + 1
    /\ \A b \in Box : /\ Rank(b) \in 1 .. Cardinality(Box)
                      /\ Parent[b] # None => Rank(Parent[b]) < Rank(b)
    /\ Cardinality(Box) \in Nat
  <1>1. \A b \in Box : Rank(b) = Cardinality(Chain[b])
    BY Distinct DEF Rank
  <1>2. Rank(PrefixPlace) = 0 /\ Rank(Unfiled) = Cardinality(Box) + 1
    BY Distinct DEF Rank
  <1>3. ASSUME NEW b \in Box, Parent[b] # None PROVE Rank(Parent[b]) < Rank(b)
    <2>1. Parent[b] \in Box
      BY <1>3, MailboxAssumption
    <2> QED
      BY <1>1, <1>3, <2>1, Chains
  <1>4. Cardinality(Box) \in Nat
    BY FS_CardinalityType, MailboxAssumption
  <1> QED
    BY <1>1, <1>2, <1>3, <1>4, Chains

\* When it is the turn of a place, that of its parent and of the prefix is
\* over; Unfiled is the last.
LEMMA TurnOf ==
    ASSUME NEW p, Turn(p), places \subseteq Place
    PROVE  /\ p \in places
           /\ p \in Box /\ Parent[p] # None => Parent[p] \notin places
           /\ p # PrefixPlace => PrefixPlace \notin places
           /\ p = Unfiled => places = {Unfiled}
  <1>1. p \in places /\ p \in Place /\ \A q \in places : Rank(p) <= Rank(q)
    BY DEF Turn
  <1>2. ASSUME p \in Box, Parent[p] # None PROVE Parent[p] \notin places
    <2>1. Parent[p] \in Box
      BY <1>2, MailboxAssumption
    <2>2. Rank(Parent[p]) < Rank(p) /\ Rank(p) \in Nat /\ Rank(Parent[p]) \in Nat
      BY <1>2, <2>1, Ranks
    <2> QED
      BY <1>1, <2>2
  <1>3. ASSUME p # PrefixPlace PROVE PrefixPlace \notin places
    <2>1. Rank(p) \in Nat /\ Rank(p) > 0 /\ Rank(PrefixPlace) = 0
      BY <1>1, <1>3, Ranks DEF Place
    <2> QED
      BY <1>1, <2>1
  <1>4. ASSUME p = Unfiled PROVE places = {Unfiled}
    <2>1. ASSUME NEW q \in places, q # Unfiled PROVE FALSE
      <3>1. Rank(q) \in Nat /\ Rank(q) <= Cardinality(Box)
        BY <2>1, Ranks DEF Place
      <3>2. Rank(p) = Cardinality(Box) + 1 /\ Rank(p) <= Rank(q)
        BY <1>1, <1>4, Ranks
      <3> QED
        BY <3>1, <3>2, Ranks
    <2> QED
      BY <1>1, <1>4, <2>1
  <1> QED
    BY <1>1, <1>2, <1>3, <1>4

-----------------------------------------------------------------------------
(* Types, and what the variables of a run say of one another.               *)

\* Outside of a run nothing is known or to be done.
ControlInv ==
    /\ pc \in {"idle", "list"} => /\ DOMAIN byPath = {} /\ places = {} /\ todo = {}
                                  /\ \A p \in Place : mapping[p] = 0
    /\ pc = "list" => summary = NoSummary
    /\ pc = "mailboxes" => todo = Selected
    /\ pc = "import" => places = {}
    /\ pc # "idle" <=> outcome = "running"

\* The places that are mapped are those that have been ensured; an id is one of
\* the account's or one a dry run made up.
IdsInv ==
    /\ summary.created + Cardinality(places) <= Cardinality(Place)
    /\ \A p \in Place :
          /\ mapping[p] \in (IF dry THEN -summary.created ELSE 0) .. Len(boxes)
          /\ mapping[p] # 0 => p \in Places \ places
          /\ pc \in {"mailboxes", "import"} /\ p \in Places \ places => mapping[p] # 0

MailRecord == [msg : Msg, in : SUBSET Nat]

Types == /\ TypeOK /\ WellFormed(boxes) /\ mail \in Seq(MailRecord)
         /\ ControlInv /\ IdsInv

\* What the steps use of it.
LEMMA TypeFacts ==
    ASSUME Types
    PROVE  /\ WellFormed(boxes) /\ mail \in Seq(MailRecord)
           /\ Len(boxes) \in Nat /\ DOMAIN boxes = 1 .. Len(boxes)
           /\ \A i \in DOMAIN mail : mail[i].msg \in Msg /\ mail[i].in \subseteq DOMAIN boxes
           /\ prefix \in Prefixes /\ content \in Contents
           /\ pc \in {"idle", "list", "mailboxes", "import"}
           /\ dry \in BOOLEAN /\ disturbed \in BOOLEAN /\ cancel \in BOOLEAN
           /\ mapping \in [Place -> Int]
           /\ places \subseteq Places /\ places \subseteq Place /\ todo \subseteq Selected
           /\ summary \in [DOMAIN NoSummary -> Nat] /\ summary.created \in Nat
           /\ outcome \in {"none", "running", "complete", "interrupted", "failed"}
           /\ runs \in 0 .. MaxRuns /\ faults \in 0 .. MaxFaults /\ owner \in 0 .. MaxOwner
           /\ Cardinality(places) \in Nat /\ IsFiniteSet(places)
  <1>1. /\ WellFormed(boxes) /\ mail \in Seq(MailRecord)
        /\ Len(boxes) \in Nat /\ DOMAIN boxes = 1 .. Len(boxes)
    BY MailboxesTyped DEF Types
  <1>2. /\ \A i \in DOMAIN mail : mail[i].msg \in Msg /\ mail[i].in \subseteq DOMAIN boxes
        /\ prefix \in Prefixes /\ content \in Contents
        /\ pc \in {"idle", "list", "mailboxes", "import"}
        /\ places \subseteq Places /\ todo \subseteq Selected
        /\ summary \in [DOMAIN NoSummary -> Nat]
        /\ outcome \in {"none", "running", "complete", "interrupted", "failed"}
        /\ runs \in 0 .. MaxRuns /\ faults \in 0 .. MaxFaults /\ owner \in 0 .. MaxOwner
    BY DEF Types, TypeOK
  <1>3. mapping \in [Place -> Int]
    <2>1. mapping \in [Place -> -Cardinality(Place) .. Len(boxes)]
      BY DEF Types, TypeOK
    <2> QED
      BY <1>1, <2>1, PlacesFinite
  <1>4. dry \in BOOLEAN /\ disturbed \in BOOLEAN /\ cancel \in BOOLEAN
    BY Zenon DEF Types, TypeOK
  <1>5. summary.created \in Nat
    BY <1>2 DEF NoSummary
  <1>6. places \subseteq Place
    BY <1>2, PlanCloses
  <1>7. Cardinality(places) \in Nat /\ IsFiniteSet(places)
    BY <1>6, PlacesFinite
  <1> QED
    BY <1>1, <1>2, <1>3, <1>4, <1>5, <1>6, <1>7

\* A run that ends leaves everything well typed.
LEMMA EndRunTypes ==
    ASSUME Types, NEW how \in {"complete", "interrupted", "failed"}, EndRun(how),
           WellFormed(boxes'), DOMAIN boxes \subseteq DOMAIN boxes', summary' = summary,
           disturbed' \in BOOLEAN, faults' \in 0 .. MaxFaults
    PROVE  Types'
  <1>1. /\ pc' = "idle" /\ outcome' = how /\ todo' = {} /\ places' = {} /\ byPath' = <<>>
        /\ mapping' = [p \in Place |-> 0]
        /\ mail' = mail /\ prefix' = prefix /\ content' = content /\ dry' = dry
        /\ runs' = runs /\ owner' = owner /\ cancel' = cancel
    BY DEF EndRun, given
  <1>2. /\ Len(boxes') \in Nat /\ DOMAIN boxes' = 1 .. Len(boxes')
        /\ \A i \in DOMAIN boxes' : /\ boxes'[i].name \in Names
                                    /\ boxes'[i].parent \in 0 .. i - 1
    BY MailboxesTyped
  <1>3. DOMAIN byPath' = {}
    BY <1>1
  <1>4. mapping' \in [Place -> -Cardinality(Place) .. Len(boxes')]
    BY <1>1, <1>2, PlacesFinite
  <1>5. {disturbed, cancel}' \subseteq BOOLEAN
    BY <1>1, TypeFacts, Zenon
  <1>6. TypeOK'
    BY <1>1, <1>2, <1>3, <1>4, <1>5, TypeFacts DEF TypeOK
  <1>7. ControlInv'
    BY <1>1, <1>3 DEF ControlInv
  <1>8. IdsInv'
    <2>1. /\ Cardinality(places) \in Nat /\ summary.created \in Nat
          /\ summary.created + Cardinality(places) <= Cardinality(Place)
          /\ Cardinality(places') = 0 /\ Cardinality(Place) \in Nat
      BY <1>1, TypeFacts, PlacesFinite, FS_EmptySet DEF Types, IdsInv
    <2>2. summary'.created + Cardinality(places') <= Cardinality(Place)
      BY <2>1
    <2> QED
      BY <1>1, <1>2, <2>1, <2>2 DEF IdsInv
  <1> QED
    BY <1>1, <1>6, <1>7, <1>8, TypeFacts DEF Types

\* The initial state of an account that may be restored into.
LEMMA InitTypes == Init => Types
  <1> SUFFICES ASSUME Init PROVE Types
    OBVIOUS
  <1>1. PICK a \in Accounts : boxes = a.boxes /\ mail = a.mail
    BY DEF Init
  <1>2. WellFormed(boxes)
    BY <1>1, AccountAssumption DEF WellFormed, Mailbox
  <1> DEFINE Elsewhere == [msg : Msg, in : {{}}]
  <1>3. mail \in Seq(Elsewhere)
    BY <1>1, AccountAssumption
  <1>4. /\ mail \in Seq(MailRecord)
        /\ \A i \in DOMAIN mail : mail[i].msg \in Msg /\ mail[i].in = {}
    <2>1. \A r \in Elsewhere : r \in MailRecord /\ r.msg \in Msg /\ r.in = {}
      BY DEF MailRecord
    <2> HIDE DEF Elsewhere
    <2> QED
      BY <1>3, <2>1
  <1>5. /\ Len(boxes) \in Nat
        /\ \A i \in DOMAIN boxes : boxes[i].name \in Names /\ boxes[i].parent \in 0 .. i - 1
    BY <1>2, MailboxesTyped
  <1>6. /\ prefix \in Prefixes /\ content \in Contents /\ pc = "idle" /\ dry = FALSE
        /\ outcome = "none" /\ byPath = <<>> /\ mapping = [p \in Place |-> 0]
        /\ places = {} /\ todo = {} /\ summary = NoSummary
        /\ disturbed = FALSE /\ cancel = FALSE
        /\ runs = 0 /\ faults = 0 /\ owner = 0
    BY DEF Init
  <1>7. DOMAIN byPath = {} /\ summary \in [DOMAIN NoSummary -> Nat]
    BY <1>6 DEF NoSummary
  <1>8. mapping \in [Place -> -Cardinality(Place) .. Len(boxes)]
    BY <1>5, <1>6, PlacesFinite
  <1>9. runs \in 0 .. MaxRuns /\ faults \in 0 .. MaxFaults /\ owner \in 0 .. MaxOwner
    BY <1>6, RestoreBounds
  <1>10. {disturbed, cancel} \subseteq BOOLEAN
    BY <1>6
  <1>11. TypeOK
    <2>1. /\ pc \in {"idle", "list", "mailboxes", "import"} /\ dry \in BOOLEAN
          /\ outcome \in {"none", "running", "complete", "interrupted", "failed"}
          /\ places \subseteq Places /\ todo \subseteq Selected
          /\ \A k \in DOMAIN byPath :
                byPath[k] \in DOMAIN boxes \cup (IF dry THEN -summary.created .. -1 ELSE {})
          /\ \A i \in DOMAIN mail : mail[i].msg \in Msg /\ mail[i].in \subseteq DOMAIN boxes
      BY <1>4, <1>6, <1>7
    <2> QED
      BY <1>5, <1>6, <1>7, <1>8, <1>9, <1>10, <2>1 DEF TypeOK
  <1>12. ControlInv
    BY <1>6, <1>7 DEF ControlInv
  <1>13. IdsInv
    BY <1>5, <1>6, PlacesFinite, FS_EmptySet DEF IdsInv, NoSummary
  <1> QED
    BY <1>2, <1>4, <1>11, <1>12, <1>13 DEF Types

\* What a step leaves alone keeps its type: the rest of it is what is to show.
LEMMA RestOfTypes ==
    ASSUME Types, UNCHANGED given, WellFormed(boxes'), DOMAIN boxes \subseteq DOMAIN boxes',
           mail' \in Seq(MailRecord),
           \A i \in DOMAIN mail' : mail'[i].msg \in Msg /\ mail'[i].in \subseteq DOMAIN boxes',
           pc' \in {"idle", "list", "mailboxes", "import"},
           dry' \in BOOLEAN, disturbed' \in BOOLEAN, cancel' \in BOOLEAN,
           \A k \in DOMAIN byPath' : byPath'[k] \in
               DOMAIN boxes' \cup (IF dry' THEN -summary'.created .. -1 ELSE {}),
           mapping' \in [Place -> Int],
           places' \subseteq Places, todo' \subseteq Selected,
           summary' \in [DOMAIN NoSummary -> Nat],
           outcome' \in {"none", "running", "complete", "interrupted", "failed"},
           runs' \in 0 .. MaxRuns, faults' \in 0 .. MaxFaults, owner' \in 0 .. MaxOwner,
           ControlInv', IdsInv'
    PROVE  Types'
  <1>1. /\ prefix' = prefix /\ content' = content /\ Selected' = Selected /\ Places' = Places
    BY GivenStays
  <1>2. /\ Len(boxes') \in Nat
        /\ \A i \in DOMAIN boxes' : boxes'[i].name \in Names /\ boxes'[i].parent \in 0 .. i - 1
    BY MailboxesTyped
  <1>3. summary'.created \in Nat /\ summary'.created <= Cardinality(Place)
    <2>1. summary'.created \in Nat /\ places' \subseteq Place
      BY PlanCloses DEF NoSummary
    <2>2. /\ Cardinality(places') \in Nat /\ Cardinality(Place) \in Nat
          /\ summary'.created + Cardinality(places') <= Cardinality(Place)
      BY <2>1, PlacesFinite DEF IdsInv
    <2> QED
      BY <2>1, <2>2
  <1>4. mapping' \in [Place -> -Cardinality(Place) .. Len(boxes')]
    <2>1. \A p \in Place : mapping'[p] \in (IF dry' THEN -summary'.created ELSE 0) .. Len(boxes')
      BY DEF IdsInv
    <2>2. \A p \in Place : mapping'[p] \in -Cardinality(Place) .. Len(boxes')
      BY <1>2, <1>3, <2>1, PlacesFinite
    <2> QED
      BY <2>2
  <1>5. {disturbed, cancel}' \subseteq BOOLEAN
    BY Zenon
  <1>6. TypeOK'
    BY <1>1, <1>2, <1>4, <1>5, TypeFacts DEF TypeOK
  <1> QED
    BY <1>6 DEF Types

-----------------------------------------------------------------------------
(* Every step keeps the types.                                              *)

\* The account with one mailbox more.
LEMMA Grown ==
    ASSUME WellFormed(boxes), NEW r \in Mailbox, r.parent \in 0 .. Len(boxes),
           boxes' = Append(boxes, r)
    PROVE  /\ WellFormed(boxes') /\ DOMAIN boxes \subseteq DOMAIN boxes'
           /\ Len(boxes') = Len(boxes) + 1 /\ Len(boxes) \in Nat
           /\ DOMAIN boxes = 1 .. Len(boxes) /\ DOMAIN boxes' = 1 .. Len(boxes')
           /\ \A i \in DOMAIN boxes : boxes'[i] = boxes[i]
           /\ boxes'[Len(boxes) + 1] = r
  <1>1. boxes \in Seq(Mailbox) /\ DOMAIN boxes = 1 .. Len(boxes) /\ Len(boxes) \in Nat
    BY MailboxesTyped DEF WellFormed
  <1>2. WellFormed(boxes')
    BY PathsKept
  <1> QED
    BY <1>1, <1>2

\* A mailbox is asked for under one that is there, or under none.
LEMMA RequestTypes ==
    ASSUME Types, NEW p, Turn(p), ~dry
    PROVE  Request(p) \in Mailbox /\ Request(p).parent \in 0 .. Len(boxes)
  <1>1. p \in places /\ p \in Places /\ p \in Place
    BY TypeFacts, TurnOf
  <1>2. \A q \in Place : mapping[q] \in 0 .. Len(boxes)
    BY DEF Types, IdsInv
  <1>3. Len(boxes) \in Nat
    BY TypeFacts
  <1>4. PrefixPlace \in Place
    BY DEF Place
  <1>5. CASE p = PrefixPlace
    <2>1. prefix \in Names
      BY <1>1, <1>5, TypeFacts, PlanCloses, NameAssumption
    <2>2. Request(p) = [name |-> prefix, parent |-> 0, role |-> None]
      BY <1>5, Distinct DEF Request
    <2> QED
      BY <1>3, <2>1, <2>2 DEF Mailbox
  <1>6. CASE p = Unfiled
    <2>1. Request(p) = [name |-> "Unfiled", parent |-> mapping[PrefixPlace], role |-> None]
      BY <1>6, Distinct DEF Request
    <2>2. mapping[PrefixPlace] \in Nat /\ "Unfiled" \in Names
      BY <1>2, <1>3, <1>4, NameAssumption
    <2> QED
      BY <1>2, <1>4, <2>1, <2>2 DEF Mailbox
  <1>7. CASE p \in Box
    <2> DEFINE up == IF Parent[p] # None THEN Parent[p] ELSE PrefixPlace
               r  == IF prefix = None /\ Role[p] \notin taken THEN Role[p] ELSE None
    <2>1. p # PrefixPlace /\ p # Unfiled
      BY <1>7, Distinct
    <2>2. Request(p) = [name |-> Name[p], parent |-> mapping[up], role |-> r]
      BY <1>7, <2>1 DEF Request
    <2>3. up \in Place
      BY <1>4, <1>7, MailboxAssumption DEF Place
    <2>4. Name[p] \in Names /\ r \in STRING \cup {None}
      BY <1>7, MailboxAssumption
    <2>5. mapping[up] \in 0 .. Len(boxes) /\ mapping[up] \in Nat
      BY <1>2, <1>3, <2>3
    <2> HIDE DEF up, r
    <2> QED
      BY <2>2, <2>4, <2>5 DEF Mailbox
  <1> QED
    BY <1>1, <1>5, <1>6, <1>7 DEF Place

\* The owner makes a mailbox.
LEMMA OwnerCreatesTypes ==
    ASSUME Types, NEW n \in OwnerNames, OwnerCreates(n) PROVE Types'
  <1> DEFINE r == [name |-> n, parent |-> 0, role |-> None]
  <1>1. /\ boxes' = Append(boxes, r) /\ owner < MaxOwner /\ owner' = owner + 1
        /\ disturbed' = TRUE /\ UNCHANGED <<mail, given, pc, dry, plan, todo, summary, outcome>>
        /\ UNCHANGED <<cancel, runs, faults>>
    BY DEF OwnerCreates
  <1>2. UNCHANGED <<byPath, taken, mapping, places>>
    BY <1>1 DEF plan
  <1>3. r \in Mailbox /\ r.parent \in 0 .. Len(boxes)
    BY TypeFacts, NameAssumption DEF Mailbox
  <1>4. /\ WellFormed(boxes') /\ DOMAIN boxes \subseteq DOMAIN boxes'
        /\ Len(boxes') = Len(boxes) + 1 /\ Len(boxes) \in Nat
    <2> HIDE DEF r
    <2> QED
      BY <1>1, <1>3, TypeFacts, Grown
  <1>5. ControlInv'
    BY <1>1, <1>2, GivenStays DEF Types, ControlInv
  <1>6. IdsInv'
    <2>1. Places' = Places
      BY <1>1, GivenStays
    <2>2. summary.created \in Nat /\ \A p \in Place :
              mapping'[p] \in (IF dry' THEN -summary'.created ELSE 0) .. Len(boxes')
      BY <1>1, <1>2, <1>4, TypeFacts DEF Types, IdsInv
    <2> QED
      BY <1>1, <1>2, <2>1, <2>2 DEF Types, IdsInv
  <1>7. \A k \in DOMAIN byPath' : byPath'[k] \in
            DOMAIN boxes' \cup (IF dry' THEN -summary'.created .. -1 ELSE {})
    BY <1>1, <1>2, <1>4 DEF Types, TypeOK
  <1>8. owner' \in 0 .. MaxOwner
    BY <1>1, TypeFacts, RestoreBounds
  <1> QED
    BY <1>1, <1>2, <1>4, <1>5, <1>6, <1>7, <1>8, TypeFacts, RestOfTypes

\* A run begins.
LEMMA BeginTypes == ASSUME Types, NEW isDry \in BOOLEAN, Begin(isDry) PROVE Types'
  <1>1. /\ pc = "idle" /\ runs < MaxRuns /\ runs' = runs + 1 /\ dry' = isDry /\ pc' = "list"
        /\ summary' = NoSummary /\ disturbed' = FALSE /\ cancel' = FALSE /\ outcome' = "running"
        /\ UNCHANGED <<target, plan, todo, foretold, faults, owner>>
    BY DEF Begin
  <1>2. UNCHANGED <<boxes, mail, given, byPath, taken, mapping, places>>
    BY <1>1 DEF target, plan
  <1>3. /\ DOMAIN byPath = {} /\ places = {} /\ todo = {} /\ \A p \in Place : mapping[p] = 0
    BY <1>1 DEF Types, ControlInv
  <1>4. ControlInv'
    BY <1>1, <1>2, <1>3 DEF ControlInv
  <1>5. summary'.created = 0 /\ summary' \in [DOMAIN NoSummary -> Nat]
    BY <1>1 DEF NoSummary
  <1>6. IdsInv'
    <2>1. Cardinality(places') = 0 /\ Cardinality(Place) \in Nat /\ Len(boxes) \in Nat
      BY <1>2, <1>3, PlacesFinite, FS_EmptySet, TypeFacts
    <2>2. summary'.created + Cardinality(places') <= Cardinality(Place)
      BY <1>5, <2>1
    <2>3. \A p \in Place : mapping'[p] = 0 /\ 0 \in (IF dry' THEN -summary'.created ELSE 0) .. Len(boxes')
      BY <1>2, <1>3, <1>5, <2>1
    <2> QED
      BY <1>1, <2>2, <2>3 DEF IdsInv
  <1>7. runs' \in 0 .. MaxRuns
    BY <1>1, TypeFacts, RestoreBounds
  <1> QED
    BY <1>1, <1>2, <1>3, <1>4, <1>5, <1>6, <1>7, TypeFacts, RestOfTypes

\* The mailboxes are listed and the plan is made.
LEMMA ListMailboxesTypes == ASSUME Types, ListMailboxes PROVE Types'
  <1> DEFINE path  == PathIn(boxes)
             at(k) == {i \in DOMAIN boxes : Lowered(path[i]) = k}
             paths == {Lowered(path[i]) : i \in DOMAIN boxes}
  <1>1. /\ pc = "list" /\ pc' = "mailboxes"
        /\ mapping' = [p \in Place |-> 0] /\ places' = Places /\ todo' = Selected
        /\ UNCHANGED <<target, dry, summary, outcome, disturbed, foretold, bounds>>
        /\ \E hidden : /\ \A k \in paths : Cardinality(at(k) \ hidden) = 1
                       /\ byPath' = [k \in paths |-> CHOOSE i \in at(k) \ hidden : TRUE]
    BY DEF ListMailboxes
  <1>2. UNCHANGED <<boxes, mail, given, cancel, runs, faults, owner>>
    BY <1>1 DEF target, bounds
  <1>3. \A k \in DOMAIN byPath' : byPath'[k] \in DOMAIN boxes
    <2>1. PICK hidden : /\ \A k \in paths : Cardinality(at(k) \ hidden) = 1
                        /\ byPath' = [k \in paths |-> CHOOSE i \in at(k) \ hidden : TRUE]
      BY <1>1
    <2>2. \A k \in paths : at(k) \ hidden # {}
      <3> HIDE DEF at, paths
      <3> QED
        BY <2>1, FS_EmptySet
    <2>3. \A k \in paths : (CHOOSE i \in at(k) \ hidden : TRUE) \in at(k)
      <3> HIDE DEF at, paths
      <3> QED
        BY <2>2
    <2> QED
      BY <2>1, <2>3
  <1>4. Places' = Places /\ Selected' = Selected
    BY <1>2, GivenStays
  <1>5. summary = NoSummary /\ summary.created = 0 /\ outcome = "running"
    BY <1>1 DEF Types, ControlInv, NoSummary
  <1>6. ControlInv'
    BY <1>1, <1>4, <1>5 DEF ControlInv
  <1>7. IdsInv'
    <2>1. Cardinality(Places) \in Nat /\ Cardinality(Places) <= Cardinality(Place)
      BY PlanCloses, PlacesFinite, FS_Subset
    <2>2. summary'.created + Cardinality(places') <= Cardinality(Place)
      BY <1>1, <1>5, <2>1
    <2>3. \A p \in Place : mapping'[p] = 0 /\ 0 \in (IF dry' THEN -summary'.created ELSE 0) .. Len(boxes')
      BY <1>1, <1>2, <1>5, TypeFacts
    <2> QED
      BY <1>1, <1>4, <2>2, <2>3 DEF IdsInv
  <1>8. mapping' \in [Place -> Int]
    BY <1>1
  <1> QED
    BY <1>1, <1>2, <1>3, <1>6, <1>7, <1>8, TypeFacts, RestOfTypes

\* A place is ensured by an id that a run may use.
LEMMA EnsuredTypes ==
    ASSUME Types, NEW p, Turn(p), pc = "mailboxes", NEW id, Ensured(p, id), id # 0,
           WellFormed(boxes'), DOMAIN boxes \subseteq DOMAIN boxes',
           id \in (IF dry THEN -summary'.created ELSE 0) .. Len(boxes'),
           summary' = summary \/ summary' = [summary EXCEPT !.created = @ + 1],
           \A k \in DOMAIN byPath' : byPath'[k] \in
               DOMAIN boxes' \cup (IF dry THEN -summary'.created .. -1 ELSE {})
    PROVE  Types'
  <1>1. /\ mapping' = [mapping EXCEPT ![p] = id] /\ places' = places \ {p}
        /\ UNCHANGED <<mail, given, pc, dry, taken, todo, outcome, disturbed, foretold>>
        /\ UNCHANGED <<cancel, runs, faults, owner>>
    BY DEF Ensured, bounds
  <1>2. /\ p \in places /\ p \in Place /\ p \in Places
        /\ Len(boxes') \in Nat /\ Len(boxes) \in Nat /\ Len(boxes) <= Len(boxes')
    <2>1. /\ Len(boxes') \in Nat /\ DOMAIN boxes' = 1 .. Len(boxes')
          /\ Len(boxes) \in Nat /\ DOMAIN boxes = 1 .. Len(boxes)
      BY MailboxesTyped, TypeFacts
    <2>2. Len(boxes) <= Len(boxes')
      BY <2>1
    <2> QED
      BY <2>1, <2>2, TypeFacts, TurnOf
  <1>3. /\ summary' \in [DOMAIN NoSummary -> Nat] /\ summary'.created \in Nat
        /\ summary.created \in Nat /\ summary.created <= summary'.created
        /\ summary'.created <= summary.created + 1
    <2>1. summary \in [{"created", "imported", "skipped", "failed"} -> Nat]
      BY TypeFacts DEF NoSummary
    <2> QED
      BY <2>1 DEF NoSummary
  <1>4. Places' = Places /\ Selected' = Selected
    BY <1>1, GivenStays
  <1>5. ControlInv'
    BY <1>1, <1>4 DEF Types, ControlInv
  <1>6. IdsInv'
    <2>1. Cardinality(places') = Cardinality(places) - 1
      BY <1>1, <1>2, TypeFacts, FS_RemoveElement
    <2>2. summary.created + Cardinality(places) <= Cardinality(Place)
      BY DEF Types, IdsInv
    <2>3. summary'.created + Cardinality(places') <= Cardinality(Place)
      BY <1>3, <2>1, <2>2, TypeFacts, PlacesFinite
    <2>4. ASSUME NEW q \in Place
          PROVE  /\ mapping'[q] \in (IF dry THEN -summary'.created ELSE 0) .. Len(boxes')
                 /\ mapping'[q] # 0 => q \in Places \ places'
                 /\ q \in Places \ places' => mapping'[q] # 0
      <3>1. /\ mapping[q] \in (IF dry THEN -summary.created ELSE 0) .. Len(boxes)
            /\ mapping[q] # 0 => q \in Places \ places
            /\ q \in Places \ places => mapping[q] # 0
        BY DEF Types, IdsInv
      <3>2. CASE q = p
        <4>1. mapping'[q] = id
          BY <1>1, <3>2, TypeFacts
        <4> QED
          BY <1>1, <1>2, <3>2, <4>1
      <3>3. CASE q # p
        <4>1. mapping'[q] = mapping[q]
          BY <1>1, <3>3, TypeFacts
        <4>2. mapping[q] \in (IF dry THEN -summary'.created ELSE 0) .. Len(boxes')
          BY <1>2, <1>3, <3>1
        <4> QED
          BY <1>1, <3>1, <3>3, <4>1, <4>2
      <3> QED
        BY <3>2, <3>3
    <2> QED
      BY <1>1, <1>4, <2>3, <2>4 DEF IdsInv
  <1>7. mapping' \in [Place -> Int]
    <2>1. id \in Int
      BY <1>2, <1>3
    <2> QED
      BY <1>1, <2>1, TypeFacts
  <1>8. \A i \in DOMAIN mail' : mail'[i].msg \in Msg /\ mail'[i].in \subseteq DOMAIN boxes'
    BY <1>1, TypeFacts
  <1> QED
    BY <1>1, <1>3, <1>5, <1>6, <1>7, <1>8, TypeFacts, RestOfTypes

\* A place that the account has.
LEMMA ReuseTypes == ASSUME Types, NEW p, Reuse(p) PROVE Types'
  <1>1. /\ pc = "mailboxes" /\ Turn(p) /\ Key(p) \in DOMAIN byPath
        /\ Ensured(p, byPath[Key(p)]) /\ UNCHANGED <<boxes, byPath, summary>>
    BY DEF Reuse
  <1>2. \A k \in DOMAIN byPath :
            byPath[k] \in DOMAIN boxes \cup (IF dry THEN -summary.created .. -1 ELSE {})
    BY DEF Types, TypeOK
  <1>3. /\ byPath[Key(p)] # 0
        /\ byPath[Key(p)] \in (IF dry THEN -summary.created ELSE 0) .. Len(boxes)
    BY <1>1, <1>2, TypeFacts
  <1> QED
    BY <1>1, <1>2, <1>3, TypeFacts, EnsuredTypes

\* A place that has to be made.
LEMMA CreateTypes == ASSUME Types, NEW p, Create(p) PROVE Types'
  <1> DEFINE id == IF dry THEN -1 - summary.created ELSE Len(boxes) + 1
  <1>1. /\ pc = "mailboxes" /\ Turn(p)
        /\ boxes' = (IF dry THEN boxes ELSE Append(boxes, Request(p)))
        /\ summary' = [summary EXCEPT !.created = @ + 1]
        /\ byPath' = IF p = Unfiled THEN byPath
                     ELSE [k \in DOMAIN byPath \cup {Key(p)} |->
                             IF k = Key(p) THEN id ELSE byPath[k]]
        /\ Ensured(p, id)
    BY DEF Create
  <1>2. summary.created \in Nat /\ summary'.created = summary.created + 1
    BY <1>1, TypeFacts DEF NoSummary
  <1>3. /\ WellFormed(boxes') /\ DOMAIN boxes \subseteq DOMAIN boxes'
        /\ ~dry => Len(boxes') = Len(boxes) + 1
    <2>1. CASE dry
      BY <1>1, <2>1, TypeFacts
    <2>2. CASE ~dry
      BY <1>1, <2>2, TypeFacts, RequestTypes, Grown
    <2> QED
      BY <2>1, <2>2
  <1>4. /\ Len(boxes) \in Nat /\ Len(boxes') \in Nat /\ DOMAIN boxes' = 1 .. Len(boxes')
    BY <1>3, TypeFacts, MailboxesTyped
  <1>5. /\ id # 0 /\ id \in (IF dry THEN -summary'.created ELSE 0) .. Len(boxes')
        /\ id \in DOMAIN boxes' \cup (IF dry THEN -summary'.created .. -1 ELSE {})
    BY <1>1, <1>2, <1>3, <1>4
  <1>6. ASSUME NEW k \in DOMAIN byPath'
        PROVE  byPath'[k] \in DOMAIN boxes' \cup (IF dry THEN -summary'.created .. -1 ELSE {})
    <2>1. byPath'[k] = id \/ (k \in DOMAIN byPath /\ byPath'[k] = byPath[k])
      <3> HIDE DEF id
      <3>1. CASE p = Unfiled
        BY <1>1, <3>1
      <3>2. CASE p # Unfiled
        <4>1. byPath' = [l \in DOMAIN byPath \cup {Key(p)} |->
                           IF l = Key(p) THEN id ELSE byPath[l]]
          BY <1>1, <3>2
        <4>2. k \in DOMAIN byPath \cup {Key(p)}
          BY <4>1
        <4>3. byPath'[k] = IF k = Key(p) THEN id ELSE byPath[k]
          BY <4>1, <4>2
        <4>4. CASE k = Key(p)
          BY <4>3, <4>4
        <4>5. CASE k # Key(p)
          BY <4>2, <4>3, <4>5
        <4> QED
          BY <4>4, <4>5
      <3> QED
        BY <3>1, <3>2
    <2>2. k \in DOMAIN byPath => byPath[k] \in
              DOMAIN boxes \cup (IF dry THEN -summary.created .. -1 ELSE {})
      BY DEF Types, TypeOK
    <2>3. k \in DOMAIN byPath => byPath[k] \in
              DOMAIN boxes' \cup (IF dry THEN -summary'.created .. -1 ELSE {})
      BY <1>2, <1>3, <2>2
    <2> QED
      BY <1>5, <2>1, <2>3
  <1> HIDE DEF id
  <1> QED
    BY <1>1, <1>3, <1>5, <1>6, EnsuredTypes

\* The places are all there.
LEMMA MailboxesReadyTypes == ASSUME Types, MailboxesReady PROVE Types'
  <1>1. /\ pc = "mailboxes" /\ places = {} /\ pc' = "import"
        /\ UNCHANGED <<target, dry, plan, todo, summary, outcome, disturbed, foretold, bounds>>
    BY DEF MailboxesReady
  <1>2. /\ UNCHANGED <<boxes, mail, given, byPath, taken, mapping, places>>
        /\ UNCHANGED <<cancel, runs, faults, owner>>
    BY <1>1 DEF target, plan, bounds
  <1>3. Places' = Places
    BY <1>2, GivenStays
  <1>4. ControlInv'
    BY <1>1, <1>2 DEF Types, ControlInv
  <1>5. IdsInv'
    BY <1>1, <1>2, <1>3 DEF Types, IdsInv
  <1> QED
    BY <1>1, <1>2, <1>4, <1>5, TypeFacts, RestOfTypes DEF Types, TypeOK

\* A message is done with, whatever became of it, by a run that has its places.
LEMMA MessageTypes ==
    ASSUME Types, pc = "import", todo' \subseteq todo,
           UNCHANGED <<boxes, given, pc, dry, plan, outcome, foretold, cancel, runs, owner>>,
           mail' = mail \/ \E m \in Selected : ~dry /\ mail' = Imported(m),
           summary' \in [DOMAIN NoSummary -> Nat], summary'.created = summary.created,
           disturbed' \in BOOLEAN, faults' \in 0 .. MaxFaults
    PROVE  Types'
  <1>1. UNCHANGED <<byPath, taken, mapping, places>>
    BY DEF plan
  <1>2. Places' = Places /\ places = {}
    BY GivenStays DEF Types, ControlInv
  <1>3. /\ mail' \in Seq(MailRecord)
        /\ \A i \in DOMAIN mail' : mail'[i].msg \in Msg /\ mail'[i].in \subseteq DOMAIN boxes
    <2>1. CASE mail' = mail
      BY <2>1, TypeFacts
    <2>2. CASE \E m \in Selected : ~dry /\ mail' = Imported(m)
      <3>1. PICK m \in Selected : ~dry /\ mail' = Imported(m)
        BY <2>2
      <3> DEFINE x == [msg |-> m, in |-> {mapping[b] : b \in Resolved(m)}]
      <3>2. m \in Msg
        BY DEF Selected, Archived
      <3>3. \A b \in Resolved(m) : b \in Places /\ b \in Place
        BY PlanCloses
      <3>4. \A b \in Resolved(m) : mapping[b] \in 1 .. Len(boxes)
        <4>1. \A b \in Resolved(m) : mapping[b] \in 0 .. Len(boxes) /\ mapping[b] # 0
          BY <1>2, <3>1, <3>3 DEF Types, IdsInv
        <4> QED
          BY <4>1, TypeFacts
      <3>5. {mapping[b] : b \in Resolved(m)} \subseteq DOMAIN boxes
        BY <3>4, TypeFacts
      <3>6. x \in MailRecord /\ x.msg \in Msg /\ x.in \subseteq DOMAIN boxes
        <4>1. DOMAIN boxes \subseteq Nat
          BY TypeFacts
        <4> QED
          BY <3>2, <3>5, <4>1 DEF MailRecord
      <3>7. mail' = Append(mail, x)
        BY <3>1 DEF Imported
      <3> HIDE DEF x
      <3> QED
        BY <3>6, <3>7, TypeFacts
    <2> QED
      BY <2>1, <2>2
  <1>4. ControlInv'
    BY <1>1, <1>2 DEF Types, ControlInv
  <1>5. IdsInv'
    BY <1>1, <1>2 DEF Types, IdsInv
  <1>6. \A k \in DOMAIN byPath' :
            byPath'[k] \in DOMAIN boxes \cup (IF dry THEN -summary'.created .. -1 ELSE {})
    BY <1>1 DEF Types, TypeOK
  <1> QED
    BY <1>1, <1>2, <1>3, <1>4, <1>5, <1>6, TypeFacts, RestOfTypes

\* A message is counted.
LEMMA ConsideredTypes ==
    ASSUME Types, NEW m, NEW c \in {"imported", "skipped", "failed"}, Considered(m, c),
           pc = "import", m \in todo, mail' = mail \/ (~dry /\ mail' = Imported(m)),
           disturbed' \in BOOLEAN, faults' \in 0 .. MaxFaults
    PROVE  Types'
  <1>1. /\ todo' = todo \ {m} /\ summary' = [summary EXCEPT ![c] = @ + 1]
        /\ UNCHANGED <<boxes, given, pc, dry, plan, outcome, foretold, cancel, runs, owner>>
    BY DEF Considered
  <1>2. summary \in [{"created", "imported", "skipped", "failed"} -> Nat]
    BY TypeFacts DEF NoSummary
  <1>3. summary' \in [DOMAIN NoSummary -> Nat] /\ summary'.created = summary.created
    BY <1>1, <1>2 DEF NoSummary
  <1>4. m \in Selected
    BY TypeFacts
  <1> QED
    BY <1>1, <1>3, <1>4, MessageTypes

\* A fault more.
LEMMA FaultTypes ==
    ASSUME Types, faults < MaxFaults PROVE faults + 1 \in 0 .. MaxFaults
  BY TypeFacts, RestoreBounds

\* The steps of the import loop, and the ends of a run.
LEMMA ImportLoopTypes ==
    ASSUME Types, NEW m \in Msg,
           SkipExisting(m) \/ PassOver(m) \/ Import(m) \/ ImportFails(m) \/ ReadFails(m)
    PROVE  Types'
  <1>1. CASE SkipExisting(m)
    <2>1. /\ pc = "import" /\ m \in todo /\ Considered(m, "skipped")
          /\ UNCHANGED <<mail, disturbed, faults>>
      BY <1>1 DEF SkipExisting
    <2>2. /\ mail' = mail /\ disturbed' \in BOOLEAN /\ faults' \in 0 .. MaxFaults
          /\ "skipped" \in {"imported", "skipped", "failed"}
      BY <2>1, TypeFacts
    <2> QED
      BY <2>1, <2>2, ConsideredTypes
  <1>2. CASE PassOver(m)
    <2>1. /\ pc = "import" /\ m \in todo /\ todo' = todo \ {m}
          /\ UNCHANGED <<target, pc, dry, plan, summary, outcome, disturbed, foretold, bounds>>
      BY <1>2 DEF PassOver, Due
    <2>2. UNCHANGED <<boxes, mail, given, cancel, runs, faults, owner>>
      BY <2>1 DEF target, bounds
    <2> QED
      BY <2>1, <2>2, TypeFacts, MessageTypes
  <1>3. CASE Import(m)
    <2>1. /\ pc = "import" /\ m \in todo /\ ~dry /\ mail' = Imported(m)
          /\ Considered(m, "imported") /\ UNCHANGED <<disturbed, faults>>
      BY <1>3 DEF Import, Due
    <2>2. disturbed' \in BOOLEAN /\ faults' \in 0 .. MaxFaults
      BY <2>1, TypeFacts
    <2> QED
      BY <2>1, <2>2, ConsideredTypes
  <1>4. CASE ImportFails(m)
    <2>1. /\ pc = "import" /\ m \in todo /\ ~dry /\ mail' \in {mail, Imported(m)}
          /\ Considered(m, "failed") /\ disturbed' = TRUE
          /\ faults < MaxFaults /\ faults' = faults + 1
      BY <1>4 DEF ImportFails, Due
    <2>2. /\ disturbed' \in BOOLEAN /\ faults' \in 0 .. MaxFaults
          /\ mail' = mail \/ mail' = Imported(m)
          /\ "failed" \in {"imported", "skipped", "failed"}
      BY <2>1, FaultTypes
    <2> QED
      BY <2>1, <2>2, ConsideredTypes
  <1>5. CASE ReadFails(m)
    <2>1. EndRun("failed") /\ UNCHANGED <<boxes, summary, disturbed, faults>>
      BY <1>5 DEF ReadFails
    <2> QED
      BY <2>1, TypeFacts, EndRunTypes
  <1> QED
    BY <1>1, <1>2, <1>3, <1>4, <1>5

\* A run stops, is cancelled, is interrupted or is complete.
LEMMA EndTypes ==
    ASSUME Types, Stop \/ Cancel \/ Interrupted \/ Complete PROVE Types'
  <1>1. CASE Stop
    <2>1. /\ EndRun("failed") /\ UNCHANGED <<boxes, summary>> /\ disturbed' = TRUE
          /\ faults < MaxFaults /\ faults' = faults + 1
      BY <1>1 DEF Stop
    <2> QED
      BY <2>1, TypeFacts, FaultTypes, EndRunTypes
  <1>2. CASE Cancel
    <2>1. /\ cancel' = TRUE /\ faults < MaxFaults /\ faults' = faults + 1
          /\ UNCHANGED <<target, pc, dry, plan, todo, summary, outcome, disturbed, foretold,
                         runs, owner>>
      BY <1>2 DEF Cancel
    <2>2. UNCHANGED <<boxes, mail, given, byPath, taken, mapping, places>>
      BY <2>1 DEF target, plan
    <2>3. Places' = Places /\ Selected' = Selected
      BY <2>2, GivenStays
    <2>4. ControlInv'
      BY <2>1, <2>2, <2>3 DEF Types, ControlInv
    <2>5. IdsInv'
      BY <2>1, <2>2, <2>3 DEF Types, IdsInv
    <2>6. faults' \in 0 .. MaxFaults
      BY <2>1, FaultTypes
    <2> QED
      BY <2>1, <2>2, <2>4, <2>5, <2>6, TypeFacts, RestOfTypes DEF Types, TypeOK
  <1>3. CASE Interrupted
    <2>1. EndRun("interrupted") /\ UNCHANGED <<boxes, summary, disturbed, faults>>
      BY <1>3 DEF Interrupted
    <2> QED
      BY <2>1, TypeFacts, EndRunTypes
  <1>4. CASE Complete
    <2>1. EndRun("complete") /\ UNCHANGED <<boxes, summary, disturbed, faults>>
      BY <1>4 DEF Complete
    <2> QED
      BY <2>1, TypeFacts, EndRunTypes
  <1> QED
    BY <1>1, <1>2, <1>3, <1>4

\* A mailbox is refused, or made and the answer lost.
LEMMA CreateFailsTypes ==
    ASSUME Types, NEW p, CreateRefused(p) \/ CreateAnswerLost(p) PROVE Types'
  <1>1. CASE CreateRefused(p)
    <2>1. EndRun("failed") /\ UNCHANGED <<boxes, summary, disturbed, faults>>
      BY <1>1 DEF CreateRefused
    <2> QED
      BY <2>1, TypeFacts, EndRunTypes
  <1>2. CASE CreateAnswerLost(p)
    <2>1. /\ Turn(p) /\ ~dry /\ boxes' = Append(boxes, Request(p))
          /\ EndRun("failed") /\ disturbed' = TRUE /\ summary' = summary
          /\ faults < MaxFaults /\ faults' = faults + 1
      BY <1>2 DEF CreateAnswerLost
    <2>2. WellFormed(boxes') /\ DOMAIN boxes \subseteq DOMAIN boxes'
      BY <2>1, TypeFacts, RequestTypes, Grown
    <2> QED
      BY <2>1, <2>2, FaultTypes, EndRunTypes
  <1> QED
    BY <1>1, <1>2

\* No step breaks them.
LEMMA TypesStep == Types /\ [Next]_vars => Types'
  <1> SUFFICES ASSUME Types, [Next]_vars PROVE Types'
    OBVIOUS
  <1>1. ASSUME NEW n \in OwnerNames, OwnerCreates(n) PROVE Types'
    BY <1>1, OwnerCreatesTypes
  <1>2. ASSUME NEW isDry \in BOOLEAN, Begin(isDry) PROVE Types'
    BY <1>2, BeginTypes
  <1>3. CASE ListMailboxes
    BY <1>3, ListMailboxesTypes
  <1>4. ASSUME NEW p \in places, Reuse(p) \/ Create(p) \/ CreateRefused(p) \/ CreateAnswerLost(p)
        PROVE  Types'
    BY <1>4, ReuseTypes, CreateTypes, CreateFailsTypes
  <1>5. CASE MailboxesReady
    BY <1>5, MailboxesReadyTypes
  <1>6. ASSUME NEW m \in Msg,
               SkipExisting(m) \/ PassOver(m) \/ Import(m) \/ ImportFails(m) \/ ReadFails(m)
        PROVE  Types'
    BY <1>6, ImportLoopTypes
  <1>7. CASE Stop \/ Cancel \/ Interrupted \/ Complete
    BY <1>7, EndTypes
  <1>8. CASE UNCHANGED vars
    <2>1. /\ UNCHANGED <<boxes, mail, content, prefix, pc, dry, byPath, taken, mapping, places>>
          /\ UNCHANGED <<todo, summary, outcome, disturbed, foretold, cancel, runs, faults, owner>>
      BY <1>8 DEF vars, target, given, plan, bounds
    <2>2. Places' = Places /\ Selected' = Selected
      BY <2>1, GivenStays DEF given
    <2>3. TypeOK'
      BY <2>1, <2>2 DEF Types, TypeOK
    <2>4. ControlInv' /\ IdsInv'
      BY <2>1, <2>2 DEF Types, ControlInv, IdsInv
    <2> QED
      BY <2>1, <2>3, <2>4 DEF Types
  <1> QED
    BY <1>1, <1>2, <1>3, <1>4, <1>5, <1>6, <1>7, <1>8 DEF Next

\* The types are an invariant.
LEMMA TypesAlways == Spec => []Types
  BY InitTypes, TypesStep, PTL DEF Spec

\* Every variable of a restore keeps its type: what was imported is in mailboxes
\* that are there, and no id is taken for another's (run_restore, ensure_mailboxes).
THEOREM RestoreTypes == Spec => []TypeOK
  <1>1. Types => TypeOK
    BY DEF Types
  <1> QED
    BY <1>1, TypesAlways, PTL

-----------------------------------------------------------------------------
(* An id names the mailbox it is taken for.                                 *)

\* What the account shows of a mailbox, up to case.
Shown(i) == Lowered(PathIn(boxes)[i])

\* The property, in those words.
LEMMA FaithfulMeans ==
    MappingFaithful <=>
        (~dry => /\ \A k \in DOMAIN byPath : Shown(byPath[k]) = k
                 /\ \A p \in Place : mapping[p] # 0 => Shown(mapping[p]) = TruePath(p))
  BY DEF MappingFaithful, Shown

\* A path below the prefix.
LEMMA UnderPrefix ==
    ASSUME Types, NEW s \in Seq(Names), NEW t \in Seq(Names)
    PROVE  /\ Under(s) \in Seq(Names) /\ Under(s \o t) = Under(s) \o t
           /\ Under(t) = Under(<<>>) \o t
           /\ Lowered(Under(s \o t)) = Lowered(Under(s)) \o Lowered(t)
  <1>1. prefix # None => Segments[prefix] \in Seq(Names)
    BY TypeFacts, NameAssumption
  <1>2. \A u, v, w \in Seq(Names) : /\ u \o v \in Seq(Names) /\ <<>> \o v = v /\ u \o <<>> = u
                                    /\ u \o (v \o w) = (u \o v) \o w
    OBVIOUS
  <1>0. <<>> \in Seq(Names)
    OBVIOUS
  <1>3. /\ Under(s) \in Seq(Names) /\ Under(s \o t) = Under(s) \o t
        /\ Under(t) = Under(<<>>) \o t
    <2>1. CASE prefix = None
      BY <1>2, <2>1, Zenon DEF Under
    <2>2. CASE prefix # None
      <3>1. /\ Under(s) = Segments[prefix] \o s /\ Under(s \o t) = Segments[prefix] \o (s \o t)
            /\ Under(t) = Segments[prefix] \o t /\ Under(<<>>) = Segments[prefix] \o <<>>
        BY <2>2 DEF Under
      <3>2. Segments[prefix] \in Seq(Names)
        BY <1>1, <2>2
      <3>3. ASSUME NEW u \in Seq(Names)
            PROVE  u \o s \in Seq(Names) /\ u \o (s \o t) = (u \o s) \o t /\ u \o <<>> = u
        OBVIOUS
      <3> QED
        BY <3>1, <3>2, <3>3
    <2> QED
      BY <2>1, <2>2
  <1>4. Lowered(Under(s) \o t) = Lowered(Under(s)) \o Lowered(t)
    BY <1>3, LoweredPaths, Zenon
  <1> QED
    BY <1>3, <1>4

\* The mailbox asked for is the place meant.
LEMMA RequestMeansPlace ==
    ASSUME Types, MappingFaithful, NEW p, Turn(p), ~dry, pc = "mailboxes"
    PROVE  Lowered((IF Request(p).parent = 0 THEN <<>> ELSE PathIn(boxes)[Request(p).parent])
                   \o Segments[Request(p).name]) = TruePath(p)
  <1> DEFINE above(i) == IF i = 0 THEN <<>> ELSE PathIn(boxes)[i]
  <1>1. p \in places /\ p \in Places /\ p \in Place
    BY TypeFacts, TurnOf
  <1>2. \A q \in Place : /\ mapping[q] \in 0 .. Len(boxes)
                         /\ mapping[q] # 0 => Shown(mapping[q]) = TruePath(q)
    BY FaithfulMeans DEF Types, IdsInv
  <1>3. \A q \in Place : above(mapping[q]) \in Seq(Names)
    <2>1. \A i \in DOMAIN boxes : PathIn(boxes)[i] \in Seq(Names)
      BY TypeFacts, PathsTyped
    <2> QED
      BY <1>2, <2>1, TypeFacts
  <1>4. \A q \in Place : mapping[q] # 0 => Lowered(above(mapping[q])) = TruePath(q)
    BY <1>2 DEF Shown
  <1>5. <<>> \in Seq(Names) /\ \A s \in Seq(Names) : <<>> \o s = s /\ s \o <<>> = s
    OBVIOUS
  <1>6. ASSUME p # PrefixPlace
        PROVE  Lowered(above(mapping[PrefixPlace])) = Lowered(Under(<<>>))
    <2>1. PrefixPlace \in Place /\ PrefixPlace \notin places
      BY <1>6, TurnOf, TypeFacts DEF Place
    <2>2. CASE prefix = None
      <3>1. mapping[PrefixPlace] = 0
        BY <2>1, <2>2, PlanCloses DEF Types, IdsInv
      <3> QED
        BY <2>2, <3>1 DEF Under
    <2>3. CASE prefix # None
      <3>1. mapping[PrefixPlace] # 0
        BY <2>1, <2>3, PlanCloses DEF Types, IdsInv
      <3>2. TruePath(PrefixPlace) = Lowered(Segments[prefix])
        BY Distinct DEF TruePath
      <3>3. Under(<<>>) = Segments[prefix]
        BY <1>5, <2>3, TypeFacts, NameAssumption DEF Under
      <3> QED
        BY <1>4, <2>1, <3>1, <3>2, <3>3
    <2> QED
      BY <2>2, <2>3
  <1>7. CASE p = PrefixPlace
    <2>1. /\ Request(p) = [name |-> prefix, parent |-> 0, role |-> None]
          /\ TruePath(p) = Lowered(Segments[prefix])
      BY <1>7, Distinct DEF Request, TruePath
    <2>2. Segments[prefix] \in Seq(Names)
      BY <1>1, <1>7, TypeFacts, PlanCloses, NameAssumption
    <2>3. <<>> \o Segments[prefix] = Segments[prefix]
      BY <1>5, <2>2, Zenon
    <2> QED
      BY <2>1, <2>3
  <1>8. ASSUME NEW n \in Names, p # PrefixPlace,
               Request(p).name = n, Request(p).parent = mapping[PrefixPlace],
               TruePath(p) = Lowered(Under(Segments[n]))
        PROVE  Lowered(above(Request(p).parent) \o Segments[Request(p).name]) = TruePath(p)
    <2>1. PrefixPlace \in Place /\ Segments[n] \in Seq(Names)
      BY NameAssumption DEF Place
    <2>2. Lowered(above(mapping[PrefixPlace]) \o Segments[n])
            = Lowered(Under(<<>>)) \o Lowered(Segments[n])
      <3>1. above(mapping[PrefixPlace]) \in Seq(Names)
        BY <1>3, <2>1
      <3>2. Lowered(above(mapping[PrefixPlace])) = Lowered(Under(<<>>))
        BY <1>6, <1>8
      <3> HIDE DEF above
      <3>3. Lowered(above(mapping[PrefixPlace]) \o Segments[n])
              = Lowered(above(mapping[PrefixPlace])) \o Lowered(Segments[n])
        BY <2>1, <3>1, LoweredPaths, Zenon
      <3> QED
        BY <3>2, <3>3
    <2>3. Lowered(Under(Segments[n])) = Lowered(Under(<<>>)) \o Lowered(Segments[n])
      <3>1. <<>> \o Segments[n] = Segments[n]
        BY <1>5, <2>1, Zenon
      <3>2. Lowered(Under(<<>> \o Segments[n])) = Lowered(Under(<<>>)) \o Lowered(Segments[n])
        BY <1>5, <2>1, UnderPrefix, Zenon
      <3> QED
        BY <3>1, <3>2
    <2> QED
      BY <1>8, <2>2, <2>3
  <1>9. CASE p = Unfiled
    <2>1. /\ Request(p).name = "Unfiled" /\ Request(p).parent = mapping[PrefixPlace]
          /\ TruePath(p) = Lowered(Under(<<"Unfiled">>)) /\ p # PrefixPlace
      BY <1>9, Distinct DEF Request, TruePath
    <2> QED
      BY <1>8, <2>1, NameAssumption
  <1>10. CASE p \in Box
    <2>1. p # PrefixPlace /\ p # Unfiled /\ Name[p] \in Names /\ Segments[Name[p]] \in Seq(Names)
      BY <1>10, Distinct, MailboxAssumption, NameAssumption
    <2>2. Request(p).name = Name[p] /\ TruePath(p) = Lowered(Under(NamePath[p]))
      BY <1>10, <2>1 DEF Request, TruePath
    <2>3. CASE Parent[p] = None
      <3>1. Request(p).parent = mapping[PrefixPlace]
        BY <1>10, <2>1, <2>3 DEF Request
      <3>2. NamePath[p] = Segments[Name[p]]
        BY <1>5, <1>10, <2>1, <2>3, NamePathRecurses
      <3> QED
        BY <1>8, <2>1, <2>2, <3>1, <3>2
    <2>4. CASE Parent[p] # None
      <3>1. /\ Request(p).parent = mapping[Parent[p]] /\ Parent[p] \in Box /\ Parent[p] \in Place
            /\ NamePath[p] = NamePath[Parent[p]] \o Segments[Name[p]]
            /\ NamePath[Parent[p]] \in Seq(Names)
        BY <1>10, <2>1, <2>4, MailboxAssumption, NamePathRecurses, NamePaths DEF Request, Place
      <3>2. mapping[Parent[p]] # 0
        <4>1. Parent[p] \in Places /\ Parent[p] \notin places
          BY <1>1, <1>10, <2>4, PlanCloses, TurnOf, TypeFacts
        <4> QED
          BY <3>1, <4>1 DEF Types, IdsInv
      <3>3. Lowered(above(mapping[Parent[p]])) = Lowered(Under(NamePath[Parent[p]]))
        <4>1. TruePath(Parent[p]) = Lowered(Under(NamePath[Parent[p]]))
          BY <3>1, Distinct DEF TruePath
        <4> QED
          BY <1>4, <3>1, <3>2, <4>1
      <3>4. Lowered(above(mapping[Parent[p]]) \o Segments[Name[p]])
              = Lowered(above(mapping[Parent[p]])) \o Lowered(Segments[Name[p]])
        <4> HIDE DEF above
        <4> QED
          BY <1>3, <2>1, <3>1, LoweredPaths
      <3>5. Lowered(Under(NamePath[p]))
              = Lowered(Under(NamePath[Parent[p]])) \o Lowered(Segments[Name[p]])
        <4>1. Lowered(Under(NamePath[Parent[p]] \o Segments[Name[p]]))
                = Lowered(Under(NamePath[Parent[p]])) \o Lowered(Segments[Name[p]])
          BY <2>1, <3>1, UnderPrefix, Zenon
        <4> QED
          BY <3>1, <4>1
      <3> QED
        BY <2>2, <3>1, <3>3, <3>4, <3>5
    <2> QED
      BY <2>3, <2>4
  <1> QED
    BY <1>1, <1>7, <1>9, <1>10 DEF Place

\* The path a place is looked up by is its own when the account has it.
LEMMA KeyMeansPlace ==
    ASSUME Types, NEW p \in Place, p = Unfiled => Lowered(Key(p)) = Key(p)
    PROVE  Key(p) = TruePath(p)
  <1>1. CASE p = PrefixPlace
    BY <1>1 DEF Key, TruePath
  <1>2. CASE p = Unfiled
    <2>1. <<>> \in Seq(Names) /\ <<"Unfiled">> \in Seq(Names) /\ <<"unfiled">> \in Seq(Names)
      BY NameAssumption
    <2>2. Lowered(<<"unfiled">>) = <<"unfiled">> /\ Lowered(<<"Unfiled">>) = <<"unfiled">>
      <3>1. Lower["unfiled"] = "unfiled" /\ Lower["Unfiled"] = "unfiled"
        BY NameAssumption
      <3> QED
        BY <3>1 DEF Lowered
    <2>3. /\ Lowered(Under(<<"unfiled">>)) = Lowered(Under(<<>>)) \o <<"unfiled">>
          /\ Lowered(Under(<<"Unfiled">>)) = Lowered(Under(<<>>)) \o <<"unfiled">>
      <3>1. <<>> \o <<"unfiled">> = <<"unfiled">> /\ <<>> \o <<"Unfiled">> = <<"Unfiled">>
        OBVIOUS
      <3>2. \A t \in Seq(Names) :
                Lowered(Under(<<>> \o t)) = Lowered(Under(<<>>)) \o Lowered(t)
        BY <2>1, UnderPrefix, Zenon
      <3>3. /\ Lowered(Under(<<>> \o <<"unfiled">>)) = Lowered(Under(<<>>)) \o Lowered(<<"unfiled">>)
            /\ Lowered(Under(<<>> \o <<"Unfiled">>)) = Lowered(Under(<<>>)) \o Lowered(<<"Unfiled">>)
        BY <2>1, <3>2, Zenon
      <3> QED
        BY <2>2, <3>1, <3>3
    <2>4. Key(p) = Under(<<"unfiled">>) /\ TruePath(p) = Lowered(Under(<<"Unfiled">>))
      BY <1>2, Distinct DEF Key, TruePath
    <2> QED
      BY <1>2, <2>3, <2>4
  <1>3. CASE p \in Box
    BY <1>3, Distinct DEF Key, TruePath
  <1> QED
    BY <1>1, <1>2, <1>3 DEF Place

\* What the account shows of its mailboxes stays when one is added.
LEMMA ShownStays ==
    ASSUME Types, NEW r \in Mailbox, r.parent \in 0 .. Len(boxes), boxes' = Append(boxes, r)
    PROVE  \A i \in DOMAIN boxes : PathIn(boxes')[i] = PathIn(boxes)[i]
  BY TypeFacts, PathsKept

\* Ids that stay mean what they meant.
LEMMA FaithfulKept ==
    ASSUME Types, MappingFaithful, UNCHANGED <<prefix, byPath, mapping>>, ~dry' => ~dry,
           \A i \in DOMAIN boxes : PathIn(boxes')[i] = PathIn(boxes)[i]
    PROVE  MappingFaithful'
  <1> SUFFICES ASSUME ~dry'
               PROVE  /\ \A k \in DOMAIN byPath : Lowered(PathIn(boxes')[byPath[k]]) = k
                      /\ \A p \in Place : mapping[p] # 0 =>
                            Lowered(PathIn(boxes')[mapping[p]]) = TruePath(p)'
    BY DEF MappingFaithful
  <1>1. \A k \in DOMAIN byPath : byPath[k] \in DOMAIN boxes
    BY DEF Types, TypeOK
  <1>2. \A p \in Place : mapping[p] # 0 => mapping[p] \in DOMAIN boxes
    BY TypeFacts DEF Types, IdsInv
  <1>3. \A p : TruePath(p)' = TruePath(p)
    BY DEF TruePath, Under
  <1> QED
    BY <1>1, <1>2, <1>3 DEF MappingFaithful

\* Between runs there are none.
LEMMA FaithfulIdle ==
    ASSUME byPath' = <<>>, mapping' = [p \in Place |-> 0] PROVE MappingFaithful'
  BY DEF MappingFaithful

\* A place found or made, with the paths known.
LEMMA FaithfulEnsured ==
    ASSUME Types, MappingFaithful, NEW p \in places, NEW id, mapping' = [mapping EXCEPT ![p] = id],
           UNCHANGED <<prefix, dry>>,
           \A i \in DOMAIN boxes : PathIn(boxes')[i] = PathIn(boxes)[i],
           ~dry => /\ Lowered(PathIn(boxes')[id]) = TruePath(p)
                   /\ \A k \in DOMAIN byPath' : Lowered(PathIn(boxes')[byPath'[k]]) = k
    PROVE  MappingFaithful'
  <1> SUFFICES ASSUME ~dry, NEW q \in Place, mapping'[q] # 0
               PROVE  Lowered(PathIn(boxes')[mapping'[q]]) = TruePath(q)'
    BY DEF MappingFaithful
  <1>1. TruePath(q)' = TruePath(q)
    BY DEF TruePath, Under
  <1>2. CASE q = p
    <2>1. mapping'[q] = id
      BY <1>2, TypeFacts
    <2> QED
      BY <1>1, <1>2, <2>1
  <1>3. CASE q # p
    <2>1. mapping'[q] = mapping[q] /\ mapping[q] # 0
      BY <1>3, TypeFacts
    <2>2. mapping[q] \in DOMAIN boxes
      BY <2>1, TypeFacts DEF Types, IdsInv
    <2> QED
      BY <1>1, <2>1, <2>2 DEF MappingFaithful
  <1> QED
    BY <1>2, <1>3

\* The owner makes a mailbox.
LEMMA OwnerCreatesFaithful ==
    ASSUME Types, MappingFaithful, NEW n \in OwnerNames, OwnerCreates(n) PROVE MappingFaithful'
  <1> DEFINE r == [name |-> n, parent |-> 0, role |-> None]
  <1>1. boxes' = Append(boxes, r) /\ UNCHANGED <<given, dry, plan>>
    BY DEF OwnerCreates
  <1>2. r \in Mailbox /\ r.parent \in 0 .. Len(boxes)
    BY TypeFacts, NameAssumption DEF Mailbox
  <1>3. \A i \in DOMAIN boxes : PathIn(boxes')[i] = PathIn(boxes)[i]
    <2> HIDE DEF r
    <2> QED
      BY <1>1, <1>2, ShownStays
  <1> QED
    BY <1>1, <1>3, FaithfulKept DEF given, plan

\* The account is listed.
LEMMA ListMailboxesFaithful == ASSUME Types, ListMailboxes PROVE MappingFaithful'
  <1> DEFINE path  == PathIn(boxes)
             at(k) == {i \in DOMAIN boxes : Lowered(path[i]) = k}
             paths == {Lowered(path[i]) : i \in DOMAIN boxes}
  <1>1. /\ mapping' = [p \in Place |-> 0] /\ boxes' = boxes
        /\ \E hidden : /\ \A k \in paths : Cardinality(at(k) \ hidden) = 1
                       /\ byPath' = [k \in paths |-> CHOOSE i \in at(k) \ hidden : TRUE]
    BY DEF ListMailboxes, target
  <1>2. PICK hidden : /\ \A k \in paths : Cardinality(at(k) \ hidden) = 1
                      /\ byPath' = [k \in paths |-> CHOOSE i \in at(k) \ hidden : TRUE]
    BY <1>1
  <1>3. \A k \in paths : (CHOOSE i \in at(k) \ hidden : TRUE) \in at(k)
    <2>1. \A k \in paths : at(k) \ hidden # {}
      <3> HIDE DEF at, paths
      <3> QED
        BY <1>2, FS_EmptySet
    <2> HIDE DEF at, paths
    <2> QED
      BY <2>1
  <1>4. DOMAIN byPath' = paths /\ \A k \in paths : byPath'[k] \in at(k)
    <2> HIDE DEF at, paths
    <2> QED
      BY <1>2, <1>3
  <1>5. \A k \in DOMAIN byPath' : Lowered(PathIn(boxes)[byPath'[k]]) = k
    BY <1>4
  <1>6. \A p \in Place : mapping'[p] = 0
    BY <1>1
  <1> QED
    BY <1>1, <1>5, <1>6 DEF MappingFaithful

\* A place that the account has.
LEMMA ReuseFaithful == ASSUME Types, MappingFaithful, NEW p, Reuse(p) PROVE MappingFaithful'
  <1>1. /\ Turn(p) /\ Key(p) \in DOMAIN byPath /\ mapping' = [mapping EXCEPT ![p] = byPath[Key(p)]]
        /\ UNCHANGED <<boxes, byPath, given, dry>>
    BY DEF Reuse, Ensured
  <1>2. p \in places /\ p \in Place
    BY <1>1, TypeFacts, TurnOf
  <1>3. ASSUME ~dry PROVE Lowered(PathIn(boxes)[byPath[Key(p)]]) = TruePath(p)
    <2>1. byPath[Key(p)] \in DOMAIN boxes /\ Shown(byPath[Key(p)]) = Key(p)
      BY <1>1, <1>3, FaithfulMeans DEF Types, TypeOK
    <2>2. PathIn(boxes)[byPath[Key(p)]] \in Seq(Names)
      BY <2>1, TypeFacts, PathsTyped
    <2>3. Lowered(Key(p)) = Key(p)
      BY <2>1, <2>2, LoweredPaths DEF Shown
    <2> QED
      BY <1>2, <2>1, <2>3, KeyMeansPlace DEF Shown
  <1>4. ~dry => \A k \in DOMAIN byPath : Lowered(PathIn(boxes)[byPath[k]]) = k
    BY DEF MappingFaithful
  <1> QED
    BY <1>1, <1>2, <1>3, <1>4, FaithfulEnsured DEF given

\* A place that has to be made.
LEMMA CreateFaithful == ASSUME Types, MappingFaithful, NEW p, Create(p) PROVE MappingFaithful'
  <1> DEFINE id == IF dry THEN -1 - summary.created ELSE Len(boxes) + 1
  <1>1. /\ pc = "mailboxes" /\ Turn(p) /\ mapping' = [mapping EXCEPT ![p] = id]
        /\ boxes' = (IF dry THEN boxes ELSE Append(boxes, Request(p)))
        /\ byPath' = IF p = Unfiled THEN byPath
                     ELSE [k \in DOMAIN byPath \cup {Key(p)} |->
                             IF k = Key(p) THEN id ELSE byPath[k]]
        /\ UNCHANGED <<given, dry>>
    BY DEF Create, Ensured
  <1>2. p \in places /\ p \in Place
    BY <1>1, TypeFacts, TurnOf
  <1>3. CASE dry
    <2>1. mapping' = [mapping EXCEPT ![p] = id] /\ boxes' = boxes /\ UNCHANGED <<prefix, dry>>
      BY <1>1, <1>3 DEF given
    <2> HIDE DEF id
    <2> QED
      BY <1>2, <1>3, <2>1, FaithfulEnsured
  <1>4. CASE ~dry
    <2>1. /\ boxes' = Append(boxes, Request(p)) /\ id = Len(boxes) + 1
          /\ Request(p) \in Mailbox /\ Request(p).parent \in 0 .. Len(boxes)
      BY <1>1, <1>4, RequestTypes
    <2> HIDE DEF id
    <2>2. \A i \in DOMAIN boxes : PathIn(boxes')[i] = PathIn(boxes)[i]
      BY <2>1, ShownStays
    <2>3. Lowered(PathIn(boxes')[id]) = TruePath(p)
      <3>1. PathIn(boxes')[id]
              = (IF Request(p).parent = 0 THEN <<>> ELSE PathIn(boxes)[Request(p).parent])
                \o Segments[Request(p).name]
        BY <2>1, TypeFacts, PathsKept
      <3> QED
        BY <1>1, <1>4, <3>1, RequestMeansPlace
    <2>4. \A k \in DOMAIN byPath : /\ byPath[k] \in DOMAIN boxes
                                   /\ Lowered(PathIn(boxes')[byPath[k]]) = k
      <3>1. \A k \in DOMAIN byPath : byPath[k] \in DOMAIN boxes
        BY <1>4 DEF Types, TypeOK
      <3> QED
        BY <1>4, <2>2, <3>1 DEF MappingFaithful
    <2>5. \A k \in DOMAIN byPath' : Lowered(PathIn(boxes')[byPath'[k]]) = k
      <3>1. CASE p = Unfiled
        BY <1>1, <2>4, <3>1
      <3>2. CASE p # Unfiled
        <4>1. byPath' = [k \in DOMAIN byPath \cup {Key(p)} |->
                           IF k = Key(p) THEN id ELSE byPath[k]]
          BY <1>1, <3>2
        <4>2. Key(p) = TruePath(p)
          BY <1>2, <3>2, KeyMeansPlace
        <4> QED
          BY <2>3, <2>4, <4>1, <4>2
      <3> QED
        BY <3>1, <3>2
    <2> QED
      BY <1>1, <1>2, <1>4, <2>2, <2>3, <2>5, FaithfulEnsured DEF given
  <1> QED
    BY <1>3, <1>4

\* No step breaks it.
LEMMA FaithfulStep == Types /\ MappingFaithful /\ [Next]_vars => MappingFaithful'
  <1> SUFFICES ASSUME Types, MappingFaithful, [Next]_vars PROVE MappingFaithful'
    OBVIOUS
  <1>1. ASSUME NEW n \in OwnerNames, OwnerCreates(n) PROVE MappingFaithful'
    BY <1>1, OwnerCreatesFaithful
  <1>2. ASSUME NEW isDry \in BOOLEAN, Begin(isDry) PROVE MappingFaithful'
    <2>1. DOMAIN byPath' = {} /\ \A p \in Place : mapping'[p] = 0
      BY <1>2 DEF Begin, Types, ControlInv, plan
    <2> QED
      BY <2>1 DEF MappingFaithful
  <1>3. CASE ListMailboxes
    BY <1>3, ListMailboxesFaithful
  <1>4. ASSUME NEW p \in places, Reuse(p) \/ Create(p) PROVE MappingFaithful'
    BY <1>4, ReuseFaithful, CreateFaithful
  <1>5. ASSUME NEW how, EndRun(how) PROVE MappingFaithful'
    BY <1>5, FaithfulIdle DEF EndRun
  <1>6. ASSUME NEW p, CreateRefused(p) \/ CreateAnswerLost(p) PROVE MappingFaithful'
    BY <1>5, <1>6 DEF CreateRefused, CreateAnswerLost
  <1>7. CASE MailboxesReady \/ Cancel \/ UNCHANGED vars
    <2>1. UNCHANGED <<boxes, prefix, dry, byPath, mapping>>
      BY <1>7 DEF MailboxesReady, Cancel, vars, target, given, plan
    <2> QED
      BY <2>1, FaithfulKept
  <1>8. ASSUME NEW m \in Msg, SkipExisting(m) \/ PassOver(m) \/ Import(m) \/ ImportFails(m)
        PROVE  MappingFaithful'
    <2>1. UNCHANGED <<boxes, prefix, dry, byPath, mapping>>
      BY <1>8 DEF SkipExisting, PassOver, Import, ImportFails, Considered, target, given, plan
    <2> QED
      BY <2>1, FaithfulKept
  <1>9. ASSUME NEW m \in Msg, ReadFails(m) PROVE MappingFaithful'
    BY <1>5, <1>9 DEF ReadFails
  <1>10. CASE Stop \/ Interrupted \/ Complete
    BY <1>5, <1>10 DEF Stop, Interrupted, Complete
  <1> QED
    BY <1>1, <1>2, <1>3, <1>4, <1>6, <1>7, <1>8, <1>9, <1>10 DEF Next

\* With the types it is an invariant.
LEMMA FaithfulAlways == Spec => [](Types /\ MappingFaithful)
  <1>1. Init => MappingFaithful
    BY DEF Init, MappingFaithful
  <1>2. Types /\ MappingFaithful /\ [Next]_vars => (Types /\ MappingFaithful)'
    BY TypesStep, FaithfulStep
  <1> QED
    BY <1>1, <1>2, InitTypes, PTL DEF Spec

\* However many runs, whatever the account held, whoever adds mailboxes meanwhile:
\* an id in hand is that of the mailbox it is taken for (ensure_mailboxes,
\* list_mailboxes, create_mailbox).
THEOREM IdsAreFaithful == Spec => []MappingFaithful
  BY FaithfulAlways, PTL

-----------------------------------------------------------------------------
(* What is imported is where it belongs, once, and all of it.               *)

\* Mail stays, or one message is imported that was due.
LEMMA MailGrows ==
    ASSUME Types, [Next]_vars
    PROVE  mail' = mail \/ \E m \in todo : Due(m) /\ ~dry /\ mail' = Imported(m) /\ boxes' = boxes
  <1>1. ASSUME NEW how, EndRun(how) PROVE mail' = mail
    BY <1>1 DEF EndRun
  <1>2. ASSUME NEW p, Reuse(p) \/ Create(p) \/ CreateRefused(p) \/ CreateAnswerLost(p)
        PROVE  mail' = mail
    BY <1>1, <1>2 DEF Reuse, Create, CreateRefused, CreateAnswerLost, Ensured
  <1>3. ASSUME NEW m, SkipExisting(m) \/ PassOver(m) \/ ReadFails(m) PROVE mail' = mail
    BY <1>1, <1>3 DEF SkipExisting, PassOver, ReadFails, target
  <1>4. ASSUME NEW m, Import(m) \/ ImportFails(m)
        PROVE  mail' = mail \/ (m \in todo /\ Due(m) /\ ~dry /\ mail' = Imported(m) /\ boxes' = boxes)
    BY <1>4 DEF Import, ImportFails, Due, Considered
  <1>5. CASE Stop \/ Interrupted \/ Complete
    BY <1>1, <1>5 DEF Stop, Interrupted, Complete
  <1>6. CASE ListMailboxes \/ MailboxesReady \/ Cancel \/ UNCHANGED vars
    BY <1>6 DEF ListMailboxes, MailboxesReady, Cancel, vars, target
  <1>7. ASSUME NEW n, OwnerCreates(n) PROVE mail' = mail
    BY <1>7 DEF OwnerCreates
  <1>8. ASSUME NEW isDry, Begin(isDry) PROVE mail' = mail
    BY <1>8 DEF Begin, target
  <1> QED
    BY <1>2, <1>3, <1>4, <1>5, <1>6, <1>7, <1>8 DEF Next

\* Settings and archive stay; mailboxes stay, or one is added.
LEMMA BoxesGrow ==
    ASSUME Types, [Next]_vars
    PROVE  /\ UNCHANGED given
           /\ \/ boxes' = boxes
              \/ \E r \in Mailbox : r.parent \in 0 .. Len(boxes) /\ boxes' = Append(boxes, r)
  <1>1. ASSUME NEW how, EndRun(how) PROVE UNCHANGED given
    BY <1>1 DEF EndRun
  <1>2. ASSUME NEW p, Reuse(p) \/ CreateRefused(p) PROVE UNCHANGED given /\ boxes' = boxes
    BY <1>1, <1>2 DEF Reuse, CreateRefused, Ensured
  <1>3. ASSUME NEW p, Create(p) \/ CreateAnswerLost(p)
        PROVE  /\ UNCHANGED given
               /\ boxes' = boxes \/ (~dry /\ Turn(p) /\ boxes' = Append(boxes, Request(p)))
    BY <1>1, <1>3 DEF Create, CreateAnswerLost, Ensured
  <1>4. ASSUME NEW p, ~dry, Turn(p), boxes' = Append(boxes, Request(p))
        PROVE  \E r \in Mailbox : r.parent \in 0 .. Len(boxes) /\ boxes' = Append(boxes, r)
    BY <1>4, RequestTypes
  <1>5. ASSUME NEW m, SkipExisting(m) \/ PassOver(m) \/ Import(m) \/ ImportFails(m) \/ ReadFails(m)
        PROVE  UNCHANGED given /\ boxes' = boxes
    BY <1>1, <1>5 DEF SkipExisting, PassOver, Import, ImportFails, ReadFails, Considered, target
  <1>6. CASE Stop \/ Interrupted \/ Complete
    BY <1>1, <1>6 DEF Stop, Interrupted, Complete
  <1>7. CASE ListMailboxes \/ MailboxesReady \/ Cancel \/ UNCHANGED vars
    BY <1>7 DEF ListMailboxes, MailboxesReady, Cancel, vars, target
  <1>8. ASSUME NEW n \in OwnerNames, OwnerCreates(n)
        PROVE  /\ UNCHANGED given
               /\ \E r \in Mailbox : r.parent \in 0 .. Len(boxes) /\ boxes' = Append(boxes, r)
    <2> DEFINE r == [name |-> n, parent |-> 0, role |-> None]
    <2>1. UNCHANGED given /\ boxes' = Append(boxes, r)
      BY <1>8 DEF OwnerCreates
    <2>2. r \in Mailbox /\ r.parent \in 0 .. Len(boxes)
      BY TypeFacts, NameAssumption DEF Mailbox
    <2> QED
      BY <2>1, <2>2
  <1>9. ASSUME NEW isDry, Begin(isDry) PROVE UNCHANGED given /\ boxes' = boxes
    BY <1>9 DEF Begin, target
  <1> QED
    BY <1>2, <1>3, <1>4, <1>5, <1>6, <1>7, <1>8, <1>9 DEF Next

\* So do the paths of those that are there.
LEMMA PathsOfStep ==
    ASSUME Types, [Next]_vars
    PROVE  \A i \in DOMAIN boxes : PathIn(boxes')[i] = PathIn(boxes)[i]
  BY BoxesGrow, ShownStays

\* The mail with one message more.
LEMMA MailWith ==
    ASSUME mail \in Seq(MailRecord), NEW r \in MailRecord
    PROVE  /\ DOMAIN mail = 1 .. Len(mail) /\ Len(mail) \in Nat
           /\ DOMAIN Append(mail, r) = DOMAIN mail \cup {Len(mail) + 1}
           /\ \A i \in DOMAIN mail : Append(mail, r)[i] = mail[i]
           /\ Append(mail, r)[Len(mail) + 1] = r
  OBVIOUS

\* A message that is imported, and where: in the mailboxes its places were
\* mapped to.
LEMMA ImportedMail ==
    ASSUME Types, NEW m \in todo, Due(m), ~dry
    PROVE  /\ m \in Msg /\ Resolved(m) \subseteq Place
           /\ \A b \in Resolved(m) : mapping[b] \in DOMAIN boxes /\ mapping[b] # 0
           /\ [msg |-> m, in |-> {mapping[b] : b \in Resolved(m)}] \in MailRecord
  <1>1. m \in Selected /\ m \in Msg
    BY TypeFacts DEF Selected, Archived
  <1>2. Resolved(m) \subseteq Places /\ Places \subseteq Place
    BY <1>1, PlanCloses
  <1>3. pc = "import" /\ places = {}
    BY DEF Due, Types, ControlInv
  <1>4. \A b \in Resolved(m) : mapping[b] \in 0 .. Len(boxes) /\ mapping[b] # 0
    BY <1>2, <1>3 DEF Types, IdsInv
  <1>5. \A b \in Resolved(m) : mapping[b] \in DOMAIN boxes /\ mapping[b] # 0 /\ mapping[b] \in Nat
    BY <1>4, TypeFacts
  <1> QED
    BY <1>1, <1>2, <1>5 DEF MailRecord

\* No message with a Message-ID is in an account twice from the start.
StartsWithoutTwins ==
    \A a \in Accounts : \A i, j \in DOMAIN a.mail :
        MessageId[a.mail[i].msg] # None
          /\ MessageId[a.mail[i].msg] = MessageId[a.mail[j].msg] => i = j

\* Then none comes to be: a restore that is run again, after whatever loss of an
\* answer or interruption, passes over what is there (exists_on_server).
THEOREM NothingTwice ==
    ASSUME StartsWithoutTwins PROVE Spec => []NoDuplicate
  <1>1. Init => NoDuplicate
    BY DEF Init, NoDuplicate, StartsWithoutTwins
  <1>2. Types /\ NoDuplicate /\ [Next]_vars => NoDuplicate'
    <2> SUFFICES ASSUME Types, NoDuplicate, [Next]_vars, Dedupe,
                        NEW i \in DOMAIN mail', NEW j \in DOMAIN mail',
                        MessageId[mail'[i].msg] # None,
                        MessageId[mail'[i].msg] = MessageId[mail'[j].msg]
                 PROVE  i = j
      BY DEF NoDuplicate
    <2>1. CASE mail' = mail
      BY <2>1 DEF NoDuplicate
    <2>2. CASE \E m \in todo : Due(m) /\ ~dry /\ mail' = Imported(m)
      <3>1. PICK m \in todo : Due(m) /\ ~dry /\ mail' = Imported(m)
        BY <2>2
      <3> DEFINE r == [msg |-> m, in |-> {mapping[b] : b \in Resolved(m)}]
      <3>2. r \in MailRecord /\ r.msg = m /\ mail' = Append(mail, r)
        BY <3>1, ImportedMail DEF Imported
      <3> HIDE DEF r
      <3>3. /\ DOMAIN mail' = DOMAIN mail \cup {Len(mail) + 1}
            /\ \A k \in DOMAIN mail : mail'[k] = mail[k]
            /\ mail'[Len(mail) + 1].msg = m
        BY <3>2, TypeFacts, MailWith
      <3>4. MessageId[m] # None => \A k \in DOMAIN mail : MessageId[mail[k].msg] # MessageId[m]
        BY <3>1 DEF Due, Finds
      <3> QED
        BY <3>3, <3>4 DEF NoDuplicate
    <2> QED
      BY <2>1, <2>2, MailGrows
  <1> QED
    BY <1>1, <1>2, TypesAlways, PTL DEF Spec

\* Every imported message is in the mailboxes of its sidecar that still exist, and
\* one without any is in exactly one, however the mailboxes came to be
\* (mailbox_targets, mailbox_ids).
THEOREM ImportsAreInPlace == Spec => []ImportedInPlace
  <1> DEFINE kept(m) == FiledUnder[m] \cap Box
             Right(m, in, path) ==
                 in # {} => IF kept(m) = {} THEN Cardinality({Lowered(path[b]) : b \in in}) = 1
                            ELSE {Lowered(path[b]) : b \in in} = {TruePath(b) : b \in kept(m)}
  <1>1. ImportedInPlace <=> \A i \in DOMAIN mail : Right(mail[i].msg, mail[i].in, PathIn(boxes))
    BY DEF ImportedInPlace
  <1>2. Init => ImportedInPlace
    <2> SUFFICES ASSUME Init PROVE \A i \in DOMAIN mail : mail[i].in = {}
      BY DEF ImportedInPlace
    <2>1. mail \in Seq([msg : Msg, in : {{}}])
      BY AccountAssumption DEF Init
    <2> DEFINE Elsewhere == [msg : Msg, in : {{}}]
    <2>2. \A r \in Elsewhere : r.in = {}
      OBVIOUS
    <2> HIDE DEF Elsewhere
    <2>3. mail \in Seq(Elsewhere)
      BY <2>1 DEF Elsewhere
    <2> QED
      BY <2>2, <2>3
  <1>3. ASSUME Types, MappingFaithful, ImportedInPlace, [Next]_vars PROVE ImportedInPlace'
    <2>1. \A i \in DOMAIN boxes : PathIn(boxes')[i] = PathIn(boxes)[i]
      BY <1>3, PathsOfStep
    <2>2. prefix' = prefix
      BY <1>3, BoxesGrow DEF given
    <2>3. \A b : TruePath(b)' = TruePath(b)
      BY <2>2 DEF TruePath, Under
    <2>4. ASSUME NEW i \in DOMAIN mail, mail'[i] = mail[i]
          PROVE  Right(mail[i].msg, mail[i].in, PathIn(boxes))'
      <3>1. Right(mail[i].msg, mail[i].in, PathIn(boxes)) /\ mail[i].in \subseteq DOMAIN boxes
        BY <1>1, <1>3, TypeFacts
      <3>2. {Lowered(PathIn(boxes')[b]) : b \in mail[i].in} = {Lowered(PathIn(boxes)[b]) : b \in mail[i].in}
        BY <2>1, <3>1
      <3>3. {TruePath(b)' : b \in kept(mail[i].msg)} = {TruePath(b) : b \in kept(mail[i].msg)}
        BY <2>3
      <3> QED
        BY <2>4, <3>1, <3>2, <3>3
    <2>5. CASE mail' = mail
      BY <2>4, <2>5 DEF ImportedInPlace
    <2>6. CASE \E m \in todo : Due(m) /\ ~dry /\ mail' = Imported(m) /\ boxes' = boxes
      <3>1. PICK m \in todo : Due(m) /\ ~dry /\ mail' = Imported(m) /\ boxes' = boxes
        BY <2>6
      <3> DEFINE r == [msg |-> m, in |-> {mapping[b] : b \in Resolved(m)}]
      <3>2. r \in MailRecord /\ mail' = Append(mail, r) /\ m \in Msg /\ Resolved(m) \subseteq Place
        BY <1>3, <3>1, ImportedMail DEF Imported
      <3>3. /\ DOMAIN mail' = DOMAIN mail \cup {Len(mail) + 1}
            /\ \A k \in DOMAIN mail : mail'[k] = mail[k]
            /\ mail'[Len(mail) + 1] = r
        <4> HIDE DEF r
        <4> QED
          BY <1>3, <3>2, TypeFacts, MailWith
      <3>4. \A b \in Resolved(m) : Lowered(PathIn(boxes)[mapping[b]]) = TruePath(b)
        BY <1>3, <3>1, <3>2, ImportedMail DEF MappingFaithful
      <3>5. {Lowered(PathIn(boxes')[b]) : b \in r.in} = {TruePath(b)' : b \in Resolved(m)}
        BY <2>3, <3>1, <3>4
      <3>6. IF kept(m) = {} THEN Cardinality({Lowered(PathIn(boxes')[b]) : b \in r.in}) = 1
            ELSE {Lowered(PathIn(boxes')[b]) : b \in r.in} = {TruePath(b)' : b \in kept(m)}
        <4>1. CASE kept(m) = {}
          <5>1. PICK p : Resolved(m) = {p}
            BY <3>2, <4>1, MessagesHavePlaces
          <5>2. {TruePath(b)' : b \in Resolved(m)} = {TruePath(p)'}
            BY <5>1
          <5>3. Cardinality({Lowered(PathIn(boxes')[b]) : b \in r.in}) = 1
            BY <3>5, <5>2, FS_Singleton
          <5> QED
            BY <4>1, <5>3
        <4>2. CASE kept(m) # {}
          BY <3>2, <3>5, <4>2, MessagesHavePlaces
        <4> QED
          BY <4>1, <4>2
      <3>7. ASSUME NEW i \in DOMAIN mail' PROVE Right(mail[i].msg, mail[i].in, PathIn(boxes))'
        <4>1. CASE i \in DOMAIN mail
          BY <2>4, <3>3, <4>1
        <4>2. CASE i = Len(mail) + 1
          <5>1. mail'[i].msg = m /\ mail'[i].in = r.in
            BY <3>3, <4>2
          <5> HIDE DEF r
          <5>2. Right(mail[i].msg, mail[i].in, PathIn(boxes))'
            BY <3>6, <5>1
          <5> QED
            BY <5>2
        <4> QED
          BY <3>3, <4>1, <4>2
      <3> QED
        BY <3>7 DEF ImportedInPlace
    <2> QED
      BY <1>3, <2>5, <2>6, MailGrows
  <1> QED
    BY <1>2, <1>3, FaithfulAlways, PTL DEF Spec

\* No two archived messages have one Message-ID.
DistinctIds ==
    \A m, n \in Msg : MessageId[m] # None /\ MessageId[m] = MessageId[n] => m = n

\* What is no longer to do is in the account, unless something failed.
DoneIsThere ==
    pc \in {"mailboxes", "import"} /\ ~dry /\ summary.failed = 0
      => \A m \in Selected \ todo : OnTarget(m)

\* Then a message that is found is there: by its Message-ID, for by its date and
\* size nothing is ever found (message_query: minSize and maxSize are the same).
LEMMA FoundIsThere ==
    ASSUME Types, DistinctIds, NEW m \in Msg, Finds(m) PROVE OnTarget(m)
  <1>1. PICK i \in DOMAIN mail :
            IF MessageId[m] # None THEN MessageId[mail[i].msg] = MessageId[m]
            ELSE Size[mail[i].msg] >= Size[m] /\ Size[mail[i].msg] < Size[m]
    BY DEF Finds
  <1>2. mail[i].msg \in Msg
    BY TypeFacts
  <1>3. Size[m] \in Int /\ Size[mail[i].msg] \in Int
    BY <1>2, MessageAssumption
  <1>4. MessageId[m] # None
    BY <1>1, <1>3
  <1>5. mail[i].msg = m
    BY <1>1, <1>2, <1>4 DEF DistinctIds
  <1> QED
    BY <1>5 DEF OnTarget

\* Mail that is there stays.
LEMMA MailStays ==
    ASSUME Types, [Next]_vars
    PROVE  /\ Selected' = Selected
           /\ \A m : OnTarget(m) => OnTarget(m)'
  <1>1. Selected' = Selected
    BY BoxesGrow, GivenStays
  <1>2. \A i \in DOMAIN mail : i \in DOMAIN mail' /\ mail'[i] = mail[i]
    <2>1. CASE \E m \in todo : Due(m) /\ ~dry /\ mail' = Imported(m)
      <3>1. PICK m \in todo : Due(m) /\ ~dry /\ mail' = Imported(m)
        BY <2>1
      <3> DEFINE r == [msg |-> m, in |-> {mapping[b] : b \in Resolved(m)}]
      <3>2. r \in MailRecord /\ mail' = Append(mail, r)
        BY <3>1, ImportedMail DEF Imported
      <3> HIDE DEF r
      <3> QED
        BY <3>2, TypeFacts, MailWith
    <2> QED
      BY <2>1, MailGrows
  <1>3. \A m : OnTarget(m) => OnTarget(m)'
    BY <1>2 DEF OnTarget
  <1> QED
    BY <1>1, <1>3

\* A message that has been imported is there.
LEMMA ImportedIsThere ==
    ASSUME Types, NEW m \in todo, Due(m), ~dry, mail' = Imported(m) PROVE OnTarget(m)'
  <1> DEFINE r == [msg |-> m, in |-> {mapping[b] : b \in Resolved(m)}]
  <1>1. r \in MailRecord /\ mail' = Append(mail, r) /\ r.msg = m
    BY ImportedMail DEF Imported
  <1>2. Len(mail) + 1 \in DOMAIN mail' /\ mail'[Len(mail) + 1].msg = m
    <2> HIDE DEF r
    <2> QED
      BY <1>1, TypeFacts, MailWith
  <1> QED
    BY <1>2 DEF OnTarget

\* A message that is counted: only the other counters keep theirs.
LEMMA Counted ==
    ASSUME Types, NEW m, NEW c \in {"imported", "skipped", "failed"}, Considered(m, c)
    PROVE  /\ todo' = todo \ {m} /\ UNCHANGED <<boxes, given, pc, dry, plan, outcome, foretold>>
           /\ c # "failed" => summary'.failed = summary.failed
           /\ c = "failed" => summary'.failed # 0
           /\ c # "skipped" => summary'.skipped = summary.skipped
           /\ c = "skipped" => summary'.skipped = summary.skipped + 1
           /\ c # "imported" => summary'.imported = summary.imported
           /\ c = "imported" => summary'.imported = summary.imported + 1
           /\ summary'.created = summary.created
  <1>1. summary \in [{"created", "imported", "skipped", "failed"} -> Nat]
    BY TypeFacts DEF NoSummary
  <1>2. summary' = [summary EXCEPT ![c] = @ + 1]
    BY DEF Considered
  <1> QED
    BY <1>1, <1>2 DEF Considered

\* No step breaks either.
LEMMA DoneStep ==
    ASSUME DistinctIds, Types, DoneIsThere, CompleteMeansAll, [Next]_vars
    PROVE  DoneIsThere' /\ CompleteMeansAll'
  <1>1. Selected' = Selected /\ \A m : OnTarget(m) => OnTarget(m)'
    BY MailStays
  <1>2. Selected \subseteq Msg /\ todo \subseteq Selected
    BY TypeFacts DEF Selected, Archived
  <1>3. pc # "idle" => outcome = "running"
    BY DEF Types, ControlInv
  <1>4. ASSUME UNCHANGED <<dry, todo, outcome>>, summary'.failed = summary.failed,
               pc' \in {"mailboxes", "import"} => pc \in {"mailboxes", "import"}
        PROVE  DoneIsThere' /\ CompleteMeansAll'
    BY <1>1, <1>4 DEF DoneIsThere, CompleteMeansAll
  <1>5. ASSUME NEW m \in todo, todo' = todo \ {m}, UNCHANGED <<pc, dry, outcome>>, pc = "import",
               ~dry => summary'.failed # 0 \/ (summary'.failed = summary.failed /\ OnTarget(m)')
        PROVE  DoneIsThere' /\ CompleteMeansAll'
    <2>1. DoneIsThere'
      <3> SUFFICES ASSUME ~dry, summary'.failed = 0, NEW n \in Selected, n \notin todo'
                   PROVE  OnTarget(n)'
        BY <1>1, <1>5 DEF DoneIsThere
      <3>1. summary.failed = 0 /\ OnTarget(m)'
        BY <1>5
      <3>2. CASE n = m
        BY <3>1, <3>2
      <3>3. CASE n # m
        <4>1. n \in Selected \ todo
          BY <1>5, <3>3
        <4>2. OnTarget(n)
          BY <1>5, <3>1, <4>1 DEF DoneIsThere
        <4> QED
          BY <1>1, <4>2
      <3> QED
        BY <3>2, <3>3
    <2> QED
      BY <1>3, <1>5, <2>1 DEF CompleteMeansAll
  <1>6. ASSUME NEW how, how # "complete", EndRun(how) PROVE DoneIsThere' /\ CompleteMeansAll'
    BY <1>6 DEF EndRun, DoneIsThere, CompleteMeansAll
  <1>7. ASSUME NEW n, OwnerCreates(n) PROVE DoneIsThere' /\ CompleteMeansAll'
    BY <1>4, <1>7 DEF OwnerCreates
  <1>8. ASSUME NEW isDry, Begin(isDry) PROVE DoneIsThere' /\ CompleteMeansAll'
    BY <1>8 DEF Begin, DoneIsThere, CompleteMeansAll
  <1>9. CASE ListMailboxes
    <2>1. todo' = Selected /\ outcome' = outcome /\ outcome = "running"
      BY <1>3, <1>9 DEF ListMailboxes
    <2> QED
      BY <1>1, <2>1 DEF DoneIsThere, CompleteMeansAll
  <1>10. ASSUME NEW p, Reuse(p) \/ Create(p) PROVE DoneIsThere' /\ CompleteMeansAll'
    <2>1. summary'.failed = summary.failed
      BY <1>10, TypeFacts DEF Reuse, Create, NoSummary
    <2>2. UNCHANGED <<dry, todo, outcome, pc>>
      BY <1>10 DEF Reuse, Create, Ensured
    <2> QED
      BY <1>4, <2>1, <2>2
  <1>11. ASSUME NEW p, CreateRefused(p) \/ CreateAnswerLost(p)
         PROVE  DoneIsThere' /\ CompleteMeansAll'
    BY <1>6, <1>11 DEF CreateRefused, CreateAnswerLost
  <1>12. CASE MailboxesReady \/ Cancel \/ UNCHANGED vars
    BY <1>4, <1>12 DEF MailboxesReady, Cancel, vars
  <1>13. ASSUME NEW m \in Msg, SkipExisting(m) PROVE DoneIsThere' /\ CompleteMeansAll'
    <2>1. m \in todo /\ pc = "import" /\ Finds(m) /\ Considered(m, "skipped")
      BY <1>13 DEF SkipExisting
    <2>2. OnTarget(m)'
      BY <1>1, <2>1, FoundIsThere
    <2> QED
      BY <1>5, <2>1, <2>2, Counted
  <1>14. ASSUME NEW m \in Msg, PassOver(m) PROVE DoneIsThere' /\ CompleteMeansAll'
    BY <1>5, <1>14 DEF PassOver, Due
  <1>15. ASSUME NEW m \in Msg, Import(m) PROVE DoneIsThere' /\ CompleteMeansAll'
    <2>1. m \in todo /\ pc = "import" /\ Due(m) /\ ~dry /\ mail' = Imported(m)
          /\ Considered(m, "imported")
      BY <1>15 DEF Import, Due
    <2> QED
      BY <1>5, <2>1, Counted, ImportedIsThere
  <1>16. ASSUME NEW m \in Msg, ImportFails(m) PROVE DoneIsThere' /\ CompleteMeansAll'
    <2>1. m \in todo /\ pc = "import" /\ Considered(m, "failed")
      BY <1>16 DEF ImportFails, Due
    <2> QED
      BY <1>5, <2>1, Counted
  <1>17. ASSUME NEW m \in Msg, ReadFails(m) PROVE DoneIsThere' /\ CompleteMeansAll'
    BY <1>6, <1>17 DEF ReadFails
  <1>18. CASE Stop \/ Interrupted
    BY <1>6, <1>18 DEF Stop, Interrupted
  <1>19. CASE Complete
    <2>1. /\ pc = "import" /\ todo = {} /\ summary' = summary /\ dry' = dry /\ pc' = "idle"
      BY <1>19 DEF Complete, EndRun
    <2> QED
      BY <1>1, <2>1 DEF DoneIsThere, CompleteMeansAll
  <1> QED
    BY <1>7, <1>8, <1>9, <1>10, <1>11, <1>12, <1>13, <1>14, <1>15, <1>16, <1>17, <1>18, <1>19
    DEF Next

\* So a restore that reports no failure has imported all that was selected, in this
\* run or an earlier one.
THEOREM CompleteIsAll ==
    ASSUME DistinctIds PROVE Spec => []CompleteMeansAll
  <1>1. Init => DoneIsThere /\ CompleteMeansAll
    BY DEF Init, DoneIsThere, CompleteMeansAll
  <1>2. Types /\ DoneIsThere /\ CompleteMeansAll /\ [Next]_vars => (DoneIsThere /\ CompleteMeansAll)'
    BY DoneStep
  <1> QED
    BY <1>1, <1>2, TypesAlways, PTL DEF Spec

-----------------------------------------------------------------------------
(* A run that nothing disturbs is not refused a mailbox.                    *)

\* The prefix is in lower case, if there is one.
PrefixesLowered == \A n \in Prefixes \ {None} : Lowered(Segments[n]) = Segments[n]

\* Then every place is looked up by its own path, Unfiled as well.
LEMMA KeysLowered ==
    ASSUME Types, PrefixesLowered, NEW p \in Place PROVE Key(p) = TruePath(p)
  <1>1. CASE p = Unfiled
    <2>1. Key(p) = Under(<<"unfiled">>)
      BY <1>1, Distinct DEF Key
    <2>2. Lowered(<<"unfiled">>) = <<"unfiled">> /\ <<"unfiled">> \in Seq(Names)
      <3>1. Lower["unfiled"] = "unfiled" /\ "unfiled" \in Names
        BY NameAssumption
      <3> QED
        BY <3>1 DEF Lowered
    <2>3. CASE prefix = None
      BY <1>1, <2>1, <2>2, <2>3, KeyMeansPlace DEF Under
    <2>4. CASE prefix # None
      <3>1. Segments[prefix] \in Seq(Names) /\ Lowered(Segments[prefix]) = Segments[prefix]
        BY <2>4, TypeFacts, NameAssumption DEF PrefixesLowered
      <3>2. Lowered(Segments[prefix] \o <<"unfiled">>)
              = Lowered(Segments[prefix]) \o Lowered(<<"unfiled">>)
        BY <2>2, <3>1, LoweredPaths, Zenon
      <3>3. Lowered(Key(p)) = Key(p)
        BY <2>1, <2>2, <2>4, <3>1, <3>2 DEF Under
      <3> QED
        BY <3>3, KeyMeansPlace
    <2> QED
      BY <2>3, <2>4
  <1> QED
    BY <1>1, KeyMeansPlace

\* While the mailboxes are made, the run knows the path of each mailbox of the
\* account, and of each role whether it was there or who got it.
AccountKnown ==
    pc = "mailboxes" /\ ~dry /\ ~disturbed =>
        /\ places # {} => \A i \in DOMAIN boxes : Shown(i) \in DOMAIN byPath
        /\ \A i \in DOMAIN boxes :
              boxes[i].role \in taken \cup {None} \cup {Role[b] : b \in Box \ places}

\* So what it asks for is not there.
LEMMA NotRefused ==
    ASSUME PrefixesLowered, Types, MappingFaithful, AccountKnown, pc = "mailboxes", ~dry,
           NEW p, Turn(p), Key(p) \notin DOMAIN byPath, Refused(Request(p))
    PROVE  disturbed
  <1> SUFFICES ASSUME ~disturbed PROVE FALSE
    BY TypeFacts
  <1>1. p \in places /\ p \in Place
    BY TypeFacts, TurnOf
  <1>2. PICK i \in DOMAIN boxes :
            \/ boxes[i].parent = Request(p).parent /\ boxes[i].name = Request(p).name
            \/ Request(p).role # None /\ boxes[i].role = Request(p).role
    BY DEF Refused
  <1>3. CASE boxes[i].parent = Request(p).parent /\ boxes[i].name = Request(p).name
    <2>1. PathIn(boxes)[i] = (IF boxes[i].parent = 0 THEN <<>> ELSE PathIn(boxes)[boxes[i].parent])
                             \o Segments[boxes[i].name]
      BY TypeFacts, PathRecurses
    <2>2. Shown(i) = TruePath(p)
      BY <1>3, <2>1, RequestMeansPlace DEF Shown
    <2>3. Shown(i) \in DOMAIN byPath
      BY <1>1 DEF AccountKnown
    <2> QED
      BY <1>1, <2>2, <2>3, KeysLowered
  <1>4. CASE Request(p).role # None /\ boxes[i].role = Request(p).role
    <2>1. /\ p \in Box /\ Role[p] \notin taken /\ Request(p).role = Role[p]
          /\ Role[p] # None /\ boxes[i].role = Role[p]
      BY <1>4 DEF Request
    <2>2. PICK b \in Box \ places : Role[p] = Role[b]
      BY <2>1 DEF AccountKnown
    <2> QED
      BY <1>1, <2>1, <2>2, MailboxAssumption
  <1> QED
    BY <1>2, <1>3, <1>4

\* What it has made it knows.
LEMMA CreateKnown ==
    ASSUME Types, MappingFaithful, AccountKnown, NEW p, Create(p) PROVE AccountKnown'
  <1> SUFFICES ASSUME ~dry', ~disturbed' PROVE AccountKnown'
    BY DEF AccountKnown
  <1>1. /\ pc = "mailboxes" /\ Turn(p) /\ places' = places \ {p} /\ ~dry /\ ~disturbed
        /\ boxes' = Append(boxes, Request(p)) /\ taken' = taken
        /\ byPath' = IF p = Unfiled THEN byPath
                     ELSE [k \in DOMAIN byPath \cup {Key(p)} |->
                             IF k = Key(p) THEN Len(boxes) + 1 ELSE byPath[k]]
    BY DEF Create, Ensured
  <1>2. p \in places /\ p \in Place /\ (p = Unfiled => places = {Unfiled})
    BY <1>1, TypeFacts, TurnOf
  <1>3. /\ Request(p) \in Mailbox /\ Request(p).parent \in 0 .. Len(boxes)
    BY <1>1, RequestTypes
  <1>4. /\ DOMAIN boxes' = DOMAIN boxes \cup {Len(boxes) + 1}
        /\ \A i \in DOMAIN boxes : boxes'[i] = boxes[i]
        /\ boxes'[Len(boxes) + 1] = Request(p)
    <2>1. /\ Len(boxes') = Len(boxes) + 1 /\ Len(boxes) \in Nat
          /\ DOMAIN boxes = 1 .. Len(boxes) /\ DOMAIN boxes' = 1 .. Len(boxes')
          /\ \A i \in DOMAIN boxes : boxes'[i] = boxes[i]
          /\ boxes'[Len(boxes) + 1] = Request(p)
      BY <1>1, <1>3, TypeFacts, Grown
    <2> QED
      BY <2>1
  <1>5. ASSUME places' # {}, NEW i \in DOMAIN boxes' PROVE Shown(i)' \in DOMAIN byPath'
    <2>1. p # Unfiled /\ places # {}
      BY <1>1, <1>2, <1>5
    <2>2. DOMAIN byPath' = DOMAIN byPath \cup {Key(p)}
      BY <1>1, <2>1
    <2>3. CASE i \in DOMAIN boxes
      <3>1. Shown(i)' = Shown(i)
        BY <1>1, <1>3, <2>3, ShownStays DEF Shown
      <3>2. Shown(i) \in DOMAIN byPath
        BY <1>1, <2>1, <2>3 DEF AccountKnown
      <3> QED
        BY <2>2, <3>1, <3>2
    <2>4. CASE i = Len(boxes) + 1
      <3>1. PathIn(boxes')[i]
              = (IF Request(p).parent = 0 THEN <<>> ELSE PathIn(boxes)[Request(p).parent])
                \o Segments[Request(p).name]
        BY <1>1, <1>3, <2>4, TypeFacts, PathsKept
      <3>2. Shown(i)' = TruePath(p)
        BY <1>1, <3>1, RequestMeansPlace DEF Shown
      <3>3. Key(p) = TruePath(p)
        BY <1>2, <2>1, KeyMeansPlace
      <3> QED
        BY <2>2, <3>2, <3>3
    <2> QED
      BY <1>4, <2>3, <2>4
  <1>6. ASSUME NEW i \in DOMAIN boxes'
        PROVE  boxes'[i].role \in taken \cup {None} \cup {Role[b] : b \in Box \ places'}
    <2>1. CASE i \in DOMAIN boxes
      <3>1. boxes[i].role \in taken \cup {None} \cup {Role[b] : b \in Box \ places}
        BY <1>1, <2>1 DEF AccountKnown
      <3> QED
        BY <1>1, <1>4, <2>1, <3>1
    <2>2. CASE i = Len(boxes) + 1
      <3>1. boxes'[i].role = Request(p).role
        BY <1>4, <2>2
      <3>2. Request(p).role = None \/ (p \in Box /\ Request(p).role = Role[p])
        BY DEF Request
      <3> QED
        BY <1>1, <3>1, <3>2
    <2> QED
      BY <1>4, <2>1, <2>2
  <1> QED
    BY <1>1, <1>5, <1>6 DEF AccountKnown

\* The account is listed whole.
LEMMA ListMailboxesKnown == ASSUME Types, ListMailboxes PROVE AccountKnown'
  <1>1. /\ DOMAIN byPath' = {Lowered(PathIn(boxes)[i]) : i \in DOMAIN boxes}
        /\ taken' = {boxes[i].role : i \in DOMAIN boxes} /\ boxes' = boxes
    BY DEF ListMailboxes, target
  <1>2. \A i \in DOMAIN boxes' : Shown(i)' \in DOMAIN byPath' /\ boxes'[i].role \in taken'
    BY <1>1 DEF Shown
  <1> QED
    BY <1>2 DEF AccountKnown

\* No step forgets.
LEMMA KnownStep ==
    ASSUME Types, MappingFaithful, AccountKnown, [Next]_vars PROVE AccountKnown'
  <1>1. ASSUME pc' # "mailboxes" \/ dry' \/ disturbed' PROVE AccountKnown'
    BY <1>1 DEF AccountKnown
  <1>2. ASSUME UNCHANGED <<pc, dry, disturbed, places, boxes, byPath, taken>>
        PROVE  AccountKnown'
    BY <1>2 DEF AccountKnown, Shown
  <1>3. ASSUME NEW how, EndRun(how) PROVE AccountKnown'
    BY <1>1, <1>3 DEF EndRun
  <1>4. ASSUME NEW n, OwnerCreates(n) PROVE AccountKnown'
    BY <1>1, <1>4 DEF OwnerCreates
  <1>5. ASSUME NEW isDry, Begin(isDry) PROVE AccountKnown'
    BY <1>1, <1>5 DEF Begin
  <1>6. CASE ListMailboxes
    BY <1>6, ListMailboxesKnown
  <1>7. ASSUME NEW p, Reuse(p) PROVE AccountKnown'
    <2>1. /\ UNCHANGED <<pc, dry, disturbed, boxes, byPath, taken>> /\ places' = places \ {p}
      BY <1>7 DEF Reuse, Ensured
    <2>2. \A x : x \in {Role[b] : b \in Box \ places} => x \in {Role[b] : b \in Box \ places'}
      BY <2>1
    <2>3. places' # {} => places # {}
      BY <2>1
    <2> QED
      BY <2>1, <2>2, <2>3 DEF AccountKnown, Shown
  <1>8. ASSUME NEW p, Create(p) PROVE AccountKnown'
    BY <1>8, CreateKnown
  <1>9. ASSUME NEW p, CreateRefused(p) \/ CreateAnswerLost(p) PROVE AccountKnown'
    BY <1>3, <1>9 DEF CreateRefused, CreateAnswerLost
  <1>10. CASE MailboxesReady
    BY <1>1, <1>10 DEF MailboxesReady
  <1>11. ASSUME NEW m, SkipExisting(m) \/ PassOver(m) \/ Import(m) \/ ImportFails(m)
         PROVE  AccountKnown'
    <2>1. pc' = "import"
      BY <1>11 DEF SkipExisting, PassOver, Import, ImportFails, Due, Considered
    <2> QED
      BY <1>1, <2>1
  <1>12. ASSUME NEW m, ReadFails(m) PROVE AccountKnown'
    BY <1>3, <1>12 DEF ReadFails
  <1>13. CASE Stop \/ Interrupted \/ Complete
    BY <1>3, <1>13 DEF Stop, Interrupted, Complete
  <1>14. CASE Cancel \/ UNCHANGED vars
    <2>1. UNCHANGED <<pc, dry, disturbed, places, boxes, byPath, taken>>
      BY <1>14 DEF Cancel, vars, target, plan
    <2> QED
      BY <1>2, <2>1
  <1> QED
    BY <1>4, <1>5, <1>6, <1>7, <1>8, <1>9, <1>10, <1>11, <1>12, <1>13, <1>14 DEF Next

\* A run fails for a reason.
LEMMA CleanStep ==
    ASSUME PrefixesLowered, Types, MappingFaithful, AccountKnown, CleanRunSucceeds, [Next]_vars
    PROVE  CleanRunSucceeds'
  <1>1. Selected' = Selected /\ \A m : Readable(m)' = Readable(m)
    BY BoxesGrow, GivenStays
  <1>2. ASSUME outcome' = outcome, disturbed' = disturbed PROVE CleanRunSucceeds'
    BY <1>1, <1>2 DEF CleanRunSucceeds
  <1>3. ASSUME outcome' # "failed" \/ disturbed' \/ \E m \in Selected : ~Readable(m)
        PROVE  CleanRunSucceeds'
    BY <1>1, <1>3 DEF CleanRunSucceeds
  <1>4. ASSUME NEW n, OwnerCreates(n) PROVE CleanRunSucceeds'
    BY <1>3, <1>4 DEF OwnerCreates
  <1>5. ASSUME NEW isDry, Begin(isDry) PROVE CleanRunSucceeds'
    BY <1>3, <1>5 DEF Begin
  <1>6. CASE ListMailboxes \/ MailboxesReady
    BY <1>2, <1>6 DEF ListMailboxes, MailboxesReady, PassOver
  <1>7. ASSUME NEW p, Reuse(p) \/ Create(p) PROVE CleanRunSucceeds'
    BY <1>2, <1>7 DEF Reuse, Create, Ensured
  <1>8. ASSUME NEW p, CreateRefused(p) PROVE CleanRunSucceeds'
    <2>1. disturbed
      BY <1>8, NotRefused DEF CreateRefused
    <2> QED
      BY <1>3, <1>8, <2>1 DEF CreateRefused
  <1>9. ASSUME NEW p, CreateAnswerLost(p) PROVE CleanRunSucceeds'
    BY <1>3, <1>9 DEF CreateAnswerLost
  <1>10. ASSUME NEW m, SkipExisting(m) \/ PassOver(m) \/ Import(m) PROVE CleanRunSucceeds'
    BY <1>2, <1>10 DEF SkipExisting, PassOver, Import, Considered
  <1>11. ASSUME NEW m, ImportFails(m) PROVE CleanRunSucceeds'
    BY <1>3, <1>11 DEF ImportFails
  <1>12. ASSUME NEW m, ReadFails(m) PROVE CleanRunSucceeds'
    <2>1. m \in Selected /\ ~Readable(m)
      BY <1>12, TypeFacts DEF ReadFails, Due
    <2> QED
      BY <1>3, <2>1
  <1>13. CASE Stop \/ Interrupted \/ Complete
    BY <1>3, <1>13 DEF Stop, Interrupted, Complete, EndRun
  <1>14. CASE Cancel \/ UNCHANGED vars
    BY <1>2, <1>14 DEF Cancel, vars
  <1> QED
    BY <1>4, <1>5, <1>6, <1>7, <1>8, <1>9, <1>10, <1>11, <1>12, <1>13, <1>14 DEF Next

\* A run that meets no fault and no change by the owner fails only on a damaged
\* archive: after any number of runs that stopped half-way it never asks for a
\* mailbox whose name or role is taken.
THEOREM CleanRunsSucceed ==
    ASSUME PrefixesLowered PROVE Spec => []CleanRunSucceeds
  <1>1. Init => AccountKnown /\ CleanRunSucceeds
    BY DEF Init, AccountKnown, CleanRunSucceeds
  <1>2. Types /\ MappingFaithful /\ AccountKnown /\ CleanRunSucceeds /\ [Next]_vars
          => (AccountKnown /\ CleanRunSucceeds)'
    BY KnownStep, CleanStep
  <1> QED
    BY <1>1, <1>2, FaithfulAlways, PTL DEF Spec

-----------------------------------------------------------------------------
(* A restore does what the dry run before it said.                          *)

\* The paths still to be made for some places, when others are known.
Missing(S, known) == {Key(p) : p \in S} \ known

Skips(m) == Dedupe /\ Finds(m)

\* The paths the account shows, and what a run that nothing disturbs would do.
PathsShown == {Shown(i) : i \in DOMAIN boxes}
Forecast == [created |-> Cardinality(Missing(Places, PathsShown)),
             imported |-> Cardinality({m \in Selected : ~Skips(m)})]

\* A dry run counts towards the forecast, a restore towards what was foretold.
ForetoldInv ==
    /\ pc \in {"idle", "list"} /\ foretold # Unknown => foretold = Forecast
    /\ pc \in {"mailboxes", "import"} /\ dry /\ ~disturbed =>
          /\ summary.created + Cardinality(Missing(places, DOMAIN byPath))
               = Cardinality(Missing(Places, PathsShown))
          /\ summary.skipped + Cardinality({m \in todo : Skips(m)})
               = Cardinality({m \in Selected : Skips(m)})
    /\ pc \in {"mailboxes", "import"} /\ ~dry /\ ~disturbed /\ foretold # Unknown =>
          foretold = [created |-> summary.created + Cardinality(Missing(places, DOMAIN byPath)),
                      imported |-> summary.imported + Cardinality({m \in todo : ~Skips(m)})]

\* A run makes finitely many paths, of finitely many messages.
LEMMA FiniteCounts ==
    /\ \A S, known : S \subseteq Place =>
          IsFiniteSet(Missing(S, known)) /\ Cardinality(Missing(S, known)) \in Nat
    /\ \A T : T \subseteq Selected => IsFiniteSet(T) /\ Cardinality(T) \in Nat
  <1>1. ASSUME NEW S, NEW known, S \subseteq Place
        PROVE  IsFiniteSet(Missing(S, known)) /\ Cardinality(Missing(S, known)) \in Nat
    <2> DEFINE K == {Key(p) : p \in S}
               f == [p \in S |-> Key(p)]
    <2>1. f \in Surjection(S, K)
      BY DEF Surjection
    <2>2. IsFiniteSet(S)
      BY <1>1, PlacesFinite
    <2> HIDE DEF f
    <2>3. IsFiniteSet(K)
      <3> HIDE DEF K
      <3> QED
        BY <2>1, <2>2, FS_Surjection
    <2>4. Missing(S, known) = K \ known
      BY DEF Missing
    <2> HIDE DEF K
    <2> QED
      BY <2>3, <2>4, FS_Difference, FS_CardinalityType
  <1>2. ASSUME NEW T, T \subseteq Selected PROVE IsFiniteSet(T) /\ Cardinality(T) \in Nat
    <2>1. T \subseteq Msg
      BY <1>2 DEF Selected, Archived
    <2> QED
      BY <2>1, FS_Subset, FS_CardinalityType, MessageAssumption
  <1> QED
    BY <1>1, <1>2

\* One place less: nothing less to be made when its path is known, else one path.
LEMMA OnePlaceLess ==
    ASSUME NEW S, S \subseteq Place, NEW p \in S, NEW known
    PROVE  /\ Key(p) \in known => Missing(S \ {p}, known) = Missing(S, known)
           /\ Key(p) \notin known =>
                Cardinality(Missing(S, known))
                  = Cardinality(Missing(S \ {p}, known \cup {Key(p)})) + 1
  <1>1. Key(p) \in known => Missing(S \ {p}, known) = Missing(S, known)
    BY DEF Missing
  <1>2. ASSUME Key(p) \notin known
        PROVE  Cardinality(Missing(S, known))
                 = Cardinality(Missing(S \ {p}, known \cup {Key(p)})) + 1
    <2>1. /\ Missing(S \ {p}, known \cup {Key(p)}) = Missing(S, known) \ {Key(p)}
          /\ Key(p) \in Missing(S, known)
      BY <1>2 DEF Missing
    <2>2. IsFiniteSet(Missing(S, known)) /\ Cardinality(Missing(S, known)) \in Nat
      BY FiniteCounts
    <2>3. Cardinality(Missing(S, known) \ {Key(p)}) = Cardinality(Missing(S, known)) - 1
      BY <2>1, <2>2, FS_RemoveElement
    <2>4. Cardinality(Missing(S \ {p}, known \cup {Key(p)})) = Cardinality(Missing(S, known)) - 1
      BY <2>1, <2>3, Zenon
    <2> QED
      BY <2>2, <2>4
  <1> QED
    BY <1>1, <1>2

\* One message less.
LEMMA OneMessageLess ==
    ASSUME NEW T, T \subseteq Selected, NEW m \in T
    PROVE  Cardinality(T) = Cardinality(T \ {m}) + 1
  BY FiniteCounts, FS_RemoveElement

\* While account, archive and settings stay, so do the forecast and what is found.
LEMMA ForecastStays ==
    ASSUME UNCHANGED <<boxes, mail, given>>
    PROVE  /\ Selected' = Selected /\ Places' = Places /\ PathsShown' = PathsShown
           /\ Forecast' = Forecast /\ \A m : Skips(m)' = Skips(m)
           /\ \A S, known : Missing(S, known)' = Missing(S, known)
           /\ \A T : /\ {m \in T : Skips(m)'} = {m \in T : Skips(m)}
                     /\ {m \in T : ~Skips(m)'} = {m \in T : ~Skips(m)}
  <1>1. Selected' = Selected /\ Places' = Places /\ \A p : Key(p)' = Key(p)
    BY GivenStays
  <1>2. PathsShown' = PathsShown
    BY DEF PathsShown, Shown
  <1>3. \A m : Skips(m)' = Skips(m)
    BY DEF Skips, Finds
  <1>4. Missing(Places, PathsShown)' = Missing(Places, PathsShown)
    BY <1>1, <1>2 DEF Missing
  <1>5. {m \in Selected : ~Skips(m)}' = {m \in Selected : ~Skips(m)}
    BY <1>1, <1>3
  <1>6. Forecast' = Forecast
    BY <1>4, <1>5 DEF Forecast
  <1>7. \A S, known : Missing(S, known)' = Missing(S, known)
    BY <1>1 DEF Missing
  <1> QED
    BY <1>1, <1>2, <1>3, <1>6, <1>7

\* What is kept when a run goes no further.
LEMMA ForetoldKept ==
    ASSUME Types, ForetoldInv,
           UNCHANGED <<boxes, mail, given, foretold, dry, disturbed, byPath, places, todo, summary>>,
           pc' \in {"idle", "list"} => pc \in {"idle", "list"},
           pc' \in {"mailboxes", "import"} => pc \in {"mailboxes", "import"}
    PROVE  ForetoldInv'
  <1>1. /\ Selected' = Selected /\ PathsShown' = PathsShown
        /\ Forecast' = Forecast /\ \A m : Skips(m)' = Skips(m)
        /\ Missing(places, DOMAIN byPath)' = Missing(places, DOMAIN byPath)
        /\ Missing(Places, PathsShown)' = Missing(Places, PathsShown)
    BY ForecastStays DEF Missing
  <1>2. /\ {m \in todo : Skips(m)}' = {m \in todo : Skips(m)}
        /\ {m \in Selected : Skips(m)}' = {m \in Selected : Skips(m)}
        /\ {m \in todo : ~Skips(m)}' = {m \in todo : ~Skips(m)}
    BY <1>1
  <1>3. /\ Cardinality(Missing(places, DOMAIN byPath))' = Cardinality(Missing(places, DOMAIN byPath))
        /\ Cardinality(Missing(Places, PathsShown))' = Cardinality(Missing(Places, PathsShown))
        /\ Cardinality({m \in todo : Skips(m)})' = Cardinality({m \in todo : Skips(m)})
        /\ Cardinality({m \in Selected : Skips(m)})' = Cardinality({m \in Selected : Skips(m)})
        /\ Cardinality({m \in todo : ~Skips(m)})' = Cardinality({m \in todo : ~Skips(m)})
    BY <1>1, <1>2
  <1> QED
    BY <1>1, <1>3 DEF ForetoldInv

\* The plan is made: all of it is to do.
LEMMA ListMailboxesForetold ==
    ASSUME Types, ForetoldInv, ListMailboxes PROVE ForetoldInv'
  <1>1. /\ pc = "list" /\ pc' = "mailboxes" /\ places' = Places /\ todo' = Selected
        /\ DOMAIN byPath' = {Lowered(PathIn(boxes)[i]) : i \in DOMAIN boxes}
        /\ UNCHANGED <<boxes, mail, given, dry, summary, disturbed, foretold>>
    BY DEF ListMailboxes, target
  <1>2. DOMAIN byPath' = PathsShown
    BY <1>1 DEF PathsShown, Shown
  <1>3. summary'.created = 0 /\ summary'.imported = 0 /\ summary'.skipped = 0
    BY <1>1 DEF Types, ControlInv, NoSummary
  <1>4. /\ Missing(places, DOMAIN byPath)' = Missing(Places, PathsShown)
        /\ Missing(Places, PathsShown)' = Missing(Places, PathsShown)
        /\ {m \in todo : Skips(m)}' = {m \in Selected : Skips(m)}
        /\ {m \in Selected : Skips(m)}' = {m \in Selected : Skips(m)}
        /\ {m \in todo : ~Skips(m)}' = {m \in Selected : ~Skips(m)}
    BY <1>1, <1>2, ForecastStays
  <1>5. /\ Cardinality(Missing(Places, PathsShown)) \in Nat
        /\ Cardinality({m \in Selected : Skips(m)}) \in Nat
        /\ Cardinality({m \in Selected : ~Skips(m)}) \in Nat
    BY FiniteCounts, PlanCloses
  <1>6. /\ Cardinality(Missing(places, DOMAIN byPath))' = Cardinality(Missing(Places, PathsShown))
        /\ Cardinality(Missing(Places, PathsShown))' = Cardinality(Missing(Places, PathsShown))
        /\ Cardinality({m \in todo : Skips(m)})' = Cardinality({m \in Selected : Skips(m)})
        /\ Cardinality({m \in Selected : Skips(m)})' = Cardinality({m \in Selected : Skips(m)})
        /\ Cardinality({m \in todo : ~Skips(m)})' = Cardinality({m \in Selected : ~Skips(m)})
    BY <1>4
  <1>7. foretold # Unknown => foretold = Forecast
    BY <1>1 DEF ForetoldInv
  <1>8. /\ 0 + Cardinality(Missing(Places, PathsShown)) = Cardinality(Missing(Places, PathsShown))
        /\ 0 + Cardinality({m \in Selected : Skips(m)}) = Cardinality({m \in Selected : Skips(m)})
        /\ 0 + Cardinality({m \in Selected : ~Skips(m)}) = Cardinality({m \in Selected : ~Skips(m)})
    BY <1>5
  <1> QED
    BY <1>1, <1>3, <1>6, <1>7, <1>8 DEF ForetoldInv, Forecast

\* The counters of a run as they are used.
LEMMA Counters ==
    ASSUME Types
    PROVE  /\ summary.created \in Nat /\ summary.imported \in Nat
           /\ summary.skipped \in Nat /\ summary.failed \in Nat
  BY TypeFacts DEF NoSummary

\* A place is ensured: what is made is no longer to be made.
LEMMA EnsuredForetold ==
    ASSUME Types, ForetoldInv, NEW p, Reuse(p) \/ Create(p) PROVE ForetoldInv'
  <1>1. /\ pc = "mailboxes" /\ pc' = pc /\ Turn(p) /\ places' = places \ {p}
        /\ UNCHANGED <<mail, given, dry, todo, disturbed, foretold>>
        /\ dry => boxes' = boxes
    BY DEF Reuse, Create, Ensured
  <1>2. /\ p \in places /\ p \in Place /\ places \subseteq Place
        /\ p = Unfiled => places = {Unfiled}
    BY <1>1, TypeFacts, TurnOf
  <1>3. /\ summary'.imported = summary.imported /\ summary'.skipped = summary.skipped
        /\ summary'.created \in Nat
        /\ summary'.created + Cardinality(Missing(places', DOMAIN byPath'))
             = summary.created + Cardinality(Missing(places, DOMAIN byPath))
    <2>1. CASE Reuse(p)
      <3>1. Key(p) \in DOMAIN byPath /\ byPath' = byPath /\ summary' = summary
        BY <2>1 DEF Reuse
      <3>2. Missing(places \ {p}, DOMAIN byPath) = Missing(places, DOMAIN byPath)
        BY <1>2, <3>1, OnePlaceLess
      <3> QED
        BY <1>1, <3>1, <3>2, Counters
    <2>2. CASE Create(p)
      <3>1. /\ Key(p) \notin DOMAIN byPath
            /\ DOMAIN byPath' = (IF p = Unfiled THEN DOMAIN byPath ELSE DOMAIN byPath \cup {Key(p)})
            /\ summary' = [summary EXCEPT !.created = @ + 1]
        BY <2>2 DEF Create
      <3>2. /\ summary'.created = summary.created + 1
            /\ summary'.imported = summary.imported /\ summary'.skipped = summary.skipped
        BY <3>1, TypeFacts DEF NoSummary
      <3>3. Missing(places \ {p}, DOMAIN byPath') = Missing(places \ {p}, DOMAIN byPath \cup {Key(p)})
        <4>1. CASE p = Unfiled
          BY <1>2, <4>1 DEF Missing
        <4>2. CASE p # Unfiled
          BY <3>1, <4>2
        <4> QED
          BY <4>1, <4>2
      <3>4. /\ Cardinality(Missing(places, DOMAIN byPath))
                 = Cardinality(Missing(places \ {p}, DOMAIN byPath \cup {Key(p)})) + 1
            /\ Cardinality(Missing(places \ {p}, DOMAIN byPath \cup {Key(p)})) \in Nat
        BY <1>2, <3>1, OnePlaceLess, FiniteCounts
      <3>5. Cardinality(Missing(places', DOMAIN byPath'))
              = Cardinality(Missing(places \ {p}, DOMAIN byPath \cup {Key(p)}))
        BY <1>1, <3>3, Zenon
      <3> QED
        BY <3>2, <3>4, <3>5, Counters
    <2> QED
      BY <2>1, <2>2
  <1>4. \A S, known : Missing(S, known)' = Missing(S, known)
    BY <1>1, GivenStays DEF Missing
  <1>5. /\ Selected' = Selected /\ Places' = Places
        /\ \A m : Skips(m)' = Skips(m)
        /\ dry => PathsShown' = PathsShown
    BY <1>1, GivenStays DEF Skips, Finds, PathsShown, Shown
  <1>6. /\ {m \in todo : Skips(m)}' = {m \in todo : Skips(m)}
        /\ {m \in Selected : Skips(m)}' = {m \in Selected : Skips(m)}
        /\ {m \in todo : ~Skips(m)}' = {m \in todo : ~Skips(m)}
        /\ Missing(places, DOMAIN byPath)' = Missing(places', DOMAIN byPath')
        /\ dry => Missing(Places, PathsShown)' = Missing(Places, PathsShown)
    <2>1. Missing(places, DOMAIN byPath)' = Missing(places', DOMAIN byPath')
      BY <1>1, GivenStays DEF Missing
    <2>2. dry => Missing(Places, PathsShown)' = Missing(Places, PathsShown)
      BY <1>1, <1>5, GivenStays DEF Missing
    <2> QED
      BY <1>1, <1>5, <2>1, <2>2
  <1>7. /\ Cardinality({m \in todo : Skips(m)})' = Cardinality({m \in todo : Skips(m)})
        /\ Cardinality({m \in Selected : Skips(m)})' = Cardinality({m \in Selected : Skips(m)})
        /\ Cardinality({m \in todo : ~Skips(m)})' = Cardinality({m \in todo : ~Skips(m)})
        /\ Cardinality(Missing(places, DOMAIN byPath))' = Cardinality(Missing(places', DOMAIN byPath'))
        /\ dry => Cardinality(Missing(Places, PathsShown))' = Cardinality(Missing(Places, PathsShown))
    BY <1>6
  <1> QED
    BY <1>1, <1>3, <1>7 DEF ForetoldInv

\* A message is passed by or skipped: it was to be.
LEMMA PassedForetold ==
    ASSUME Types, ForetoldInv, NEW m \in Msg, SkipExisting(m) \/ PassOver(m) PROVE ForetoldInv'
  <1>1. /\ pc = "import" /\ pc' = pc /\ m \in todo /\ todo' = todo \ {m} /\ summary'.created = summary.created
        /\ summary'.imported = summary.imported
        /\ UNCHANGED <<boxes, mail, given, dry, byPath, places, disturbed, foretold>>
        /\ \/ Skips(m) /\ summary'.skipped = summary.skipped + 1
           \/ ~Skips(m) /\ dry /\ summary'.skipped = summary.skipped
    <2>1. CASE SkipExisting(m)
      <3>1. pc = "import" /\ m \in todo /\ Skips(m) /\ Considered(m, "skipped") /\ UNCHANGED <<mail, disturbed>>
        BY <2>1 DEF SkipExisting, Skips
      <3> QED
        BY <3>1, Counted DEF plan
    <2>2. CASE PassOver(m)
      BY <2>2 DEF PassOver, Due, Skips, target, plan
    <2> QED
      BY <2>1, <2>2
  <1>2. /\ Selected' = Selected /\ PathsShown' = PathsShown /\ \A n : Skips(n)' = Skips(n)
        /\ Missing(places, DOMAIN byPath)' = Missing(places, DOMAIN byPath)
        /\ Missing(Places, PathsShown)' = Missing(Places, PathsShown)
    BY <1>1, ForecastStays DEF Missing
  <1>3. /\ Cardinality(Missing(places, DOMAIN byPath))' = Cardinality(Missing(places, DOMAIN byPath))
        /\ Cardinality(Missing(Places, PathsShown))' = Cardinality(Missing(Places, PathsShown))
        /\ Cardinality({n \in Selected : Skips(n)})' = Cardinality({n \in Selected : Skips(n)})
    <2>1. {n \in Selected : Skips(n)}' = {n \in Selected : Skips(n)}
      BY <1>2
    <2> QED
      BY <1>2, <2>1
  <1>4. todo \subseteq Selected
    BY TypeFacts
  <1> DEFINE found == {n \in todo : Skips(n)}
             due   == {n \in todo : ~Skips(n)}
  <1>5. CASE Skips(m)
    <2>1. found' = found \ {m} /\ due' = due /\ m \in found /\ found \subseteq Selected
      BY <1>1, <1>2, <1>4, <1>5
    <2>2. Cardinality(found) = Cardinality(found') + 1 /\ Cardinality(due') = Cardinality(due)
      <3> HIDE DEF found, due
      <3> QED
        BY <2>1, OneMessageLess
    <2>3. Cardinality(found') \in Nat
      BY <2>1, FiniteCounts
    <2>4. summary'.skipped + Cardinality(found') = summary.skipped + Cardinality(found)
      <3> HIDE DEF found
      <3> QED
        BY <1>1, <1>5, <2>2, <2>3, Counters
    <2> QED
      BY <1>1, <1>3, <2>2, <2>4 DEF ForetoldInv
  <1>6. CASE ~Skips(m)
    <2>1. found' = found /\ dry /\ summary'.skipped = summary.skipped
      BY <1>1, <1>2, <1>6
    <2> QED
      BY <1>1, <1>3, <2>1 DEF ForetoldInv
  <1> QED
    BY <1>5, <1>6

\* A message is imported: it was due, and no other is found for it.
LEMMA ImportForetold ==
    ASSUME DistinctIds, Types, ForetoldInv, NEW m \in Msg, Import(m) PROVE ForetoldInv'
  <1>1. /\ pc = "import" /\ m \in todo /\ Due(m) /\ ~dry /\ mail' = Imported(m)
        /\ ~Skips(m) /\ Considered(m, "imported") /\ UNCHANGED disturbed
    BY DEF Import, Due, Skips
  <1>2. /\ pc' = pc /\ dry' = dry /\ todo' = todo \ {m} /\ summary'.created = summary.created
        /\ summary'.imported = summary.imported + 1
        /\ UNCHANGED <<boxes, given, byPath, places, foretold>>
    BY <1>1, Counted DEF plan
  <1>3. todo \subseteq Selected /\ todo \subseteq Msg
    BY TypeFacts DEF Selected, Archived
  <1>4. ASSUME NEW n \in todo, n # m PROVE Skips(n)' = Skips(n)
    <2> DEFINE r == [msg |-> m, in |-> {mapping[b] : b \in Resolved(m)}]
    <2>1. r \in MailRecord /\ mail' = Append(mail, r) /\ r.msg = m
      BY <1>1, ImportedMail DEF Imported
    <2>2. /\ DOMAIN mail' = DOMAIN mail \cup {Len(mail) + 1}
          /\ \A i \in DOMAIN mail : mail'[i] = mail[i]
          /\ mail'[Len(mail) + 1].msg = m
      <3> HIDE DEF r
      <3> QED
        BY <2>1, TypeFacts, MailWith
    <2>3. n \in Msg /\ (MessageId[n] # None => MessageId[m] # MessageId[n])
      BY <1>3, <1>4 DEF DistinctIds
    <2>4. ~(Size[m] >= Size[n] /\ Size[m] < Size[n])
      <3>1. Size[m] \in Int /\ Size[n] \in Int
        BY <2>3, MessageAssumption
      <3> QED
        BY <3>1
    <2>5. Finds(n)' = Finds(n)
      <3> DEFINE Match(x) ==
                     IF MessageId[n] # None THEN MessageId[x] = MessageId[n]
                     ELSE /\ Received[n] - 1 <= Received[x] /\ Received[x] < Received[n] + 1
                          /\ Size[x] >= Size[n] /\ Size[x] < Size[n]
      <3>1. Finds(n) <=> \E i \in DOMAIN mail : Match(mail[i].msg)
        BY DEF Finds
      <3>2. Finds(n)' <=> \E i \in DOMAIN mail' : Match(mail'[i].msg)
        BY DEF Finds
      <3>3. ~Match(m)
        BY <2>3, <2>4
      <3> HIDE DEF Match
      <3>4. (\E i \in DOMAIN mail' : Match(mail'[i].msg)) <=> (\E i \in DOMAIN mail : Match(mail[i].msg))
        BY <2>2, <3>3
      <3> QED
        BY <3>1, <3>2, <3>4 DEF Finds
    <2> QED
      BY <2>5 DEF Skips
  <1> DEFINE due == {n \in todo : ~Skips(n)}
  <1>5. due' = due \ {m} /\ m \in due /\ due \subseteq Selected
    BY <1>1, <1>2, <1>3, <1>4
  <1>6. summary'.imported + Cardinality(due') = summary.imported + Cardinality(due)
    <2>1. /\ Cardinality(due) = Cardinality(due \ {m}) + 1
          /\ Cardinality(due \ {m}) \in Nat
      <3> HIDE DEF due
      <3>1. due \ {m} \subseteq Selected
        BY <1>5
      <3> QED
        BY <1>5, <3>1, OneMessageLess, FiniteCounts
    <2>2. Cardinality(due') = Cardinality(due \ {m})
      BY <1>5, Zenon
    <2> HIDE DEF due
    <2> QED
      BY <1>2, <2>1, <2>2, Counters
  <1>7. Missing(places, DOMAIN byPath)' = Missing(places, DOMAIN byPath)
    BY <1>2, GivenStays DEF Missing
  <1>8. Cardinality(Missing(places, DOMAIN byPath))' = Cardinality(Missing(places, DOMAIN byPath))
    BY <1>7
  <1> QED
    BY <1>1, <1>2, <1>6, <1>8 DEF ForetoldInv

\* A run that is complete: a dry one has reached its forecast.
LEMMA CompleteForetold == ASSUME Types, ForetoldInv, Complete PROVE ForetoldInv'
  <1>1. /\ pc = "import" /\ pc' = "idle" /\ todo = {} /\ UNCHANGED <<boxes, mail, given>>
        /\ foretold' = IF dry /\ ~disturbed
                       THEN [created |-> summary.created,
                             imported |-> Cardinality(Selected) - summary.skipped]
                       ELSE Unknown
    BY DEF Complete, EndRun
  <1>2. Forecast' = Forecast
    BY <1>1, ForecastStays
  <1>3. ASSUME dry, ~disturbed
        PROVE  /\ summary.created = Cardinality(Missing(Places, PathsShown))
               /\ Cardinality(Selected) - summary.skipped = Cardinality({m \in Selected : ~Skips(m)})
    <2>1. /\ summary.created + Cardinality(Missing(places, DOMAIN byPath))
               = Cardinality(Missing(Places, PathsShown))
          /\ summary.skipped + Cardinality({m \in todo : Skips(m)})
               = Cardinality({m \in Selected : Skips(m)})
      BY <1>1, <1>3 DEF ForetoldInv
    <2>2. Missing(places, DOMAIN byPath) = {} /\ {m \in todo : Skips(m)} = {}
      BY <1>1 DEF Types, ControlInv, Missing
    <2>3. /\ Cardinality(Missing(places, DOMAIN byPath)) = 0
          /\ Cardinality({m \in todo : Skips(m)}) = 0
      BY <2>2, FS_EmptySet
    <2>4. /\ summary.created = Cardinality(Missing(Places, PathsShown))
          /\ summary.skipped = Cardinality({m \in Selected : Skips(m)})
      BY <2>1, <2>3, Counters
    <2> DEFINE found == {m \in Selected : Skips(m)}
               due   == {m \in Selected : ~Skips(m)}
    <2>5. due = Selected \ found /\ Selected \cap found = found
      OBVIOUS
    <2>6. Cardinality(due) = Cardinality(Selected) - Cardinality(found)
      <3>1. IsFiniteSet(Selected)
        BY FiniteCounts
      <3> HIDE DEF due, found
      <3> QED
        BY <2>5, <3>1, FS_Difference
    <2> HIDE DEF due
    <2>7. Cardinality(Selected) - summary.skipped = Cardinality(due)
      BY <2>4, <2>6
    <2> QED
      BY <2>4, <2>7 DEF due
  <1>4. foretold' # Unknown => foretold' = Forecast
    BY <1>1, <1>3 DEF Forecast
  <1> QED
    BY <1>1, <1>2, <1>4 DEF ForetoldInv

\* No step breaks it.
LEMMA ForetoldStep ==
    ASSUME DistinctIds, Types, ForetoldInv, [Next]_vars PROVE ForetoldInv'
  <1>1. ASSUME NEW how, how # "complete", EndRun(how) PROVE ForetoldInv'
    BY <1>1 DEF EndRun, ForetoldInv
  <1>2. ASSUME NEW n, OwnerCreates(n) PROVE ForetoldInv'
    BY <1>2 DEF OwnerCreates, ForetoldInv
  <1>3. ASSUME NEW isDry, Begin(isDry) PROVE ForetoldInv'
    <2>1. pc = "idle" /\ pc' = "list" /\ UNCHANGED <<boxes, mail, given, foretold>>
      BY <1>3 DEF Begin, target
    <2>2. Forecast' = Forecast
      BY <2>1, ForecastStays
    <2> QED
      BY <2>1, <2>2 DEF ForetoldInv
  <1>4. CASE ListMailboxes
    BY <1>4, ListMailboxesForetold
  <1>5. ASSUME NEW p, Reuse(p) \/ Create(p) PROVE ForetoldInv'
    BY <1>5, EnsuredForetold
  <1>6. ASSUME NEW p, CreateRefused(p) \/ CreateAnswerLost(p) PROVE ForetoldInv'
    BY <1>1, <1>6 DEF CreateRefused, CreateAnswerLost
  <1>7. CASE MailboxesReady \/ Cancel \/ UNCHANGED vars
    <2>1. /\ UNCHANGED <<boxes, mail, given, foretold, dry, disturbed, byPath, places, todo, summary>>
          /\ pc' = pc \/ (pc = "mailboxes" /\ pc' = "import")
      BY <1>7 DEF MailboxesReady, Cancel, vars, target, plan
    <2> QED
      BY <2>1, ForetoldKept
  <1>8. ASSUME NEW m \in Msg, SkipExisting(m) \/ PassOver(m) PROVE ForetoldInv'
    BY <1>8, PassedForetold
  <1>9. ASSUME NEW m \in Msg, Import(m) PROVE ForetoldInv'
    BY <1>9, ImportForetold
  <1>10. ASSUME NEW m, ImportFails(m) PROVE ForetoldInv'
    <2>1. pc = "import" /\ pc' = pc /\ disturbed' = TRUE
      BY <1>10 DEF ImportFails, Due, Considered
    <2> QED
      BY <2>1 DEF ForetoldInv
  <1>11. ASSUME NEW m, ReadFails(m) PROVE ForetoldInv'
    BY <1>1, <1>11 DEF ReadFails
  <1>12. CASE Stop \/ Interrupted
    BY <1>1, <1>12 DEF Stop, Interrupted
  <1>13. CASE Complete
    BY <1>13, CompleteForetold
  <1> QED
    BY <1>2, <1>3, <1>4, <1>5, <1>6, <1>7, <1>8, <1>9, <1>10, <1>11, <1>12, <1>13 DEF Next

\* Only the end of a run is the end of it, and then all that was foretold is done.
LEMMA ForetoldDone ==
    ASSUME Types, ForetoldInv, [Next]_vars, outcome = "running", outcome' = "complete",
           ~dry, ~disturbed, foretold # Unknown
    PROVE  foretold = [created |-> summary.created, imported |-> summary.imported]
  <1>1. Complete
    <2>1. ~(\E n \in OwnerNames : OwnerCreates(n)) /\ ~(\E isDry \in BOOLEAN : Begin(isDry))
      BY DEF OwnerCreates, Begin
    <2>2. ~ListMailboxes /\ ~MailboxesReady /\ ~Cancel /\ ~(UNCHANGED vars)
      BY DEF ListMailboxes, MailboxesReady, Cancel, vars
    <2>3. \A how : EndRun(how) => how = "complete"
      BY DEF EndRun
    <2>4. \A p : ~Reuse(p) /\ ~Create(p) /\ ~CreateRefused(p) /\ ~CreateAnswerLost(p)
      BY <2>3 DEF Reuse, Create, CreateRefused, CreateAnswerLost, Ensured
    <2>5. \A m : ~SkipExisting(m) /\ ~PassOver(m) /\ ~Import(m) /\ ~ImportFails(m) /\ ~ReadFails(m)
      BY <2>3 DEF SkipExisting, PassOver, Import, ImportFails, ReadFails, Considered
    <2>6. ~Stop /\ ~Interrupted
      BY <2>3 DEF Stop, Interrupted
    <2> QED
      BY <2>1, <2>2, <2>4, <2>5, <2>6 DEF Next
  <1>2. pc = "import" /\ todo = {} /\ places = {}
    BY <1>1 DEF Complete, Types, ControlInv
  <1>3. Missing(places, DOMAIN byPath) = {} /\ {m \in todo : ~Skips(m)} = {}
    BY <1>2 DEF Missing
  <1>4. /\ Cardinality(Missing(places, DOMAIN byPath)) = 0
        /\ Cardinality({m \in todo : ~Skips(m)}) = 0
    BY <1>3, FS_EmptySet
  <1>5. /\ summary.created + 0 = summary.created /\ summary.imported + 0 = summary.imported
    BY Counters
  <1>6. foretold = [created |-> summary.created + Cardinality(Missing(places, DOMAIN byPath)),
                    imported |-> summary.imported + Cardinality({m \in todo : ~Skips(m)})]
    BY <1>2 DEF ForetoldInv
  <1> QED
    BY <1>4, <1>5, <1>6

\* A restore creates and imports exactly as many mailboxes and messages as the dry
\* run before it said, whatever the archive and the account (run_restore with
\* dry_run, which makes up ids and enters them in by_path).
THEOREM DryRunsForetell ==
    ASSUME DistinctIds PROVE Spec => DryRunForetells
  <1>1. Init => ForetoldInv
    BY DEF Init, ForetoldInv
  <1>2. Types /\ ForetoldInv /\ [Next]_vars => ForetoldInv'
    BY ForetoldStep
  <1>3. Types /\ ForetoldInv /\ [Next]_vars =>
          [outcome = "running" /\ outcome' = "complete" /\ ~dry /\ ~disturbed /\ foretold # Unknown
             => foretold = [created |-> summary.created, imported |-> summary.imported]]_vars
    BY ForetoldDone
  <1> QED
    BY <1>1, <1>2, <1>3, TypesAlways, PTL DEF Spec, DryRunForetells

=============================================================================
