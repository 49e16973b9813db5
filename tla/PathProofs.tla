----------------------------- MODULE PathProofs -----------------------------
(***************************************************************************)
(* What a text's detectors find, for any alphabet, terms, sizes and texts: *)
(* the automaton of a roster, the cascade and the resolution of overlaps,  *)
(* and a long text in chunks.  RunProofs draws on it.                      *)
(*                                                                         *)
(* A loop along the links of the automaton is a recursive function: that   *)
(* it has the value claimed is shown for any solution of its equation, by  *)
(* the shortest node at which it is not, and that there is a solution by   *)
(* stating one.                                                            *)
(***************************************************************************)
EXTENDS MCSessionVault, FiniteSetTheorems, WellFoundedInduction, TLAPS

(***************************************************************************)
(* The automaton of a roster (AhoCorasick): a node's failure link is its   *)
(* longest proper suffix in the trie, its dictionary link the longest that *)
(* is a term; after a text the automaton is at the longest suffix of it in *)
(* the trie, from which every occurrence of a term is found.               *)
(***************************************************************************)
Words == Seq(Bytes)

\* s is a suffix of w; a proper one.
Ends(s, w)   == Len(s) <= Len(w) /\ \A i \in 1 .. Len(s) : s[i] = w[Len(w) - Len(s) + i]
Proper(s, w) == Ends(s, w) /\ Len(s) < Len(w)

\* The longest of S that w ends with; the longest of S that is a proper suffix of n.
Longest(s, w, S)       == s \in S /\ Ends(s, w) /\ \A t \in S : Ends(t, w) => Ends(t, s)
LongestProper(s, n, S) == s \in S /\ Proper(s, n) /\ \A t \in S : Proper(t, n) => Ends(t, s)

-----------------------------------------------------------------------------
LEMMA SameWord ==
  ASSUME NEW s \in Words, NEW t \in Words, Len(s) = Len(t), \A i \in 1 .. Len(s) : s[i] = t[i]
  PROVE  s = t
BY DEF Words

LEMMA WordTypes ==
  ASSUME NEW w \in Words
  PROVE  Len(w) \in Nat /\ DOMAIN w = 1 .. Len(w) /\ (Len(w) = 0 <=> w = Roster!Root)
BY DEF Words, Roster!Root

LEMMA RootWord == Roster!Root \in Words /\ Len(Roster!Root) = 0
BY DEF Words, Roster!Root

LEMMA ChildWord ==
  ASSUME NEW n \in Words, NEW b \in Bytes
  PROVE  /\ Roster!Child(n, b) \in Words /\ Len(Roster!Child(n, b)) = Len(n) + 1 /\ Roster!Child(n, b) # Roster!Root
         /\ Roster!Child(n, b)[Len(n) + 1] = b /\ Roster!Last(Roster!Child(n, b)) = b
         /\ \A i \in 1 .. Len(n) : Roster!Child(n, b)[i] = n[i]
BY DEF Words, Roster!Root, Roster!Child, Roster!Last

LEMMA RootEnds == ASSUME NEW w \in Words PROVE Ends(Roster!Root, w)
BY RootWord, WordTypes DEF Ends

LEMMA EndsSelf == ASSUME NEW w \in Words PROVE Ends(w, w)
BY WordTypes DEF Ends

LEMMA EndsRoot == ASSUME NEW s \in Words, Ends(s, Roster!Root) PROVE s = Roster!Root
BY RootWord, WordTypes DEF Ends

LEMMA EndsThrough ==
  ASSUME NEW r \in Words, NEW s \in Words, NEW w \in Words, Ends(r, s), Ends(s, w)
  PROVE  Ends(r, w)
<1>1. Len(r) \in Nat /\ Len(s) \in Nat /\ Len(w) \in Nat /\ Len(r) <= Len(s) /\ Len(s) <= Len(w)
  BY WordTypes DEF Ends
<1>2. ASSUME NEW i \in 1 .. Len(r) PROVE r[i] = w[Len(w) - Len(r) + i]
  <2>1. r[i] = s[Len(s) - Len(r) + i] /\ Len(s) - Len(r) + i \in 1 .. Len(s)
    BY <1>1 DEF Ends
  <2>2. s[Len(s) - Len(r) + i] = w[Len(w) - Len(s) + (Len(s) - Len(r) + i)]
    BY <2>1 DEF Ends
  <2>3. Len(w) - Len(s) + (Len(s) - Len(r) + i) = Len(w) - Len(r) + i
    BY <1>1
  <2> QED BY <2>1, <2>2, <2>3
<1> QED BY <1>1, <1>2 DEF Ends

\* Of two suffixes of a word the shorter is one of the longer.
LEMMA EndsNested ==
  ASSUME NEW r \in Words, NEW s \in Words, NEW w \in Words,
         Ends(r, w), Ends(s, w), Len(r) <= Len(s)
  PROVE  Ends(r, s)
<1>1. Len(r) \in Nat /\ Len(s) \in Nat /\ Len(w) \in Nat /\ Len(s) <= Len(w)
  BY WordTypes DEF Ends
<1>2. ASSUME NEW i \in 1 .. Len(r) PROVE r[i] = s[Len(s) - Len(r) + i]
  <2>1. r[i] = w[Len(w) - Len(r) + i] /\ Len(s) - Len(r) + i \in 1 .. Len(s)
    BY <1>1 DEF Ends
  <2>2. s[Len(s) - Len(r) + i] = w[Len(w) - Len(s) + (Len(s) - Len(r) + i)]
    BY <2>1 DEF Ends
  <2>3. Len(w) - Len(s) + (Len(s) - Len(r) + i) = Len(w) - Len(r) + i
    BY <1>1
  <2> QED BY <2>1, <2>2, <2>3
<1> QED BY <1>1, <1>2 DEF Ends

LEMMA EndsSame ==
  ASSUME NEW s \in Words, NEW t \in Words, Ends(s, t), Len(s) = Len(t)
  PROVE  s = t
<1>1. \A i \in 1 .. Len(s) : s[i] = t[i]
  BY WordTypes DEF Ends
<1> QED BY <1>1, SameWord

\* A byte more at both ends.
LEMMA EndsChild ==
  ASSUME NEW s \in Words, NEW w \in Words, NEW b \in Bytes, NEW c \in Bytes
  PROVE  Ends(Roster!Child(s, b), Roster!Child(w, c)) <=> b = c /\ Ends(s, w)
<1>1. /\ Len(s) \in Nat /\ Len(w) \in Nat
      /\ Len(Roster!Child(s, b)) = Len(s) + 1 /\ Len(Roster!Child(w, c)) = Len(w) + 1
      /\ Roster!Child(s, b)[Len(s) + 1] = b /\ Roster!Child(w, c)[Len(w) + 1] = c
      /\ \A i \in 1 .. Len(s) : Roster!Child(s, b)[i] = s[i]
      /\ \A i \in 1 .. Len(w) : Roster!Child(w, c)[i] = w[i]
  BY WordTypes, ChildWord
<1>2. ASSUME Ends(Roster!Child(s, b), Roster!Child(w, c)) PROVE b = c /\ Ends(s, w)
  <2>1. Len(s) <= Len(w)
    BY <1>1, <1>2 DEF Ends
  <2>2. \A i \in 1 .. Len(s) + 1 : Roster!Child(s, b)[i] = Roster!Child(w, c)[Len(w) - Len(s) + i]
    <3>1. (Len(w) + 1) - (Len(s) + 1) = Len(w) - Len(s)
      BY <1>1
    <3> QED BY <1>1, <1>2, <3>1 DEF Ends
  <2>3. b = c
    <3>1. Len(w) - Len(s) + (Len(s) + 1) = Len(w) + 1
      BY <1>1
    <3> QED BY <1>1, <2>2, <3>1
  <2>4. ASSUME NEW i \in 1 .. Len(s) PROVE s[i] = w[Len(w) - Len(s) + i]
    <3>1. Len(w) - Len(s) + i \in 1 .. Len(w) /\ i \in 1 .. Len(s) + 1
      BY <1>1, <2>1
    <3> QED BY <1>1, <2>2, <3>1
  <2> QED BY <2>1, <2>3, <2>4 DEF Ends
<1>3. ASSUME b = c, Ends(s, w) PROVE Ends(Roster!Child(s, b), Roster!Child(w, c))
  <2>1. Len(s) <= Len(w)
    BY <1>3 DEF Ends
  <2>2. ASSUME NEW i \in 1 .. Len(s) + 1 PROVE Roster!Child(s, b)[i] = Roster!Child(w, c)[Len(w) - Len(s) + i]
    <3>1. CASE i = Len(s) + 1
      <4>1. Len(w) - Len(s) + i = Len(w) + 1
        BY <1>1, <3>1
      <4> QED BY <1>1, <1>3, <3>1, <4>1
    <3>2. CASE i # Len(s) + 1
      <4>1. i \in 1 .. Len(s) /\ Len(w) - Len(s) + i \in 1 .. Len(w)
        BY <1>1, <2>1, <3>2
      <4> QED BY <1>1, <1>3, <4>1 DEF Ends
    <3> QED BY <3>1, <3>2
  <2>3. (Len(w) + 1) - (Len(s) + 1) = Len(w) - Len(s)
    BY <1>1
  <2> QED BY <1>1, <2>1, <2>2, <2>3 DEF Ends
<1> QED BY <1>2, <1>3

\* A word that is not empty is one with a last byte.
LEMMA WordSplits ==
  ASSUME NEW w \in Words, w # Roster!Root
  PROVE  \E n \in Words, b \in Bytes : w = Roster!Child(n, b) /\ Len(w) = Len(n) + 1
<1>1. Len(w) \in Nat /\ Len(w) >= 1
  BY WordTypes
<1> DEFINE n == [i \in 1 .. Len(w) - 1 |-> w[i]]
<1>2. n \in Words /\ Len(n) = Len(w) - 1 /\ w[Len(w)] \in Bytes
  BY <1>1 DEF Words
<1>3. \A i \in 1 .. Len(n) : n[i] = w[i]
  BY <1>2
<1> HIDE DEF n
<1>4. Roster!Child(n, w[Len(w)]) = w
  <2>1. Roster!Child(n, w[Len(w)]) \in Words /\ Len(Roster!Child(n, w[Len(w)])) = Len(w)
    BY <1>1, <1>2, ChildWord
  <2>2. ASSUME NEW i \in 1 .. Len(w) PROVE Roster!Child(n, w[Len(w)])[i] = w[i]
    <3>1. CASE i = Len(w)
      BY <1>1, <1>2, <3>1, ChildWord
    <3>2. CASE i # Len(w)
      <4>1. i \in 1 .. Len(n)
        BY <1>1, <1>2, <3>2
      <4> QED BY <1>2, <1>3, <4>1, ChildWord
    <3> QED BY <3>1, <3>2
  <2> QED BY <2>1, <2>2, SameWord
<1> QED BY <1>1, <1>2, <1>4

\* What a word with a last byte ends with, but for the empty word.
LEMMA EndsSplits ==
  ASSUME NEW t \in Words, NEW w \in Words, NEW b \in Bytes, t # Roster!Root, Ends(t, Roster!Child(w, b))
  PROVE  \E r \in Words : t = Roster!Child(r, b) /\ Len(t) = Len(r) + 1 /\ Ends(r, w)
<1>1. PICK r \in Words, c \in Bytes : t = Roster!Child(r, c) /\ Len(t) = Len(r) + 1
  BY WordSplits
<1> QED BY <1>1, EndsChild

LEMMA OneChild ==
  ASSUME NEW m \in Words, NEW n \in Words, NEW b \in Bytes, NEW c \in Bytes,
         Roster!Child(m, b) = Roster!Child(n, c)
  PROVE  m = n /\ b = c
<1>1. Ends(Roster!Child(m, b), Roster!Child(n, c))
  BY EndsSelf, ChildWord
<1>2. b = c /\ Ends(m, n) /\ Len(m) = Len(n)
  BY <1>1, EndsChild, ChildWord, WordTypes
<1> QED BY <1>2, EndsSame

LEMMA OneLongest ==
  ASSUME NEW S \in SUBSET Words, NEW w \in Words, NEW s, NEW t, Longest(s, w, S), Longest(t, w, S)
  PROVE  s = t
<1>1. s \in Words /\ t \in Words /\ Ends(s, t) /\ Ends(t, s)
  BY DEF Longest
<1>2. Len(s) = Len(t)
  BY <1>1, WordTypes DEF Ends
<1> QED BY <1>1, <1>2, EndsSame

-----------------------------------------------------------------------------
\* Induction, as the choice of a least counterexample.
LEMMA LeastNumber ==
  ASSUME NEW S, S \subseteq Nat, S # {}
  PROVE  \E k \in S : \A l \in S : k <= l
<1>1. PICK n \in S : TRUE
  OBVIOUS
<1> DEFINE T == S \cap (0 .. n)
           R == StrictSubsetOrdering(T)
           Q == {S \cap (0 .. k) : k \in T}
<1>2. IsFiniteSet(T)
  <2>1. IsFiniteSet(0 .. n)
    BY <1>1, FS_Interval
  <2> QED BY <2>1, FS_Subset
<1>3. Q \subseteq SUBSET T /\ Q # {}
  <2>a. Q \subseteq SUBSET T
    OBVIOUS
  <2>1. n \in T
    BY <1>1
  <2>2. S \cap (0 .. n) \in Q
    BY <2>1
  <2> QED BY <2>a, <2>2
<1>4. IsWellFoundedOn(R, SUBSET T)
  <2> HIDE DEF T, Q
  <2> QED BY <1>2, FS_StrictSubsetOrderingWellFounded, FS_FiniteSubsetsOfFinite
<1> HIDE DEF R, Q
<1>5. PICK U \in Q : \A V \in Q : ~(<<V, U>> \in R)
  BY <1>3, <1>4, WFMin
<1> USE DEF Q
<1>6. PICK k \in T : U = S \cap (0 .. k)
  BY <1>5
<1>7. ASSUME NEW l \in S, ~(k <= l) PROVE FALSE
  <2>1. l < k /\ l \in T
    BY <1>7
  <2>2. S \cap (0 .. l) \in Q /\ S \cap (0 .. l) \subseteq U
    BY <1>6, <2>1
  <2>3. k \in U /\ k \notin S \cap (0 .. l)
    BY <1>6, <2>1
  <2>4. <<S \cap (0 .. l), U>> \in R
    BY <2>2, <2>3, <1>6 DEF R, StrictSubsetOrdering
  <2> QED BY <1>5, <2>2, <2>4
<1> QED BY <1>6, <1>7

\* Of the nodes that are in S one is shortest.
LEMMA ShortestIn ==
  ASSUME NEW S \in SUBSET Words, S # {}
  PROVE  \E n \in S : \A m \in S : Len(n) <= Len(m)
<1> DEFINE lengths == {Len(n) : n \in S}
<1>1. lengths \subseteq Nat /\ lengths # {}
  BY WordTypes
<1>2. PICK k \in lengths : \A l \in lengths : k <= l
  <2> HIDE DEF lengths
  <2> QED BY <1>1, LeastNumber
<1> QED BY <1>2

LEMMA LongestExists ==
  ASSUME NEW S \in SUBSET Words, Roster!Root \in S, NEW w \in Words
  PROVE  \E s : Longest(s, w, S)
<1> DEFINE gaps == {Len(w) - Len(s) : s \in {t \in S : Ends(t, w)}}
<1>1. gaps \subseteq Nat
  BY WordTypes DEF Ends
<1>2. gaps # {}
  BY RootEnds
<1>3. PICK k \in gaps : \A l \in gaps : k <= l
  <2> HIDE DEF gaps
  <2> QED BY <1>1, <1>2, LeastNumber
<1>4. PICK s \in S : Ends(s, w) /\ k = Len(w) - Len(s)
  BY <1>3
<1>5. ASSUME NEW t \in S, Ends(t, w) PROVE Ends(t, s)
  <2>1. Len(w) - Len(s) <= Len(w) - Len(t)
    BY <1>3, <1>4, <1>5
  <2>2. Len(t) <= Len(s)
    <3>1. Len(w) \in Nat /\ Len(s) \in Nat /\ Len(t) \in Nat
      BY WordTypes
    <3> QED BY <2>1, <3>1
  <2> QED BY <1>4, <1>5, <2>2, EndsNested
<1> QED BY <1>4, <1>5 DEF Longest

\* SetToSeq is a sequence of all of a finite set.
LEMMA SetToSeqHasAll ==
  ASSUME NEW S, IsFiniteSet(S)
  PROVE  /\ Roster!SetToSeq(S) \in Seq(S)
         /\ \A x \in S : \E i \in DOMAIN Roster!SetToSeq(S) : Roster!SetToSeq(S)[i] = x
<1> DEFINE n == Cardinality(S)
<1>1. n \in Nat /\ ExistsBijection(1 .. n, S)
  BY FS_CardinalityType
<1>2. PICK f \in Bijection(1 .. n, S) : TRUE
  BY <1>1 DEF ExistsBijection
<1>3. f \in [1 .. n -> S] /\ Roster!IsInjective(f)
  BY <1>2 DEF Bijection, Injection, IsInjective, Roster!IsInjective
<1>c. Roster!Cardinality(S) = n
  BY DEF Roster!Cardinality, Cardinality
<1>4. Roster!SetToSeq(S) \in [1 .. n -> S] /\ Roster!IsInjective(Roster!SetToSeq(S))
  BY <1>3, <1>c DEF Roster!SetToSeq
<1>5. Roster!SetToSeq(S) \in Injection(1 .. n, S)
  BY <1>4 DEF Injection, IsInjective, Roster!IsInjective
<1>6. IsFiniteSet(1 .. n) /\ Cardinality(1 .. n) = n
  BY <1>1, FS_Interval
<1>7. Roster!SetToSeq(S) \in Surjection(1 .. n, S)
  BY <1>5, <1>6, FS_Injection
<1> HIDE DEF n
<1> QED BY <1>1, <1>4, <1>7 DEF Surjection

LEMMA FiniteChildren ==
  ASSUME IsFiniteSet(Bytes), NEW n
  PROVE  IsFiniteSet(Roster!Children(n))
<1> DEFINE f == [b \in Bytes |-> Roster!Child(n, b)]
           all == {Roster!Child(n, b) : b \in Bytes}
<1>1. f \in Surjection(Bytes, all)
  BY DEF Surjection
<1>2. IsFiniteSet(all)
  <2> HIDE DEF f, all
  <2> QED BY <1>1, FS_Surjection
<1>3. Roster!Children(n) \subseteq all
  BY DEF Roster!Children
<1> HIDE DEF all
<1> QED BY <1>2, <1>3, FS_Subset

-----------------------------------------------------------------------------
\* The trie and its links, as insert and buildLinks leave them.
Tree ==
  /\ trie \subseteq Words /\ Roster!Root \in trie
  /\ \A n \in trie : n # Roster!Root => \E m \in trie, b \in Bytes : n = Roster!Child(m, b)
  /\ terms \subseteq Words /\ Roster!Root \notin terms
  /\ fail \in [trie -> trie] /\ suffixLink \in [trie -> trie]
  /\ fail[Roster!Root] = Roster!Root /\ suffixLink[Roster!Root] = Roster!Root

\* A node whose links are right.
LinkRight(n) ==
  /\ LongestProper(fail[n], n, trie)
  /\ LongestProper(suffixLink[n], n, terms \cup {Roster!Root})

\* The nodes of D are linked, and lead to linked ones; the others lead to the root.
Links(D) ==
  /\ D \subseteq trie \ {Roster!Root}
  /\ \A n \in D : LinkRight(n) /\ fail[n] \in D \cup {Roster!Root}
  /\ \A n \in trie \ D : fail[n] = Roster!Root

LEMMA ParentIn ==
  ASSUME Tree, NEW r \in Words, NEW b \in Bytes, Roster!Child(r, b) \in trie
  PROVE  r \in trie
<1>1. Roster!Child(r, b) # Roster!Root
  BY ChildWord
<1>2. PICK m \in trie, c \in Bytes : Roster!Child(r, b) = Roster!Child(m, c)
  BY <1>1 DEF Tree
<1>3. m \in Words
  BY DEF Tree
<1> QED BY <1>2, <1>3, OneChild

\* Where no child is, the failure link loses nothing.
LEMMA LinkLosesNothing ==
  ASSUME Tree, NEW n \in Words, NEW f, LongestProper(f, n, trie), NEW b \in Bytes,
         Roster!Child(n, b) \notin trie, NEW s, Longest(s, Roster!Child(f, b), trie)
  PROVE  Longest(s, Roster!Child(n, b), trie)
<1>1. f \in Words /\ s \in Words /\ Ends(f, n)
  BY DEF Tree, LongestProper, Longest, Proper
<1>2. Ends(s, Roster!Child(n, b))
  <2>1. Roster!Child(f, b) \in Words /\ Roster!Child(n, b) \in Words /\ Ends(Roster!Child(f, b), Roster!Child(n, b))
    BY <1>1, ChildWord, EndsChild
  <2> QED BY <1>1, <2>1, EndsThrough DEF Longest
<1>3. ASSUME NEW t \in trie, Ends(t, Roster!Child(n, b)) PROVE Ends(t, s)
  <2>1. CASE t = Roster!Root
    BY <1>1, <2>1, RootEnds
  <2>2. CASE t # Roster!Root
    <3>1. t \in Words
      BY DEF Tree
    <3>2. PICK r \in Words : t = Roster!Child(r, b) /\ Ends(r, n)
      BY <1>3, <2>2, <3>1, EndsSplits
    <3>3. r \in trie /\ r # n
      BY <3>2, ParentIn
    <3>4. Len(r) # Len(n)
      BY <3>2, <3>3, EndsSame
    <3>5. Proper(r, n)
      BY <3>2, <3>4, WordTypes DEF Ends, Proper
    <3>6. Ends(r, f)
      BY <3>3, <3>5 DEF LongestProper
    <3>7. Ends(t, Roster!Child(f, b))
      BY <1>1, <3>2, <3>6, EndsChild
    <3> QED BY <3>7 DEF Longest
  <2> QED BY <2>1, <2>2
<1> QED BY <1>2, <1>3 DEF Longest

\* A child that is there is the longest.
LEMMA ChildIsLongest ==
  ASSUME Tree, NEW n \in Words, NEW b \in Bytes, Roster!Child(n, b) \in trie
  PROVE  Longest(Roster!Child(n, b), Roster!Child(n, b), trie)
BY EndsSelf, ChildWord DEF Longest

LEMMA RootIsLongest ==
  ASSUME Tree, NEW b \in Bytes, Roster!Child(Roster!Root, b) \notin trie
  PROVE  Longest(Roster!Root, Roster!Child(Roster!Root, b), trie)
<1>1. Roster!Child(Roster!Root, b) \in Words /\ Roster!Root \in Words
  BY ChildWord, RootWord
<1>2. ASSUME NEW t \in trie, Ends(t, Roster!Child(Roster!Root, b)), t # Roster!Root PROVE FALSE
  <2>1. t \in Words
    BY DEF Tree
  <2>2. PICK r \in Words : t = Roster!Child(r, b) /\ Ends(r, Roster!Root)
    BY <1>1, <1>2, <2>1, EndsSplits
  <2> QED BY <1>2, <2>2, EndsRoot
<1> QED BY <1>1, <1>2, RootEnds, EndsSelf DEF Longest, Tree

-----------------------------------------------------------------------------
\* The loop along the failure links, for a byte.
Descends(h, b) ==
  h = [n \in trie |-> IF Roster!Child(n, b) \in trie THEN Roster!Child(n, b)
                      ELSE IF n = Roster!Root THEN Roster!Root ELSE h[fail[n]]]
Descent(b) == CHOOSE h : Descends(h, b)

LEMMA StepIsDescent == \A from, b : Roster!Step(from, b) = Descent(b)[from]
BY DEF Roster!Step, Descent, Descends

LongestIn(w) == CHOOSE s : Longest(s, w, trie)

LEMMA DescentExists ==
  ASSUME Tree, NEW D, Links(D), NEW b \in Bytes
  PROVE  \E h : Descends(h, b)
<1> DEFINE h == [n \in trie |-> IF Roster!Child(n, b) \in trie THEN Roster!Child(n, b)
                                ELSE IF n = Roster!Root THEN Roster!Root ELSE LongestIn(Roster!Child(fail[n], b))]
<1>1. ASSUME NEW n \in trie, Roster!Child(n, b) \notin trie, n # Roster!Root
      PROVE  h[fail[n]] = LongestIn(Roster!Child(fail[n], b))
  <2> DEFINE m == fail[n]
  <2>1. m \in trie /\ m \in Words /\ m \in D \cup {Roster!Root}
    BY DEF Tree, Links
  <2>2. Longest(LongestIn(Roster!Child(m, b)), Roster!Child(m, b), trie)
    BY <2>1, LongestExists, ChildWord DEF LongestIn, Tree
  <2>3. trie \in SUBSET Words /\ Roster!Child(m, b) \in Words
    BY <2>1, ChildWord DEF Tree
  <2>4. CASE Roster!Child(m, b) \in trie
    <3>1. Longest(Roster!Child(m, b), Roster!Child(m, b), trie)
      BY <2>1, <2>4, ChildIsLongest
    <3> QED BY <2>1, <2>2, <2>3, <2>4, <3>1, OneLongest
  <2>5. CASE Roster!Child(m, b) \notin trie /\ m = Roster!Root
    <3>1. Longest(Roster!Root, Roster!Child(m, b), trie)
      BY <2>5, RootIsLongest
    <3> QED BY <2>1, <2>2, <2>3, <2>5, <3>1, OneLongest
  <2>6. CASE Roster!Child(m, b) \notin trie /\ m # Roster!Root
    <3>1. m \in D /\ LongestProper(fail[m], m, trie)
      BY <2>1, <2>6 DEF Links, LinkRight
    <3>2. fail[m] \in Words /\ h[m] = LongestIn(Roster!Child(fail[m], b))
      BY <2>1, <2>6 DEF Tree
    <3>3. Longest(LongestIn(Roster!Child(fail[m], b)), Roster!Child(fail[m], b), trie)
      BY <3>2, LongestExists, ChildWord DEF LongestIn, Tree
    <3>4. Longest(LongestIn(Roster!Child(fail[m], b)), Roster!Child(m, b), trie)
      BY <2>1, <2>6, <3>1, <3>3, LinkLosesNothing
    <3> QED BY <2>2, <2>3, <3>2, <3>4, OneLongest
  <2> QED BY <2>4, <2>5, <2>6
<1>2. h = [n \in trie |-> IF Roster!Child(n, b) \in trie THEN Roster!Child(n, b)
                          ELSE IF n = Roster!Root THEN Roster!Root ELSE h[fail[n]]]
  BY <1>1
<1> HIDE DEF h
<1> QED BY <1>2 DEF Descends

\* From a linked node a byte leads to the longest suffix of what was read.
LEMMA DescentIsLongest ==
  ASSUME Tree, NEW D, Links(D), NEW b \in Bytes, NEW h, Descends(h, b)
  PROVE  \A n \in D \cup {Roster!Root} : Longest(h[n], Roster!Child(n, b), trie)
<1> DEFINE bad == {n \in D \cup {Roster!Root} : ~Longest(h[n], Roster!Child(n, b), trie)}
<1>1. SUFFICES ASSUME bad # {} PROVE FALSE
  OBVIOUS
<1>2. bad \in SUBSET Words
  BY DEF Links, Tree
<1>3. PICK n \in bad : \A m \in bad : Len(n) <= Len(m)
  <2> HIDE DEF bad
  <2> QED BY <1>1, <1>2, ShortestIn
<1>4. n \in trie /\ n \in Words /\ n \in D \cup {Roster!Root}
  BY <1>2, <1>3 DEF Links, Tree
<1>5. h[n] = IF Roster!Child(n, b) \in trie THEN Roster!Child(n, b) ELSE IF n = Roster!Root THEN Roster!Root ELSE h[fail[n]]
  BY <1>4 DEF Descends
<1>6. CASE Roster!Child(n, b) \in trie
  BY <1>3, <1>4, <1>5, <1>6, ChildIsLongest
<1>7. CASE Roster!Child(n, b) \notin trie /\ n = Roster!Root
  BY <1>3, <1>5, <1>7, RootIsLongest
<1>8. CASE Roster!Child(n, b) \notin trie /\ n # Roster!Root
  <2>1. LongestProper(fail[n], n, trie) /\ fail[n] \in D \cup {Roster!Root} /\ h[n] = h[fail[n]]
    BY <1>4, <1>5, <1>8 DEF Links, LinkRight
  <2>2. fail[n] \in Words /\ Len(fail[n]) < Len(n)
    BY <2>1 DEF LongestProper, Proper, Tree
  <2>3. fail[n] \notin bad
    BY <1>3, <1>4, <2>2, WordTypes
  <2>4. Longest(h[n], Roster!Child(fail[n], b), trie)
    BY <2>1, <2>3
  <2> QED BY <1>3, <1>4, <1>8, <2>1, <2>4, LinkLosesNothing
<1> QED BY <1>6, <1>7, <1>8

LEMMA StepIsLongest ==
  ASSUME Tree, NEW D, Links(D), NEW b \in Bytes, NEW n \in D \cup {Roster!Root}
  PROVE  Longest(Roster!Step(n, b), Roster!Child(n, b), trie)
<1>1. Descends(Descent(b), b)
  BY DescentExists DEF Descent
<1> QED BY <1>1, DescentIsLongest, StepIsDescent

-----------------------------------------------------------------------------
\* The loop along the dictionary links, for the terms that end at a node.
Collects(h) ==
  h = [n \in trie |-> (IF n \in terms THEN {n} ELSE {})
                        \cup (IF n = Roster!Root THEN {} ELSE h[suffixLink[n]])]
Collected == CHOOSE h : Collects(h)

LEMMA EndingIsCollected == \A node : Roster!Ending(node) = Collected[node]
BY DEF Roster!Ending, Collected, Collects

\* What a node ends with is itself or is what its dictionary link ends with.
LEMMA TermsOfLink ==
  ASSUME Tree, NEW n \in trie, n # Roster!Root, LinkRight(n)
  PROVE  /\ suffixLink[n] \in trie /\ Len(suffixLink[n]) < Len(n)
         /\ {t \in terms : Ends(t, n)}
              = (IF n \in terms THEN {n} ELSE {}) \cup {t \in terms : Ends(t, suffixLink[n])}
<1> DEFINE s == suffixLink[n]
<1>1. s \in trie /\ s \in Words /\ n \in Words /\ Proper(s, n) /\ terms \subseteq Words
  BY DEF Tree, LinkRight, LongestProper
<1>2. Len(s) < Len(n) /\ Ends(s, n)
  BY <1>1 DEF Proper
<1>3. ASSUME NEW t \in terms, Ends(t, n), t # n PROVE Ends(t, s)
  <2>1. t \in Words /\ Len(t) # Len(n)
    BY <1>1, <1>3, EndsSame
  <2>2. Proper(t, n)
    BY <1>1, <1>3, <2>1, WordTypes DEF Ends, Proper
  <2> QED BY <2>2 DEF LinkRight, LongestProper
<1>4. ASSUME NEW t \in terms, Ends(t, s) PROVE Ends(t, n)
  BY <1>1, <1>2, <1>4, EndsThrough
<1>5. n \in terms => Ends(n, n)
  BY <1>1, EndsSelf
<1> HIDE DEF s
<1>6. {t \in terms : Ends(t, n)} = (IF n \in terms THEN {n} ELSE {}) \cup {t \in terms : Ends(t, s)}
  BY <1>3, <1>4, <1>5
<1> QED BY <1>1, <1>2, <1>6 DEF s

LEMMA TermsOfRoot == ASSUME Tree PROVE {t \in terms : Ends(t, Roster!Root)} = {}
BY EndsRoot DEF Tree

LEMMA EndingFindsTerms ==
  ASSUME Tree, \A n \in trie \ {Roster!Root} : LinkRight(n), NEW node \in trie
  PROVE  Roster!Ending(node) = {t \in terms : Ends(t, node)}
<1> DEFINE g == [n \in trie |-> {t \in terms : Ends(t, n)}]
<1>1. Collects(g)
  <2>1. ASSUME NEW n \in trie
        PROVE  g[n] = (IF n \in terms THEN {n} ELSE {})
                        \cup (IF n = Roster!Root THEN {} ELSE g[suffixLink[n]])
    <3>1. CASE n = Roster!Root
      BY <3>1, TermsOfRoot DEF Tree
    <3>2. CASE n # Roster!Root
      <4>1. LinkRight(n)
        BY <3>2
      <4> QED BY <3>2, <4>1, TermsOfLink
    <3> QED BY <3>1, <3>2
  <2>2. g = [n \in trie |-> g[n]]
    OBVIOUS
  <2> HIDE DEF g
  <2> QED BY <2>1, <2>2 DEF Collects
<1>2. Collects(Collected)
  <2> HIDE DEF g
  <2> QED BY <1>1 DEF Collected
<1> DEFINE h == Collected
           bad == {n \in trie : h[n] # {t \in terms : Ends(t, n)}}
<1>3. bad = {}
  <2>1. SUFFICES ASSUME bad # {} PROVE FALSE
    OBVIOUS
  <2>2. bad \in SUBSET Words
    BY DEF Tree
  <2>3. PICK n \in bad : \A m \in bad : Len(n) <= Len(m)
    <3> HIDE DEF bad
    <3> QED BY <2>1, <2>2, ShortestIn
  <2>4. h[n] = (IF n \in terms THEN {n} ELSE {}) \cup (IF n = Roster!Root THEN {} ELSE h[suffixLink[n]])
    <3> HIDE DEF h
    <3> QED BY <1>2 DEF Collects, h
  <2>5. CASE n = Roster!Root
    BY <2>3, <2>4, <2>5, TermsOfRoot DEF Tree
  <2>6. CASE n # Roster!Root
    <3>1. LinkRight(n)
      BY <2>3, <2>6
    <3>2. /\ suffixLink[n] \in trie /\ Len(suffixLink[n]) < Len(n)
          /\ {t \in terms : Ends(t, n)}
              = (IF n \in terms THEN {n} ELSE {}) \cup {t \in terms : Ends(t, suffixLink[n])}
      BY <2>3, <2>6, <3>1, TermsOfLink
    <3>3. suffixLink[n] \notin bad
      <4>1. Len(n) \in Nat /\ Len(suffixLink[n]) \in Nat
        BY <2>2, <3>2, WordTypes DEF Tree
      <4> QED BY <2>3, <3>2, <4>1
    <3> QED BY <2>3, <2>4, <2>6, <3>2, <3>3
  <2> QED BY <2>5, <2>6
<1> QED BY <1>3, EndingIsCollected

-----------------------------------------------------------------------------
\* buildLinks under way: D is linked, and the queue holds those of D whose children
\* are not, level by level.
Queued(n) == \E i \in DOMAIN level : level[i] = n
Linking(D) ==
  /\ Links(D) /\ terms \subseteq trie
  /\ level \in Seq(D)
  /\ \A i, j \in DOMAIN level :
       i <= j => Len(level[i]) <= Len(level[j]) /\ Len(level[j]) <= Len(level[i]) + 1
  /\ \A m \in D \cup {Roster!Root} : ~Queued(m) => Roster!Children(m) \subseteq D

\* Every node no longer than the first of the queue is linked.
LEMMA LevelsDone ==
  ASSUME Tree, NEW D, Linking(D), NEW k \in Nat,
         \A i \in DOMAIN level : k <= Len(level[i])
  PROVE  \A m \in trie \ {Roster!Root} : Len(m) <= k => m \in D
<1> DEFINE bad == {m \in trie \ {Roster!Root} : Len(m) <= k /\ m \notin D}
<1>1. SUFFICES ASSUME bad # {} PROVE FALSE
  OBVIOUS
<1>2. bad \in SUBSET Words
  BY DEF Tree
<1>3. PICK m \in bad : \A n \in bad : Len(m) <= Len(n)
  <2> HIDE DEF bad
  <2> QED BY <1>1, <1>2, ShortestIn
<1>4. PICK p \in trie, b \in Bytes : m = Roster!Child(p, b)
  BY <1>3 DEF Tree
<1>5. p \in Words /\ Len(p) \in Nat /\ Len(m) = Len(p) + 1
  BY <1>4, ChildWord, WordTypes DEF Tree
<1>6. p \in D \cup {Roster!Root}
  <2>1. p \notin bad
    BY <1>3, <1>5
  <2> QED BY <1>3, <1>4, <1>5, <2>1
<1>7. Queued(p)
  <2>1. m \in Roster!Children(p)
    BY <1>3, <1>4 DEF Roster!Children
  <2> QED BY <1>3, <1>6, <2>1 DEF Linking
<1>8. PICK i \in DOMAIN level : level[i] = p
  BY <1>7 DEF Queued
<1> QED BY <1>3, <1>5, <1>8

-----------------------------------------------------------------------------
\* What is found in a text: a term t that ends at k.
Occurs(t, k, w) == \A i \in 1 .. Len(t) : w[k - Len(t) + i] = t[i]
Matches(w)      == UNION {{Roster!Match(t, k) : k \in {l \in Len(t) .. Len(w) : Occurs(t, l, w)}} : t \in terms}

Unlinked == \A n \in trie : fail[n] = Roster!Root /\ suffixLink[n] = Roster!Root
Finding ==
  /\ Links(trie \ {Roster!Root}) /\ terms \subseteq trie
  /\ read \in Words /\ Longest(cur, read, trie) /\ out = Matches(read)

RosterInv ==
  /\ Tree /\ phase \in {"new", "refused", "insert", "link", "find"}
  /\ phase \in {"new", "refused", "insert"} => Unlinked
  /\ phase = "link" => \E D : Linking(D)
  /\ IF phase = "find" THEN Finding ELSE read = <<>> /\ cur = Roster!Root /\ out = {}

LEMMA RosterInit == Roster!Init => RosterInv
<1> SUFFICES ASSUME Roster!Init PROVE RosterInv
  OBVIOUS
<1>1. Tree /\ Unlinked
  BY RootWord DEF Roster!Init, Tree, Unlinked
<1> QED BY <1>1 DEF Roster!Init, RosterInv

LEMMA NewKeeps == ASSUME RosterInv, Roster!NewGazetteer PROVE RosterInv'
<1>1. Roster!Terms \subseteq Words /\ Roster!Root \notin Roster!Terms
  BY DEF Roster!Terms, Words, Roster!Root
<1>2. /\ terms' = terms \/ terms' \subseteq Roster!Terms
      /\ phase = "new" /\ phase' \in {"refused", "insert"}
      /\ UNCHANGED <<trie, fail, suffixLink, level, read, cur, out>>
  BY DEF Roster!NewGazetteer, Roster!Rosters
<1>3. Tree'
  BY <1>1, <1>2 DEF RosterInv, Tree
<1> QED BY <1>2, <1>3 DEF RosterInv, Unlinked

\* The prefixes of a word: each but the empty one is a byte more than another.
LEMMA PrefixWords ==
  ASSUME NEW w \in Words
  PROVE  /\ Roster!InTrie(w) \subseteq Words
         /\ \A n \in Roster!InTrie(w) : n # Roster!Root => \E m \in Roster!InTrie(w), b \in Bytes : n = Roster!Child(m, b)
<1>1. Len(w) \in Nat /\ \A i \in 1 .. Len(w) : w[i] \in Bytes
  BY DEF Words
<1>2. ASSUME NEW k \in 0 .. Len(w)
      PROVE  /\ SubSeq(w, 1, k) \in Words /\ Len(SubSeq(w, 1, k)) = k
             /\ \A i \in 1 .. k : SubSeq(w, 1, k)[i] = w[i]
  BY <1>1 DEF Words
<1>3. ASSUME NEW n \in Roster!InTrie(w), n # Roster!Root
      PROVE  \E m \in Roster!InTrie(w), b \in Bytes : n = Roster!Child(m, b)
  <2>1. PICK k \in 0 .. Len(w) : n = SubSeq(w, 1, k)
    BY DEF Roster!InTrie
  <2>2. k - 1 \in 0 .. Len(w) /\ k \in 1 .. Len(w)
    <3>1. n \in Words /\ Len(n) = k
      BY <1>2, <2>1
    <3>2. k # 0
      BY <1>3, <3>1, WordTypes
    <3> QED BY <1>1, <3>2
  <2> DEFINE m == SubSeq(w, 1, k - 1)
  <2>3. /\ m \in Words /\ Len(m) = k - 1 /\ \A i \in 1 .. k - 1 : m[i] = w[i]
        /\ n \in Words /\ Len(n) = k /\ \A i \in 1 .. k : n[i] = w[i]
    BY <1>2, <2>1, <2>2
  <2>4. m \in Roster!InTrie(w) /\ w[k] \in Bytes
    BY <1>1, <2>2 DEF Roster!InTrie
  <2> HIDE DEF m
  <2>5. Roster!Child(m, w[k]) \in Words /\ Len(Roster!Child(m, w[k])) = k
    BY <2>2, <2>3, <2>4, ChildWord
  <2>6. ASSUME NEW i \in 1 .. k PROVE Roster!Child(m, w[k])[i] = n[i]
    <3>1. CASE i = k
      BY <2>2, <2>3, <2>4, <3>1, ChildWord
    <3>2. CASE i # k
      <4>1. i \in 1 .. Len(m)
        BY <2>2, <2>3, <3>2
      <4> QED BY <2>2, <2>3, <2>4, <4>1, ChildWord
    <3> QED BY <3>1, <3>2
  <2>7. Roster!Child(m, w[k]) = n
    BY <2>3, <2>5, <2>6, SameWord
  <2> QED BY <2>4, <2>7
<1> QED BY <1>2, <1>3 DEF Roster!InTrie

LEMMA InsertKeeps == ASSUME RosterInv, Roster!Insert PROVE RosterInv'
<1> USE DEF RosterInv
<1> DEFINE word == CHOOSE t \in terms \ trie : TRUE
<1>1. word \in terms /\ word \in Words
  BY DEF Roster!Insert, Tree
<1>2. /\ trie' = trie \cup Roster!InTrie(word) /\ phase = "insert" /\ phase' = "insert"
      /\ fail' = [n \in trie' |-> Roster!Root] /\ suffixLink' = [n \in trie' |-> Roster!Root]
      /\ UNCHANGED <<terms, level, read, cur, out>>
  BY DEF Roster!Insert
<1> HIDE DEF word
<1>3. trie' \subseteq Words /\ Roster!Root \in trie'
  BY <1>1, <1>2, PrefixWords DEF Tree
<1>4. ASSUME NEW n \in trie', n # Roster!Root PROVE \E m \in trie', b \in Bytes : n = Roster!Child(m, b)
  <2>1. CASE n \in trie
    BY <1>2, <1>4, <2>1 DEF Tree
  <2>2. CASE n \in Roster!InTrie(word)
    BY <1>1, <1>2, <1>4, <2>2, PrefixWords
  <2> QED BY <1>2, <2>1, <2>2
<1>5. Tree'
  BY <1>2, <1>3, <1>4 DEF Tree
<1>6. Unlinked'
  BY <1>2 DEF Unlinked
<1> QED BY <1>2, <1>5, <1>6

\* The nodes below the root lead to it.
LEMMA StartKeeps == ASSUME IsFiniteSet(Bytes), RosterInv, Roster!StartLinks PROVE RosterInv'
<1> DEFINE D == Roster!Children(Roster!Root)
<1>1. /\ phase = "insert" /\ terms \subseteq trie /\ phase' = "link" /\ level' = Roster!SetToSeq(D)
      /\ UNCHANGED <<terms, trie, fail, suffixLink, read, cur, out>>
  BY DEF Roster!StartLinks
<1>2. Tree /\ Unlinked
  BY <1>1 DEF RosterInv
<1>3. /\ Roster!SetToSeq(D) \in Seq(D)
      /\ \A x \in D : \E i \in DOMAIN Roster!SetToSeq(D) : Roster!SetToSeq(D)[i] = x
  BY FiniteChildren, SetToSeqHasAll
<1>4. ASSUME NEW n \in D
      PROVE  /\ n \in trie /\ n \in Words /\ n # Roster!Root /\ Len(n) = 1
             /\ LinkRight(n)
  <2>1. PICK b \in Bytes : n = Roster!Child(Roster!Root, b) /\ n \in trie
    BY DEF Roster!Children
  <2>2. n \in Words /\ n # Roster!Root /\ Len(n) = 1
    <3>1. Roster!Root \in Words /\ Len(Roster!Root) = 0
      BY RootWord
    <3>2. n \in Words /\ n # Roster!Root /\ Len(n) = Len(Roster!Root) + 1
      BY <2>1, <3>1, ChildWord
    <3> QED BY <3>1, <3>2
  <2>3. Proper(Roster!Root, n) /\ fail[n] = Roster!Root /\ suffixLink[n] = Roster!Root /\ Roster!Root \in trie
    BY <1>2, <2>1, <2>2, RootWord, RootEnds DEF Proper, Unlinked, Tree
  <2>4. ASSUME NEW t \in Words, Proper(t, n) PROVE Ends(t, Roster!Root)
    <3>1. t = Roster!Root
      BY <2>2, <2>4, WordTypes DEF Proper
    <3> QED BY <3>1, RootWord, EndsSelf
  <2>5. trie \subseteq Words /\ terms \cup {Roster!Root} \subseteq Words
    BY <1>2, RootWord DEF Tree
  <2> QED BY <2>1, <2>2, <2>3, <2>4, <2>5 DEF LinkRight, LongestProper
<1>5. Links(D)
  <2>1. D \subseteq trie \ {Roster!Root}
    BY <1>4
  <2>2. \A n \in trie : fail[n] = Roster!Root
    BY <1>2 DEF Unlinked
  <2> HIDE DEF D
  <2> QED BY <1>4, <2>1, <2>2 DEF Links
<1>6. Links(D)' /\ (terms \subseteq trie)'
  <2> HIDE DEF D
  <2>1. D' = D
    BY <1>1 DEF D, Roster!Children
  <2> QED BY <1>1, <1>5, <2>1 DEF Links, LinkRight, LongestProper
<1>7. \A m \in D \cup {Roster!Root} : ~Queued(m)' => Roster!Children(m)' \subseteq D
  <2>1. ASSUME NEW m \in D PROVE Queued(m)'
    BY <1>1, <1>3 DEF Queued
  <2>2. Roster!Children(Roster!Root)' = D
    BY <1>1 DEF Roster!Children
  <2> HIDE DEF D
  <2> QED BY <2>1, <2>2
<1>8. \A i \in DOMAIN level' : level'[i] \in D /\ Len(level'[i]) = 1
  <2>1. \A i \in DOMAIN level' : level'[i] \in D
    <3> HIDE DEF D
    <3> QED BY <1>1, <1>3
  <2> QED BY <1>4, <2>1
<1>9. PICK E : E = D
  OBVIOUS
<1>10. Linking(E)'
  <2> HIDE DEF D
  <2>1. D' = D
    BY <1>1 DEF D, Roster!Children
  <2>2. Links(E)'
    BY <1>6, <1>9, <2>1 DEF Links
  <2>3. level' \in Seq(E)
    BY <1>1, <1>3, <1>9
  <2>4. \A i, j \in DOMAIN level' :
          i <= j => Len(level'[i]) <= Len(level'[j]) /\ Len(level'[j]) <= Len(level'[i]) + 1
    BY <1>8
  <2> QED BY <1>6, <1>7, <1>9, <2>2, <2>3, <2>4 DEF Linking
<1>11. Tree'
  BY <1>1, <1>2 DEF Tree
<1> QED BY <1>1, <1>10, <1>11 DEF RosterInv

\* The links of a child follow from those of its parent, whose level is linked.
LEMMA KidLinks ==
  ASSUME Tree, terms \subseteq trie, NEW D, Links(D), NEW h \in D, NEW b \in Bytes, NEW f,
         f = Roster!Step(fail[h], b),
         \A m \in trie \ {Roster!Root} : Len(m) <= Len(h) => m \in D
  PROVE  /\ f \in D \cup {Roster!Root} /\ LongestProper(f, Roster!Child(h, b), trie)
         /\ Roster!NextTerm(f) \in trie /\ LongestProper(Roster!NextTerm(f), Roster!Child(h, b), terms \cup {Roster!Root})
<1> DEFINE kid == Roster!Child(h, b)
<1>1. /\ h \in Words /\ h # Roster!Root /\ fail[h] \in trie /\ fail[h] \in Words
      /\ fail[h] \in D \cup {Roster!Root} /\ LongestProper(fail[h], h, trie)
  BY DEF Tree, Links, LinkRight
<1>2. Longest(f, Roster!Child(fail[h], b), trie)
  BY <1>1, StepIsLongest
<1>3. /\ kid \in Words /\ Len(kid) = Len(h) + 1 /\ Roster!Child(fail[h], b) \in Words
      /\ Len(Roster!Child(fail[h], b)) = Len(fail[h]) + 1 /\ kid # Roster!Root
  BY <1>1, ChildWord
<1>4. f \in trie /\ f \in Words /\ Len(f) <= Len(h) /\ Proper(f, kid)
  <2>1. f \in trie /\ f \in Words /\ Ends(f, Roster!Child(fail[h], b))
    BY <1>2 DEF Longest, Tree
  <2>2. Ends(fail[h], h) /\ Len(fail[h]) < Len(h)
    BY <1>1 DEF LongestProper, Proper
  <2>3. Ends(Roster!Child(fail[h], b), kid)
    BY <1>1, <2>2, EndsChild
  <2>4. Ends(f, kid)
    BY <1>3, <2>1, <2>3, EndsThrough
  <2>5. Len(f) <= Len(h)
    <3>1. Len(f) <= Len(fail[h]) + 1
      BY <1>3, <2>1 DEF Ends
    <3>2. Len(f) \in Nat /\ Len(fail[h]) \in Nat /\ Len(h) \in Nat
      BY <1>1, <2>1, WordTypes
    <3> QED BY <2>2, <3>1, <3>2
  <2>6. Len(f) < Len(kid)
    BY <1>1, <1>3, <2>1, <2>5, WordTypes
  <2> QED BY <2>1, <2>4, <2>5, <2>6 DEF Proper
<1>5. f \in D \cup {Roster!Root}
  BY <1>4
<1>6. ASSUME NEW t \in trie, Proper(t, kid) PROVE Ends(t, f)
  <2>1. CASE t = Roster!Root
    BY <1>4, <2>1, RootEnds
  <2>2. CASE t # Roster!Root
    <3>1. t \in Words /\ Ends(t, kid) /\ Len(t) < Len(kid)
      BY <1>6 DEF Tree, Proper
    <3>2. PICK r \in Words : t = Roster!Child(r, b) /\ Len(t) = Len(r) + 1 /\ Ends(r, h)
      BY <1>1, <2>2, <3>1, EndsSplits
    <3>3. r \in trie /\ Proper(r, h)
      <4>1. Len(r) < Len(h)
        BY <1>1, <1>3, <3>1, <3>2, WordTypes
      <4> QED BY <3>2, <4>1, ParentIn DEF Proper
    <3>4. Ends(r, fail[h])
      BY <1>1, <3>3 DEF LongestProper
    <3>5. Ends(t, Roster!Child(fail[h], b))
      BY <1>1, <3>2, <3>4, EndsChild
    <3> QED BY <1>2, <3>5 DEF Longest
  <2> QED BY <2>1, <2>2
<1>7. LongestProper(f, kid, trie)
  BY <1>4, <1>6 DEF LongestProper
<1>8. Roster!NextTerm(f) \in trie /\ LongestProper(Roster!NextTerm(f), kid, terms \cup {Roster!Root})
  <2>1. ASSUME NEW t \in terms \cup {Roster!Root}, Proper(t, kid) PROVE Ends(t, f) /\ t \in Words
    BY <1>6, <2>1, RootWord DEF Tree
  <2>2. CASE f \in terms
    <3>1. Roster!NextTerm(f) = f
      BY <2>2 DEF Roster!NextTerm
    <3> QED BY <1>4, <2>1, <2>2, <3>1 DEF LongestProper
  <2>3. CASE f \notin terms /\ f = Roster!Root
    <3>1. Roster!NextTerm(f) = f
      BY <2>3 DEF Roster!NextTerm, Tree
    <3> QED BY <1>4, <2>1, <2>3, <3>1 DEF LongestProper
  <2>4. CASE f \notin terms /\ f # Roster!Root
    <3> DEFINE s == suffixLink[f]
    <3>1. Roster!NextTerm(f) = s /\ f \in D /\ s \in trie /\ s \in Words
      BY <1>4, <1>5, <2>4 DEF Roster!NextTerm, Tree
    <3>2. LongestProper(s, f, terms \cup {Roster!Root})
      BY <3>1 DEF Links, LinkRight
    <3>3. Proper(s, kid)
      <4>1. Ends(s, f) /\ Len(s) < Len(f) /\ Ends(f, kid) /\ Len(f) < Len(kid)
        BY <1>4, <3>2 DEF LongestProper, Proper
      <4>2. Ends(s, kid)
        BY <1>3, <1>4, <3>1, <4>1, EndsThrough
      <4>3. Len(s) < Len(kid)
        BY <1>3, <1>4, <3>1, <4>1, WordTypes
      <4> QED BY <4>2, <4>3 DEF Proper
    <3>4. ASSUME NEW t \in terms \cup {Roster!Root}, Proper(t, kid) PROVE Ends(t, s)
      <4>1. Ends(t, f) /\ t \in Words /\ t # f
        BY <2>1, <2>4, <3>4
      <4>2. Proper(t, f)
        BY <1>4, <4>1, EndsSame, WordTypes DEF Ends, Proper
      <4> QED BY <3>2, <4>2 DEF LongestProper
    <3> HIDE DEF s
    <3> QED BY <3>1, <3>2, <3>3, <3>4 DEF LongestProper
  <2> QED BY <2>2, <2>3, <2>4
<1> QED BY <1>5, <1>7, <1>8

\* The first of the queue goes, its children come behind the others.
Moved(D, q, S, z) ==
  /\ z \in Seq(D \cup S)
  /\ \A i \in DOMAIN z :
       \/ i < Len(q) /\ i + 1 \in DOMAIN q /\ z[i] = q[i + 1]
       \/ i >= Len(q) /\ z[i] \in S
  /\ \A i \in DOMAIN q : i # 1 => \E j \in DOMAIN z : z[j] = q[i]
  /\ \A x \in S : \E j \in DOMAIN z : z[j] = x

LEMMA QueueMoves ==
  ASSUME NEW D, NEW q \in Seq(D), q # <<>>, NEW S, NEW r \in Seq(S),
         \A x \in S : \E i \in DOMAIN r : r[i] = x, NEW z, z = Tail(q) \o r
  PROVE  Moved(D, q, S, z)
<1> DEFINE p == Tail(q)
<1>1. /\ p \in Seq(D) /\ Len(p) = Len(q) - 1 /\ Len(q) \in Nat \ {0} /\ Len(r) \in Nat
      /\ \A i \in 1 .. Len(p) : p[i] = q[i + 1]
  OBVIOUS
<1>2. p \in Seq(D \cup S) /\ r \in Seq(D \cup S) /\ z = p \o r
  BY <1>1
<1> HIDE DEF p
<1>3. /\ z \in Seq(D \cup S) /\ Len(z) = Len(p) + Len(r) /\ DOMAIN z = 1 .. Len(p) + Len(r)
      /\ \A i \in 1 .. Len(p) : z[i] = p[i]
      /\ \A i \in 1 .. Len(r) : z[Len(p) + i] = r[i]
  <2>1. PICK V : V = D \cup S
    OBVIOUS
  <2>2. p \in Seq(V) /\ r \in Seq(V)
    BY <1>2, <2>1
  <2>3. /\ p \o r \in Seq(V) /\ Len(p \o r) = Len(p) + Len(r)
        /\ DOMAIN (p \o r) = 1 .. Len(p) + Len(r)
        /\ \A i \in 1 .. Len(p) : (p \o r)[i] = p[i]
        /\ \A i \in 1 .. Len(r) : (p \o r)[Len(p) + i] = r[i]
    BY <2>2
  <2> QED BY <1>2, <2>1, <2>3, Zenon
<1>4. ASSUME NEW i \in DOMAIN z
      PROVE  \/ i < Len(q) /\ i + 1 \in DOMAIN q /\ z[i] = q[i + 1]
             \/ i >= Len(q) /\ z[i] \in S
  <2>1. CASE i <= Len(p)
    <3>1. i \in 1 .. Len(p) /\ i < Len(q) /\ i + 1 \in DOMAIN q
      BY <1>1, <1>3, <2>1
    <3> QED BY <1>1, <1>3, <3>1
  <2>2. CASE i > Len(p)
    <3>1. i - Len(p) \in 1 .. Len(r) /\ Len(p) + (i - Len(p)) = i
      BY <1>1, <1>3, <2>2
    <3>2. z[i] = r[i - Len(p)]
      BY <1>3, <3>1
    <3> QED BY <1>1, <2>2, <3>1, <3>2
  <2> QED BY <1>1, <1>3, <2>1, <2>2
<1>5. ASSUME NEW i \in DOMAIN q, i # 1 PROVE \E j \in DOMAIN z : z[j] = q[i]
  <2>1. i - 1 \in 1 .. Len(p) /\ i - 1 \in DOMAIN z
    BY <1>1, <1>3, <1>5
  <2>2. z[i - 1] = q[i]
    BY <1>1, <1>3, <1>5, <2>1
  <2> QED BY <2>1, <2>2
<1>6. ASSUME NEW x \in S PROVE \E j \in DOMAIN z : z[j] = x
  <2>1. PICK i \in DOMAIN r : r[i] = x
    OBVIOUS
  <2>2. i \in 1 .. Len(r)
    OBVIOUS
  <2>3. Len(p) + i \in DOMAIN z
    BY <1>1, <1>3, <2>2
  <2>4. z[Len(p) + i] = x
    BY <1>3, <2>1, <2>2
  <2> QED BY <2>3, <2>4
<1> QED BY <1>3, <1>4, <1>5, <1>6 DEF Moved

\* One turn of the loop of buildLinks.
LEMMA LinkKeeps == ASSUME IsFiniteSet(Bytes), RosterInv, Roster!Link PROVE RosterInv'
<1> DEFINE h    == Head(level)
           kids == Roster!Children(h)
           f(kid) == Roster!Step(fail[h], Roster!Last(kid))
<1>1. /\ phase = "link" /\ level # <<>>
      /\ fail' = [n \in trie |-> IF n \in kids THEN f(n) ELSE fail[n]]
      /\ suffixLink' = [n \in trie |-> IF n \in kids THEN Roster!NextTerm(f(n)) ELSE suffixLink[n]]
      /\ level' = Tail(level) \o Roster!SetToSeq(kids)
      /\ UNCHANGED <<trie, terms, phase, read, cur, out>>
  BY DEF Roster!Link
<1>2. Tree
  BY DEF RosterInv
<1>3. PICK D : Linking(D)
  BY <1>1 DEF RosterInv
<1>4. Links(D) /\ terms \subseteq trie /\ level \in Seq(D)
  BY <1>3 DEF Linking
<1>5. /\ h \in D /\ 1 \in DOMAIN level /\ level[1] = h
      /\ h \in trie /\ h \in Words /\ h # Roster!Root /\ Len(h) \in Nat
  <2>1. h \in D /\ 1 \in DOMAIN level /\ level[1] = h
    BY <1>1, <1>4
  <2>2. h \in trie /\ h \in Words /\ h # Roster!Root
    BY <1>2, <1>4, <2>1 DEF Links, Tree
  <2> QED BY <2>1, <2>2, WordTypes
<1>6. \A i \in DOMAIN level : Len(h) <= Len(level[i]) /\ Len(level[i]) <= Len(h) + 1
  <2>1. \A i \in DOMAIN level : 1 <= i
    BY <1>4
  <2> QED BY <1>3, <1>5, <2>1 DEF Linking
<1>7. \A m \in trie \ {Roster!Root} : Len(m) <= Len(h) => m \in D
  BY <1>2, <1>3, <1>5, <1>6, LevelsDone
<1>8. IsFiniteSet(kids)
  BY FiniteChildren
<1>9. Roster!SetToSeq(kids) \in Seq(kids) /\ \A x \in kids : \E i \in DOMAIN Roster!SetToSeq(kids) : Roster!SetToSeq(kids)[i] = x
  BY <1>8, SetToSeqHasAll
<1>10. ASSUME NEW n \in kids
       PROVE  /\ n \in trie /\ n # Roster!Root /\ n \in Words /\ Len(n) = Len(h) + 1
              /\ f(n) \in D \cup {Roster!Root} /\ LongestProper(f(n), n, trie)
              /\ Roster!NextTerm(f(n)) \in trie /\ LongestProper(Roster!NextTerm(f(n)), n, terms \cup {Roster!Root})
  <2>1. PICK b \in Bytes : n = Roster!Child(h, b) /\ n \in trie
    BY DEF Roster!Children
  <2>2. /\ n # Roster!Root /\ n \in Words /\ Len(n) = Len(h) + 1 /\ Roster!Last(n) = b
    BY <1>5, <2>1, ChildWord
  <2>3. f(n) = Roster!Step(fail[h], b)
    BY <2>2
  <2> HIDE DEF h, f
  <2> QED BY <1>2, <1>4, <1>5, <1>7, <2>1, <2>2, <2>3, KidLinks
<1> DEFINE E == D \cup kids
<1> HIDE DEF h, kids, f
<1>11. /\ \A n \in kids : fail'[n] = f(n) /\ suffixLink'[n] = Roster!NextTerm(f(n))
       /\ \A n \in trie \ kids : fail'[n] = fail[n] /\ suffixLink'[n] = suffixLink[n]
       /\ DOMAIN fail' = trie /\ DOMAIN suffixLink' = trie
       /\ Roster!Root \in trie \ kids
  BY <1>1, <1>2, <1>10 DEF Tree
<1>12. ASSUME NEW n \in E PROVE LinkRight(n)' /\ fail'[n] \in E \cup {Roster!Root}
  <2>1. CASE n \in kids
    BY <1>1, <1>10, <1>11, <2>1 DEF LinkRight, LongestProper
  <2>2. CASE n \notin kids
    <3>1. n \in D /\ n \in trie \ kids /\ LinkRight(n) /\ fail[n] \in D \cup {Roster!Root}
      BY <1>4, <2>2 DEF Links
    <3> QED BY <1>1, <1>11, <3>1 DEF LinkRight, LongestProper
  <2> QED BY <2>1, <2>2
<1>13. Tree'
  <2>1. fail' \in [trie -> trie] /\ suffixLink' \in [trie -> trie]
    <3>1. \A n \in trie : fail'[n] \in trie /\ suffixLink'[n] \in trie
      <4>1. \A n \in kids : f(n) \in trie /\ Roster!NextTerm(f(n)) \in trie
        BY <1>2, <1>4, <1>10 DEF Links, Tree
      <4> QED BY <1>2, <1>11, <4>1 DEF Tree
    <3> QED BY <1>1, <3>1
  <2>2. fail'[Roster!Root] = Roster!Root /\ suffixLink'[Roster!Root] = Roster!Root
    BY <1>2, <1>11 DEF Tree
  <2> QED BY <1>1, <1>2, <2>1, <2>2 DEF Tree
<1>14. PICK G : G = E
  OBVIOUS
<1>15. Links(G)'
  <2>1. G \subseteq trie \ {Roster!Root}
    BY <1>4, <1>10, <1>14 DEF Links
  <2>2. \A n \in G : LinkRight(n)' /\ fail'[n] \in G \cup {Roster!Root}
    BY <1>12, <1>14
  <2>3. \A n \in trie \ G : fail'[n] = Roster!Root
    BY <1>4, <1>11, <1>14 DEF Links
  <2> QED BY <1>1, <2>1, <2>2, <2>3 DEF Links
<1>16. /\ level' \in Seq(G)
       /\ \A i \in DOMAIN level' :
            \/ i < Len(level) /\ i + 1 \in DOMAIN level /\ level'[i] = level[i + 1]
            \/ i >= Len(level) /\ level'[i] \in kids
       /\ \A i \in DOMAIN level : i # 1 => \E j \in DOMAIN level' : level'[j] = level[i]
       /\ \A x \in kids : \E j \in DOMAIN level' : level'[j] = x
  <2>1. PICK q, r : q = level /\ r = Roster!SetToSeq(kids)
    OBVIOUS
  <2>2. q \in Seq(D) /\ q # <<>> /\ r \in Seq(kids) /\ \A x \in kids : \E i \in DOMAIN r : r[i] = x
    BY <1>1, <1>4, <1>9, <2>1
  <2>3. PICK z : z = Tail(q) \o r
    OBVIOUS
  <2>4. Moved(D, q, kids, z)
    BY <2>2, <2>3, QueueMoves
  <2>5. level' = z
    BY <1>1, <2>1, <2>3
  <2> QED BY <1>14, <2>1, <2>4, <2>5 DEF Moved
<1>17. \A i, j \in DOMAIN level' :
         i <= j => Len(level'[i]) <= Len(level'[j]) /\ Len(level'[j]) <= Len(level'[i]) + 1
  <2> SUFFICES ASSUME NEW i \in DOMAIN level', NEW j \in DOMAIN level', i <= j
               PROVE  Len(level'[i]) <= Len(level'[j]) /\ Len(level'[j]) <= Len(level'[i]) + 1
    OBVIOUS
  <2>1. i \in Nat /\ j \in Nat /\ Len(level) \in Nat
    BY <1>4, <1>16
  <2>2. CASE i < Len(level) /\ j < Len(level)
    <3>1. /\ level'[i] = level[i + 1] /\ level'[j] = level[j + 1] /\ i + 1 <= j + 1
          /\ i + 1 \in DOMAIN level /\ j + 1 \in DOMAIN level
      BY <1>16, <2>1, <2>2
    <3> QED BY <1>3, <3>1 DEF Linking
  <2>3. CASE i < Len(level) /\ j >= Len(level)
    <3>1. level'[i] = level[i + 1] /\ i + 1 \in DOMAIN level /\ level'[j] \in kids
      BY <1>16, <2>1, <2>3
    <3>2. Len(level'[j]) = Len(h) + 1 /\ Len(h) <= Len(level'[i]) /\ Len(level'[i]) <= Len(h) + 1
      BY <1>6, <1>10, <3>1
    <3>3. Len(level'[i]) \in Nat
      <4>1. level[i + 1] \in Words
        BY <1>2, <1>4, <3>1 DEF Links, Tree
      <4> QED BY <3>1, <4>1, WordTypes
    <3> QED BY <1>5, <3>2, <3>3
  <2>4. CASE i >= Len(level) /\ j >= Len(level)
    <3>1. level'[i] \in kids /\ level'[j] \in kids
      BY <1>16, <2>1, <2>4
    <3>2. Len(level'[i]) = Len(h) + 1 /\ Len(level'[j]) = Len(h) + 1
      BY <1>10, <3>1
    <3> QED BY <1>5, <3>2
  <2> QED BY <2>1, <2>2, <2>3, <2>4
<1>18. ASSUME NEW m \in G \cup {Roster!Root}, ~Queued(m)' PROVE Roster!Children(m) \subseteq G
  <2>1. m \notin kids
    BY <1>16, <1>18 DEF Queued
  <2>2. m \in D \cup {Roster!Root}
    BY <1>14, <2>1
  <2>3. CASE m = h
    BY <1>14, <2>3 DEF kids
  <2>4. CASE m # h
    <3>1. ~Queued(m)
      BY <1>5, <1>16, <1>18, <2>4 DEF Queued
    <3> QED BY <1>3, <1>14, <2>2, <3>1 DEF Linking
  <2> QED BY <2>3, <2>4
<1>19. Linking(G)'
  <2>1. \A m : Roster!Children(m)' = Roster!Children(m)
    BY <1>1 DEF Roster!Children
  <2> QED BY <1>1, <1>4, <1>15, <1>16, <1>17, <1>18, <2>1 DEF Linking
<1> QED BY <1>1, <1>13, <1>19 DEF RosterInv

\* When the queue is empty every node is linked.
LEMMA LinkedKeeps == ASSUME RosterInv, Roster!Linked PROVE RosterInv'
<1>1. /\ phase = "link" /\ level = <<>> /\ phase' = "find"
      /\ UNCHANGED <<terms, trie, fail, suffixLink, level, read, cur, out>>
  BY DEF Roster!Linked
<1>2. Tree /\ read = <<>> /\ cur = Roster!Root /\ out = {}
  BY <1>1 DEF RosterInv
<1>3. PICK D : Linking(D)
  BY <1>1 DEF RosterInv
<1>4. ASSUME NEW m \in trie \ {Roster!Root} PROVE m \in D
  <2>1. Len(m) \in Nat
    BY <1>2, WordTypes DEF Tree
  <2>2. DOMAIN level = {}
    BY <1>1
  <2> QED BY <1>2, <1>3, <2>1, <2>2, LevelsDone
<1>5. D = trie \ {Roster!Root}
  BY <1>3, <1>4 DEF Linking, Links
<1>6. Longest(cur, read, trie)
  BY <1>2, RootWord, EndsSelf, EndsRoot DEF Longest, Tree, Roster!Root
<1>7. Matches(read) = {}
  <2>1. ASSUME NEW t \in terms PROVE Len(t) .. Len(read) = {}
    <3>1. Len(t) \in Nat /\ Len(t) # 0
      BY <1>2, WordTypes DEF Tree
    <3>2. Len(read) = 0
      BY <1>2
    <3> QED BY <3>1, <3>2
  <2> QED BY <2>1 DEF Matches
<1>8. Finding
  BY <1>2, <1>3, <1>5, <1>6, <1>7, RootWord DEF Finding, Linking, Roster!Root
<1>9. Finding'
  BY <1>1, <1>8 DEF Finding, Links, LinkRight, LongestProper, Longest, Matches
<1> QED BY <1>1, <1>2, <1>9 DEF RosterInv, Tree

\* The automaton reads a byte.
LEMMA ReadsOn ==
  ASSUME Tree, Links(trie \ {Roster!Root}), NEW w \in Words, NEW n, Longest(n, w, trie), NEW b \in Bytes
  PROVE  Longest(Roster!Step(n, b), Roster!Child(w, b), trie)
<1>1. n \in trie /\ n \in Words /\ n \in (trie \ {Roster!Root}) \cup {Roster!Root} /\ Ends(n, w)
  BY DEF Longest, Tree
<1>2. Longest(Roster!Step(n, b), Roster!Child(n, b), trie)
  BY <1>1, StepIsLongest
<1> DEFINE s == Roster!Step(n, b)
<1> HIDE DEF s
<1>3. s \in trie /\ s \in Words /\ Ends(s, Roster!Child(n, b)) /\ Longest(s, Roster!Child(n, b), trie)
  BY <1>2 DEF Longest, Tree, s
<1>4. Roster!Child(n, b) \in Words /\ Roster!Child(w, b) \in Words /\ Ends(Roster!Child(n, b), Roster!Child(w, b))
  BY <1>1, ChildWord, EndsChild
<1>5. Ends(s, Roster!Child(w, b))
  BY <1>3, <1>4, EndsThrough
<1>6. ASSUME NEW t \in trie, Ends(t, Roster!Child(w, b)) PROVE Ends(t, s)
  <2>1. CASE t = Roster!Root
    BY <1>3, <2>1, RootEnds
  <2>2. CASE t # Roster!Root
    <3>1. t \in Words
      BY DEF Tree
    <3>2. PICK r \in Words : t = Roster!Child(r, b) /\ Ends(r, w)
      BY <1>6, <2>2, <3>1, EndsSplits
    <3>3. r \in trie
      BY <3>2, ParentIn
    <3>4. Ends(r, n)
      BY <3>2, <3>3 DEF Longest
    <3>5. Ends(t, Roster!Child(n, b))
      BY <1>1, <3>2, <3>4, EndsChild
    <3> QED BY <1>3, <3>5 DEF Longest
  <2> QED BY <2>1, <2>2
<1>7. Longest(s, Roster!Child(w, b), trie)
  BY <1>3, <1>5, <1>6 DEF Longest
<1> QED BY <1>7 DEF s

\* What a byte more adds to what there is to find.
LEMMA OccursBefore ==
  ASSUME NEW t \in Words, NEW w \in Words, NEW b \in Bytes, NEW k \in Len(t) .. Len(w)
  PROVE  Occurs(t, k, Roster!Child(w, b)) <=> Occurs(t, k, w)
<1>1. ASSUME NEW i \in 1 .. Len(t) PROVE Roster!Child(w, b)[k - Len(t) + i] = w[k - Len(t) + i]
  <2>1. k - Len(t) + i \in 1 .. Len(w)
    BY WordTypes
  <2> QED BY <2>1, ChildWord
<1> QED BY <1>1 DEF Occurs

LEMMA OccursAtEnd ==
  ASSUME NEW t \in Words, NEW w \in Words
  PROVE  Len(t) <= Len(w) /\ Occurs(t, Len(w), w) <=> Ends(t, w)
BY DEF Occurs, Ends

LEMMA MatchesOfChild ==
  ASSUME terms \subseteq Words, NEW w \in Words, NEW b \in Bytes
  PROVE  Matches(Roster!Child(w, b))
           = Matches(w) \cup {Roster!Match(t, Len(w) + 1) : t \in {u \in terms : Ends(u, Roster!Child(w, b))}}
<1> DEFINE v == Roster!Child(w, b)
           new == {Roster!Match(t, Len(w) + 1) : t \in {u \in terms : Ends(u, v)}}
<1>1. v \in Words /\ Len(v) = Len(w) + 1 /\ Len(w) \in Nat
  BY ChildWord, WordTypes
<1>2. ASSUME NEW m \in Matches(v) PROVE m \in Matches(w) \cup new
  <2>1. PICK t \in terms : \E k \in Len(t) .. Len(v) : Occurs(t, k, v) /\ m = Roster!Match(t, k)
    <3> HIDE DEF v
    <3> QED BY DEF Matches
  <2>a. PICK k \in Len(t) .. Len(v) : Occurs(t, k, v) /\ m = Roster!Match(t, k)
    BY <2>1
  <2>2. t \in Words /\ Len(t) \in Nat
    BY WordTypes
  <2>3. CASE k = Len(v)
    <3>1. Ends(t, v)
      BY <1>1, <2>a, <2>2, <2>3, OccursAtEnd
    <3> QED BY <1>1, <2>a, <2>3, <3>1
  <2>4. CASE k # Len(v)
    <3>1. k \in Len(t) .. Len(w)
      BY <1>1, <2>a, <2>2, <2>4
    <3>2. Occurs(t, k, w)
      BY <2>a, <2>2, <3>1, OccursBefore
    <3> QED BY <2>a, <3>1, <3>2 DEF Matches
  <2> QED BY <2>3, <2>4
<1>3. ASSUME NEW m \in Matches(w) PROVE m \in Matches(v)
  <2>1. PICK t \in terms : \E k \in Len(t) .. Len(w) : Occurs(t, k, w) /\ m = Roster!Match(t, k)
    BY DEF Matches
  <2>a. PICK k \in Len(t) .. Len(w) : Occurs(t, k, w) /\ m = Roster!Match(t, k)
    BY <2>1
  <2>2. t \in Words /\ Len(t) \in Nat
    BY WordTypes
  <2>3. Occurs(t, k, v) /\ k \in Len(t) .. Len(v)
    <3>1. Occurs(t, k, v)
      BY <2>a, <2>2, OccursBefore
    <3> QED BY <1>1, <2>2, <3>1
  <2> HIDE DEF v
  <2> QED BY <2>a, <2>3 DEF Matches
<1>4. ASSUME NEW m \in new PROVE m \in Matches(v)
  <2>1. PICK t \in terms : Ends(t, v) /\ m = Roster!Match(t, Len(v))
    BY <1>1
  <2>2. t \in Words /\ Len(t) \in Nat
    BY WordTypes
  <2>3. Len(v) \in Len(t) .. Len(v) /\ Occurs(t, Len(v), v)
    BY <1>1, <2>1, <2>2, OccursAtEnd
  <2> HIDE DEF v
  <2> QED BY <2>1, <2>3 DEF Matches
<1> HIDE DEF new, v
<1>5. Matches(v) = Matches(w) \cup new
  BY <1>2, <1>3, <1>4
<1> QED BY <1>5 DEF new, v

LEMMA FindKeeps == ASSUME RosterInv, Roster!FindAll PROVE RosterInv'
<1>1. PICK b \in Bytes : /\ read' = Roster!Child(read, b) /\ cur' = Roster!Step(cur, b)
                         /\ out' = out \cup {Roster!Match(t, Len(read) + 1) : t \in Roster!Ending(cur')}
  BY DEF Roster!FindAll, Roster!Child
<1>2. phase = "find" /\ UNCHANGED <<terms, trie, fail, suffixLink, level, phase>>
  BY DEF Roster!FindAll
<1>3. /\ Tree /\ Links(trie \ {Roster!Root}) /\ terms \subseteq trie /\ read \in Words
      /\ Longest(cur, read, trie) /\ out = Matches(read)
  BY <1>2 DEF RosterInv, Finding
<1>4. PICK n, w : n = cur' /\ w = read'
  OBVIOUS
<1>5. w = Roster!Child(read, b) /\ w \in Words /\ Longest(n, w, trie)
  BY <1>1, <1>3, <1>4, ReadsOn, ChildWord
<1>6. n \in trie /\ n \in Words /\ Ends(n, w)
  BY <1>3, <1>5 DEF Longest, Tree
<1>7. Roster!Ending(n) = {t \in terms : Ends(t, n)}
  BY <1>3, <1>6, EndingFindsTerms DEF Links
<1>8. ASSUME NEW t \in terms PROVE Ends(t, n) <=> Ends(t, w)
  <2>1. t \in trie /\ t \in Words
    BY <1>3 DEF Tree
  <2> QED BY <1>5, <1>6, <2>1, EndsThrough DEF Longest
<1>9. out' = Matches(w)
  <2>1. Roster!Ending(n) = {t \in terms : Ends(t, w)}
    BY <1>7, <1>8
  <2>2. out' = Matches(read) \cup {Roster!Match(t, Len(read) + 1) : t \in {u \in terms : Ends(u, w)}}
    BY <1>1, <1>3, <1>4, <2>1
  <2>3. terms \subseteq Words
    BY <1>3 DEF Tree
  <2> QED BY <1>3, <1>5, <2>2, <2>3, MatchesOfChild
<1>10. Matches(w)' = Matches(w)
  BY <1>2 DEF Matches
<1>11. Finding'
  BY <1>2, <1>3, <1>4, <1>5, <1>9, <1>10 DEF Finding, Links, LinkRight, LongestProper, Longest, Matches
<1> QED BY <1>2, <1>3, <1>11 DEF RosterInv, Tree

LEMMA RosterStep == ASSUME IsFiniteSet(Bytes) PROVE RosterInv /\ [Roster!Next]_(Roster!vars) => RosterInv'
<1> SUFFICES ASSUME RosterInv, [Roster!Next]_(Roster!vars) PROVE RosterInv'
  OBVIOUS
<1>1. CASE UNCHANGED Roster!vars
  BY <1>1 DEF Roster!vars, RosterInv, Tree, Unlinked, Linking, Links, LinkRight, LongestProper, Queued,
              Roster!Children, Finding, Longest, Matches
<1> QED BY <1>1, NewKeeps, InsertKeeps, StartKeeps, LinkKeeps, LinkedKeeps, FindKeeps DEF Roster!Next

-----------------------------------------------------------------------------
\* The places of a term, as FindsEveryTerm states them.
LEMMA PlacesOfTerm ==
  ASSUME NEW t \in Words, t # Roster!Root, NEW w \in Words
  PROVE  {m \in [from : {k - Len(t) : k \in Len(t) .. Len(w)}, to : 1 .. Len(w)] :
            m.to = m.from + Len(t) /\ SubSeq(w, m.from + 1, m.to) = t}
           = {Roster!Match(t, k) : k \in {l \in Len(t) .. Len(w) : Occurs(t, l, w)}}
<1>1. Len(t) \in Nat \ {0} /\ Len(w) \in Nat
  BY WordTypes
<1>2. ASSUME NEW k \in Len(t) .. Len(w)
      PROVE  SubSeq(w, k - Len(t) + 1, k) = t <=> Occurs(t, k, w)
  <2> DEFINE s == SubSeq(w, k - Len(t) + 1, k)
  <2>1. /\ s \in Words /\ Len(s) = Len(t)
        /\ \A i \in 1 .. Len(t) : s[i] = w[k - Len(t) + i]
    BY <1>1 DEF Words
  <2> HIDE DEF s
  <2>2. s = t <=> \A i \in 1 .. Len(t) : s[i] = t[i]
    BY <2>1, SameWord
  <2>3. s = t <=> Occurs(t, k, w)
    BY <2>1, <2>2 DEF Occurs
  <2> QED BY <2>3 DEF s
<1> DEFINE all == [from : {k - Len(t) : k \in Len(t) .. Len(w)}, to : 1 .. Len(w)]
           lhs == {m \in all : m.to = m.from + Len(t) /\ SubSeq(w, m.from + 1, m.to) = t}
           rhs == {Roster!Match(t, k) : k \in {l \in Len(t) .. Len(w) : Occurs(t, l, w)}}
<1>3. ASSUME NEW m \in lhs PROVE m \in rhs
  <2>1. PICK k \in Len(t) .. Len(w) : m.from = k - Len(t)
    OBVIOUS
  <2>2. m.to = k /\ m = [from |-> k - Len(t), to |-> k]
    BY <1>1, <2>1
  <2>3. Occurs(t, k, w)
    BY <1>2, <2>1, <2>2
  <2> QED BY <2>2, <2>3 DEF Roster!Match
<1>4. ASSUME NEW m \in rhs PROVE m \in lhs
  <2>1. PICK k \in Len(t) .. Len(w) : Occurs(t, k, w) /\ m = [from |-> k - Len(t), to |-> k]
    BY DEF Roster!Match
  <2>2. SubSeq(w, m.from + 1, m.to) = t
    BY <1>2, <2>1
  <2>3. k \in 1 .. Len(w) /\ k = k - Len(t) + Len(t)
    BY <1>1
  <2> QED BY <2>1, <2>2, <2>3
<1> HIDE DEF lhs, rhs
<1>5. lhs = rhs
  BY <1>3, <1>4
<1> QED BY <1>5 DEF lhs, rhs

\* After NewGazetteerDetector has built the automaton (ahocorasick.go: buildLinks) the
\* links are right whatever the terms, and after any text it is at the longest suffix
\* of it that is in the trie.
THEOREM RosterInvariant == ASSUME IsFiniteSet(Bytes) PROVE Roster!Spec => []RosterInv
  BY RosterInit, RosterStep, PTL DEF Roster!Spec

\* FindAll (ahocorasick.go) finds every occurrence of every term, those within others
\* too, and nothing else.
THEOREM RosterFindsEveryTerm == ASSUME IsFiniteSet(Bytes) PROVE Roster!Spec => []Roster!FindsEveryTerm
<1>1. RosterInv => Roster!FindsEveryTerm
  <2> SUFFICES ASSUME RosterInv, phase = "find" PROVE Roster!FindsEveryTerm
    BY DEF Roster!FindsEveryTerm
  <2>1. /\ read \in Words /\ out = Matches(read)
        /\ \A t \in terms : t \in Words /\ t # Roster!Root
    BY DEF RosterInv, Finding, Tree
  <2> DEFINE Places(t) ==
        {m \in [from : {k - Len(t) : k \in Len(t) .. Len(read)}, to : 1 .. Len(read)] :
           m.to = m.from + Len(t) /\ SubSeq(read, m.from + 1, m.to) = t}
  <2>2. \A t \in terms : Places(t) = {Roster!Match(t, k) : k \in {l \in Len(t) .. Len(read) : Occurs(t, l, read)}}
    BY <2>1, PlacesOfTerm
  <2> HIDE DEF Places
  <2>3. out = UNION {Places(t) : t \in terms}
    BY <2>1, <2>2 DEF Matches
  <2> QED BY <2>3 DEF Places, Roster!FindsEveryTerm
<1> QED BY <1>1, RosterInvariant, PTL

-----------------------------------------------------------------------------
(***************************************************************************)
(* Detection and the resolution of overlaps (Detection, Overlaps).         *)
(***************************************************************************)
\* A finite set is not the end of an endless chain of its subsets.
LEMMA MinimalSubset ==
  ASSUME NEW S, IsFiniteSet(S), NEW Q \in SUBSET (SUBSET S), Q # {}
  PROVE  \E T \in Q : \A U \in Q : ~(U \subseteq T /\ U # T)
<1> DEFINE R == StrictSubsetOrdering(S)
<1>1. IsWellFoundedOn(R, SUBSET S)
  BY FS_StrictSubsetOrderingWellFounded, FS_FiniteSubsetsOfFinite
<1> HIDE DEF R
<1>2. PICK T \in Q : \A U \in Q : ~(<<U, T>> \in R)
  BY <1>1, WFMin
<1>3. ASSUME NEW U \in Q, U \subseteq T, U # T PROVE FALSE
  BY <1>2, <1>3 DEF R, StrictSubsetOrdering
<1> QED BY <1>3

\* Taking the best first: beats orders S, and one of S is taken unless one that is
\* taken beats it and conflicts with it.
Orders(beats, S) ==
  /\ \A x \in S : <<x, x>> \notin beats
  /\ \A x, y \in S : x = y \/ <<x, y>> \in beats \/ <<y, x>> \in beats
  /\ \A x, y, z \in S : <<x, y>> \in beats /\ <<y, z>> \in beats => <<x, z>> \in beats
Taken(kept, S, beats, conflicts) ==
  /\ kept \subseteq S
  /\ \A e \in S : e \in kept <=> ~\E k \in kept : <<k, e>> \in beats /\ <<k, e>> \in conflicts

LEMMA Weakest ==
  ASSUME NEW S, IsFiniteSet(S), S # {}, NEW beats, Orders(beats, S)
  PROVE  \E m \in S : \A x \in S : x = m \/ <<x, m>> \in beats
<1> DEFINE Below(m) == {y \in S : y = m \/ <<m, y>> \in beats}
           Q == {Below(m) : m \in S}
<1>1. Q \in SUBSET (SUBSET S) /\ Q # {}
  OBVIOUS
<1> HIDE DEF Q
<1>2. PICK T \in Q : \A U \in Q : ~(U \subseteq T /\ U # T)
  BY <1>1, MinimalSubset
<1>3. PICK m \in S : T = Below(m)
  BY DEF Q
<1>4. ASSUME NEW x \in S, x # m, <<x, m>> \notin beats PROVE FALSE
  <2>1. <<m, x>> \in beats
    BY <1>4 DEF Orders
  <2>2. Below(x) \subseteq Below(m)
    BY <2>1 DEF Orders
  <2>3. m \in Below(m) /\ m \notin Below(x)
    BY <1>4
  <2>4. Below(x) \in Q
    BY DEF Q
  <2> QED BY <1>2, <1>3, <2>2, <2>3, <2>4
<1> QED BY <1>4

LEMMA Strongest ==
  ASSUME NEW S, IsFiniteSet(S), S # {}, NEW beats, Orders(beats, S)
  PROVE  \E m \in S : \A x \in S : x = m \/ <<m, x>> \in beats
<1> DEFINE back == {p \in S \X S : <<p[2], p[1]>> \in beats}
<1>1. \A x, y \in S : <<x, y>> \in back <=> <<y, x>> \in beats
  OBVIOUS
<1> HIDE DEF back
<1>2. Orders(back, S)
  BY <1>1 DEF Orders
<1>3. PICK m \in S : \A x \in S : x = m \/ <<x, m>> \in back
  BY <1>2, Weakest
<1> QED BY <1>1, <1>3

LEMMA OrdersPart ==
  ASSUME NEW S, NEW T \in SUBSET S, NEW beats, Orders(beats, S) PROVE Orders(beats, T)
BY DEF Orders

LEMMA TakenExists ==
  ASSUME NEW S, IsFiniteSet(S), NEW beats, Orders(beats, S), NEW conflicts
  PROVE  \E kept : Taken(kept, S, beats, conflicts)
<1> DEFINE Q == {T \in SUBSET S : ~\E kept : Taken(kept, T, beats, conflicts)}
<1>1. SUFFICES ASSUME Q # {} PROVE FALSE
  OBVIOUS
<1>a. Q \in SUBSET (SUBSET S)
  OBVIOUS
<1>2. PICK T \in Q : \A U \in Q : ~(U \subseteq T /\ U # T)
  <2> HIDE DEF Q
  <2> QED BY <1>1, <1>a, MinimalSubset
<1>3. T \in SUBSET S /\ IsFiniteSet(T) /\ Orders(beats, T)
  BY FS_Subset, OrdersPart
<1>4. T # {}
  <2>1. Taken({}, {}, beats, conflicts)
    BY DEF Taken
  <2> QED BY <2>1
<1>5. PICK m \in T : \A x \in T : x = m \/ <<x, m>> \in beats
  BY <1>3, <1>4, Weakest
<1>6. T \ {m} \notin Q
  BY <1>2
<1>7. PICK kept : Taken(kept, T \ {m}, beats, conflicts)
  BY <1>3, <1>6
<1> DEFINE all == IF \E k \in kept : <<k, m>> \in conflicts THEN kept ELSE kept \cup {m}
<1>8. \A x \in T : <<m, x>> \notin beats
  BY <1>3, <1>5 DEF Orders
<1>9. kept \subseteq T \ {m} /\ \A k \in kept : <<k, m>> \in beats
  BY <1>5, <1>7 DEF Taken
<1>10. ASSUME NEW e \in T, e # m
       PROVE  e \in all <=> ~\E k \in all : <<k, e>> \in beats /\ <<k, e>> \in conflicts
  <2>1. e \in all <=> e \in kept
    BY <1>10
  <2>2. e \in kept <=> ~\E k \in kept : <<k, e>> \in beats /\ <<k, e>> \in conflicts
    BY <1>7, <1>10 DEF Taken
  <2>3. <<m, e>> \notin beats
    BY <1>8
  <2> QED BY <2>1, <2>2, <2>3
<1>11. m \in all <=> ~\E k \in all : <<k, m>> \in beats /\ <<k, m>> \in conflicts
  <2>1. <<m, m>> \notin beats
    BY <1>8
  <2>2. m \notin kept
    BY <1>9
  <2>3. CASE \E k \in kept : <<k, m>> \in conflicts
    BY <2>3, <2>2, <1>9
  <2>4. CASE ~\E k \in kept : <<k, m>> \in conflicts
    BY <2>4, <2>1
  <2> QED BY <2>3, <2>4
<1>12. all \subseteq T
  BY <1>9
<1>13. Taken(all, T, beats, conflicts)
  <2> HIDE DEF all
  <2> QED BY <1>10, <1>11, <1>12 DEF Taken
<1> QED BY <1>13

LEMMA TakenOnce ==
  ASSUME NEW S, IsFiniteSet(S), NEW beats, Orders(beats, S), NEW conflicts,
         NEW a, Taken(a, S, beats, conflicts), NEW b, Taken(b, S, beats, conflicts)
  PROVE  a = b
<1> DEFINE D == {e \in S : (e \in a) # (e \in b)}
<1>1. SUFFICES ASSUME D # {} PROVE FALSE
  BY DEF Taken
<1>2. D \subseteq S /\ IsFiniteSet(D) /\ Orders(beats, D)
  <2>1. D \in SUBSET S
    OBVIOUS
  <2> HIDE DEF D
  <2> QED BY <2>1, FS_Subset, OrdersPart
<1>3. PICK m \in D : \A x \in D : x = m \/ <<m, x>> \in beats
  <2> HIDE DEF D
  <2> QED BY <1>1, <1>2, Strongest
<1>4. \A k \in S : <<k, m>> \in beats => (k \in a <=> k \in b)
  <2> SUFFICES ASSUME NEW k \in S, <<k, m>> \in beats, (k \in a) # (k \in b) PROVE FALSE
    OBVIOUS
  <2>1. k \in D
    OBVIOUS
  <2>2. k = m \/ <<m, k>> \in beats
    BY <2>1, <1>3
  <2> QED BY <2>2 DEF Orders
<1>5. m \in a <=> m \in b
  BY <1>4 DEF Taken
<1> QED BY <1>5

LEMMA FiniteValues ==
  ASSUME NEW S, IsFiniteSet(S), NEW f
  PROVE  IsFiniteSet({f[x] : x \in S})
<1> DEFINE T == {f[x] : x \in S}
           g == [x \in S |-> f[x]]
<1>1. g \in [S -> T] /\ \A t \in T : \E x \in S : g[x] = t
  OBVIOUS
<1>2. g \in Surjection(S, T)
  <2> HIDE DEF T, g
  <2> QED BY <1>1 DEF Surjection
<1> HIDE DEF T, g
<1>3. IsFiniteSet(T)
  BY <1>2, FS_Surjection
<1> QED BY <1>3 DEF T

\* The spans of a text, and of a text of n places; an entity is what its fields say.
Spans      == {e \in [from : Nat, to : Nat, kind : {"settled", "guess"}] : e.from < e.to}
SpansTo(n) == {e \in [from : 0 .. n - 1, to : 1 .. n, kind : {"settled", "guess"}] : e.from < e.to}

LEMMA SpanFields ==
  ASSUME NEW e \in Spans
  PROVE  /\ e.from \in Nat /\ e.to \in Nat /\ e.from < e.to /\ e.kind \in {"settled", "guess"}
         /\ e = [from |-> e.from, to |-> e.to, kind |-> e.kind]
BY DEF Spans

LEMMA FiniteSpans ==
  ASSUME NEW n \in Nat
  PROVE  SpansTo(n) \subseteq Spans /\ IsFiniteSet(SpansTo(n))
<1> DEFINE Kinds == {"settled", "guess"}
           Spots == (0 .. n - 1) \X (1 .. n)
           Triples == Spots \X Kinds
           rec == [t \in Triples |-> [from |-> t[1][1], to |-> t[1][2], kind |-> t[2]]]
           Records == {rec[t] : t \in Triples}
<1>1. IsFiniteSet(0 .. n - 1) /\ IsFiniteSet(1 .. n)
  BY FS_Interval
<1>2. IsFiniteSet(Spots)
  BY <1>1, FS_Product
<1>3. IsFiniteSet(Kinds)
  <2>1. IsFiniteSet({"settled"})
    BY FS_Singleton
  <2>2. IsFiniteSet({"settled"} \cup {"guess"})
    BY <2>1, FS_AddElement
  <2>3. Kinds = {"settled"} \cup {"guess"}
    OBVIOUS
  <2> QED BY <2>2, <2>3
<1>4. IsFiniteSet(Triples)
  <2> HIDE DEF Spots, Kinds
  <2> QED BY <1>2, <1>3, FS_Product
<1>5. IsFiniteSet(Records)
  <2> HIDE DEF Triples, rec
  <2> QED BY <1>4, FiniteValues
<1>6. ASSUME NEW e \in SpansTo(n) PROVE e \in Records /\ e \in Spans
  <2>1. e.from \in 0 .. n - 1 /\ e.to \in 1 .. n /\ e.kind \in Kinds /\ e.from < e.to
    BY DEF SpansTo
  <2>2. <<<<e.from, e.to>>, e.kind>> \in Triples
    BY <2>1
  <2>3. e = [from |-> e.from, to |-> e.to, kind |-> e.kind]
    BY DEF SpansTo
  <2>4. rec[<<<<e.from, e.to>>, e.kind>>] = e
    BY <2>2, <2>3
  <2>5. e \in Spans
    BY <2>1, <2>3 DEF Spans
  <2> HIDE DEF Triples, rec
  <2> QED BY <2>2, <2>4, <2>5
<1> HIDE DEF Records
<1> QED BY <1>5, <1>6, FS_Subset

\* Longest first, then settled before a guess, then the earlier start.
Longer(e, f) ==
  \/ Detect!Len(e) > Detect!Len(f)
  \/ /\ Detect!Len(e) = Detect!Len(f)
     /\ \/ Detect!Confidence(e) > Detect!Confidence(f)
        \/ Detect!Confidence(e) = Detect!Confidence(f) /\ e.from < f.from

LEMMA RankIsLonger ==
  ASSUME NEW n \in Nat, NEW e \in Spans, NEW f \in Spans
  PROVE  Longer(e, f) <=> \E i \in 1 .. 3 :
           Detect!Above(<<Detect!Len(e), Detect!Confidence(e), n - e.from>>,
                        <<Detect!Len(f), Detect!Confidence(f), n - f.from>>, i)
<1> DEFINE a == <<Detect!Len(e), Detect!Confidence(e), n - e.from>>
           b == <<Detect!Len(f), Detect!Confidence(f), n - f.from>>
<1>1. /\ Detect!Len(e) \in Nat /\ Detect!Len(f) \in Nat /\ e.from \in Nat /\ f.from \in Nat
      /\ Detect!Confidence(e) \in Nat /\ Detect!Confidence(f) \in Nat
  BY SpanFields DEF Detect!Len, Detect!Confidence
<1>2. (\E i \in 1 .. 3 : Detect!Above(a, b, i)) <=>
        Detect!Above(a, b, 1) \/ Detect!Above(a, b, 2) \/ Detect!Above(a, b, 3)
  <2>1. 1 .. 3 = {1, 2, 3}
    OBVIOUS
  <2> HIDE DEF a, b
  <2> QED BY <2>1
<1>3. Detect!Above(a, b, 1) <=> Detect!Len(e) > Detect!Len(f)
  BY DEF Detect!Above
<1>4. Detect!Above(a, b, 2) <=>
        Detect!Len(e) = Detect!Len(f) /\ Detect!Confidence(e) > Detect!Confidence(f)
  <2>1. 1 .. 2 - 1 = {1}
    OBVIOUS
  <2> QED BY <2>1 DEF Detect!Above
<1>5. Detect!Above(a, b, 3) <=>
        /\ Detect!Len(e) = Detect!Len(f) /\ Detect!Confidence(e) = Detect!Confidence(f)
        /\ n - e.from > n - f.from
  <2>1. 1 .. 3 - 1 = {1, 2}
    OBVIOUS
  <2> QED BY <2>1 DEF Detect!Above
<1> HIDE DEF a, b
<1>6. Longer(e, f) <=> \E i \in 1 .. 3 : Detect!Above(a, b, i)
  BY <1>1, <1>2, <1>3, <1>4, <1>5 DEF Longer
<1> QED BY <1>6 DEF a, b

BeatsOn(S)    == {p \in S \X S : Longer(p[1], p[2])}
OverlapsOn(S) == {p \in S \X S : Detect!Overlaps(p[1], p[2])}

LEMMA BeatsOrders ==
  ASSUME NEW S \in SUBSET Spans, IsFiniteSet(S)
  PROVE  Orders(BeatsOn(S), S)
<1>1. \A e, f \in S : <<e, f>> \in BeatsOn(S) <=> Longer(e, f)
  BY DEF BeatsOn
<1>2. \A e \in S : ~Longer(e, e)
  BY SpanFields DEF Longer, Detect!Len, Detect!Confidence
<1>3. ASSUME NEW e \in S, NEW f \in S PROVE e = f \/ Longer(e, f) \/ Longer(f, e)
  <2>1. SUFFICES ASSUME ~Longer(e, f), ~Longer(f, e) PROVE e = f
    OBVIOUS
  <2>2. Detect!Len(e) = Detect!Len(f) /\ Detect!Confidence(e) = Detect!Confidence(f) /\ e.from = f.from
    BY <2>1, SpanFields DEF Longer, Detect!Len, Detect!Confidence
  <2>3. e.to = f.to /\ e.kind = f.kind
    BY <2>2, SpanFields DEF Detect!Len, Detect!Confidence
  <2>4. /\ e = [from |-> e.from, to |-> e.to, kind |-> e.kind]
        /\ f = [from |-> f.from, to |-> f.to, kind |-> f.kind]
    BY SpanFields
  <2> QED BY <2>2, <2>3, <2>4
<1>4. ASSUME NEW e \in S, NEW f \in S, NEW g \in S, Longer(e, f), Longer(f, g) PROVE Longer(e, g)
  <2>1. \A x \in S : Detect!Len(x) \in Nat /\ Detect!Confidence(x) \in Nat /\ x.from \in Nat
    BY SpanFields DEF Detect!Len, Detect!Confidence
  <2> QED BY <1>4, <2>1 DEF Longer
<1> QED BY <1>1, <1>2, <1>3, <1>4 DEF Orders

GreedyIs(kept, S) ==
  /\ kept \subseteq S
  /\ \A e \in S : e \in kept <=> ~\E k \in kept : Longer(k, e) /\ Detect!Overlaps(k, e)

\* What greedy resolution leaves, of all spans at once and of each component.
Best(S)  == CHOOSE kept \in SUBSET S : GreedyIs(kept, S)
Sweep(S) == UNION {Best(Detect!Component(S, e)) : e \in S}

LEMMA GreedyTaken ==
  ASSUME NEW S, NEW kept, kept \subseteq S
  PROVE  GreedyIs(kept, S) <=> Taken(kept, S, BeatsOn(S), OverlapsOn(S))
BY DEF GreedyIs, Taken, BeatsOn, OverlapsOn

LEMMA GreedyChosen ==
  ASSUME NEW S \in SUBSET Spans, IsFiniteSet(S)
  PROVE  GreedyIs(Best(S), S)
<1>1. IsFiniteSet(S) /\ Orders(BeatsOn(S), S)
  BY FS_Subset, BeatsOrders
<1>2. PICK kept : Taken(kept, S, BeatsOn(S), OverlapsOn(S))
  BY <1>1, TakenExists
<1>3. kept \in SUBSET S /\ GreedyIs(kept, S)
  BY <1>2, GreedyTaken DEF Taken
<1> QED BY <1>3 DEF GreedyIs, Best

LEMMA GreedyOnly ==
  ASSUME NEW S \in SUBSET Spans, IsFiniteSet(S), NEW kept, GreedyIs(kept, S)
  PROVE  kept = Best(S)
<1>1. IsFiniteSet(S) /\ Orders(BeatsOn(S), S)
  BY FS_Subset, BeatsOrders
<1>2. GreedyIs(Best(S), S)
  BY GreedyChosen
<1>3. /\ Taken(kept, S, BeatsOn(S), OverlapsOn(S))
      /\ Taken(Best(S), S, BeatsOn(S), OverlapsOn(S))
  BY <1>2, GreedyTaken DEF GreedyIs
<1> QED BY <1>1, <1>3, TakenOnce

\* What greedy resolution leaves does not overlap, and covers what it drops with
\* something that was preferred to it.
LEMMA SpansGreedy ==
  ASSUME NEW S \in SUBSET Spans, IsFiniteSet(S), NEW kept, GreedyIs(kept, S)
  PROVE  /\ \A e, f \in kept : e # f => ~Detect!Overlaps(e, f)
         /\ \A e \in S : \E k \in kept : Detect!Overlaps(k, e) /\ (k = e \/ Longer(k, e))
         /\ \A e \in S : (\A f \in S : f = e \/ ~Detect!Overlaps(f, e)) => e \in kept
<1>0. kept \subseteq S
  BY DEF GreedyIs
<1>1. ASSUME NEW e \in kept, NEW f \in kept, e # f, Detect!Overlaps(e, f) PROVE FALSE
  <2>1. Detect!Overlaps(f, e)
    BY <1>1 DEF Detect!Overlaps
  <2>2. <<e, f>> \in BeatsOn(S) \/ <<f, e>> \in BeatsOn(S)
    BY <1>0, <1>1, BeatsOrders DEF Orders
  <2>3. Longer(e, f) \/ Longer(f, e)
    BY <2>2 DEF BeatsOn
  <2> QED BY <1>0, <1>1, <2>1, <2>3 DEF GreedyIs
<1>2. ASSUME NEW e \in S
      PROVE  \E k \in kept : Detect!Overlaps(k, e) /\ (k = e \/ Longer(k, e))
  <2>1. CASE e \in kept
    <3>1. Detect!Overlaps(e, e)
      BY SpanFields DEF Detect!Overlaps
    <3> QED BY <2>1, <3>1
  <2>2. CASE e \notin kept
    <3>1. PICK k \in kept : Longer(k, e) /\ Detect!Overlaps(k, e)
      BY <2>2 DEF GreedyIs
    <3> QED BY <3>1
  <2> QED BY <2>1, <2>2
<1>3. ASSUME NEW e \in S, \A f \in S : f = e \/ ~Detect!Overlaps(f, e) PROVE e \in kept
  <2>1. PICK k \in kept : Detect!Overlaps(k, e)
    BY <1>2
  <2> QED BY <1>0, <1>3, <2>1
<1> QED BY <1>1, <1>2, <1>3

LEMMA MaxEndReached ==
  ASSUME NEW S \in SUBSET Spans, IsFiniteSet(S), NEW f \in S
  PROVE  Detect!MaxEnd(S) \in Nat /\ f.to <= Detect!MaxEnd(S)
<1> DEFINE val == [x \in S |-> x.to]
           ends == {val[x] : x \in S}
           more == {p \in ends \X ends : p[1] > p[2]}
<1>1. IsFiniteSet(S)
  BY FS_Subset
<1>2. IsFiniteSet(ends)
  <2> HIDE DEF val
  <2> QED BY <1>1, FiniteValues
<1>3. ends = {x.to : x \in S} /\ ends \subseteq Nat /\ f.to \in ends
  BY SpanFields
<1>a. \A x, y \in ends : <<x, y>> \in more <=> x > y
  <2> HIDE DEF ends
  <2> QED OBVIOUS
<1> HIDE DEF ends, more
<1>4. Orders(more, ends)
  BY <1>3, <1>a DEF Orders
<1>5. PICK m \in ends : \A x \in ends : x = m \/ <<m, x>> \in more
  BY <1>2, <1>3, <1>4, Strongest
<1>6. ASSUME NEW x \in ends PROVE x <= m
  <2>1. x \in Nat /\ m \in Nat
    BY <1>3, <1>5
  <2>2. x = m \/ m > x
    BY <1>5, <1>a
  <2> QED BY <2>1, <2>2
<1>7. m \in {x.to : x \in S} /\ \A x \in S : x.to <= m
  BY <1>3, <1>5, <1>6
<1>8. Detect!MaxEnd(S) \in {x.to : x \in S} /\ \A x \in S : x.to <= Detect!MaxEnd(S)
  BY <1>7 DEF Detect!MaxEnd
<1> QED BY <1>8, SpanFields

\* No span reaches from one component of the sweep into the next.
LEMMA ComponentsApart ==
  ASSUME NEW S \in SUBSET Spans, IsFiniteSet(S), NEW e \in S, NEW f \in S,
         Detect!Overlaps(e, f)
  PROVE  f \in Detect!Component(S, e)
<1>1. ASSUME NEW o \in S, NEW a \in S, NEW b \in S, Detect!Opens(S, o), Detect!Overlaps(a, b),
             o.from <= a.from
      PROVE  o.from <= b.from
  <2>1. SUFFICES ASSUME b.from < o.from PROVE FALSE
    BY SpanFields
  <2>2. /\ b \in Detect!SoFar(S, o) /\ Detect!SoFar(S, o) \in SUBSET Spans
        /\ IsFiniteSet(Detect!SoFar(S, o))
    BY <2>1, FS_Subset DEF Detect!SoFar
  <2>3. o.from >= Detect!MaxEnd(Detect!SoFar(S, o))
    BY <1>1, <2>2 DEF Detect!Opens
  <2>4. Detect!MaxEnd(Detect!SoFar(S, o)) \in Nat /\ b.to <= Detect!MaxEnd(Detect!SoFar(S, o))
    BY <2>2, MaxEndReached
  <2>5. o.from \in Nat /\ a.from \in Nat /\ b.to \in Nat /\ a.from < b.to
    BY <1>1, SpanFields DEF Detect!Overlaps
  <2> QED BY <1>1, <2>3, <2>4, <2>5
<1>2. Detect!Overlaps(f, e)
  BY DEF Detect!Overlaps
<1>3. ASSUME NEW o \in S, Detect!Opens(S, o) PROVE (o.from <= e.from) <=> (o.from <= f.from)
  BY <1>1, <1>2, <1>3
<1> QED BY <1>3 DEF Detect!Component

LEMMA ComponentFacts ==
  ASSUME NEW S, NEW e \in S
  PROVE  /\ Detect!Component(S, e) \subseteq S /\ e \in Detect!Component(S, e)
         /\ \A f \in Detect!Component(S, e) : Detect!Component(S, f) = Detect!Component(S, e)
BY DEF Detect!Component

LEMMA SweepIsGreedy ==
  ASSUME NEW S \in SUBSET Spans, IsFiniteSet(S)
  PROVE  /\ Sweep(S) = Best(S)
         /\ GreedyIs(Sweep(S), S)
<1> DEFINE all == Sweep(S)
           Part(e) == Detect!Component(S, e)
<1>1. ASSUME NEW e \in S PROVE GreedyIs(Best(Part(e)), Part(e))
  <2>1. Part(e) \in SUBSET Spans /\ IsFiniteSet(Part(e))
    BY ComponentFacts, FS_Subset
  <2> QED BY <2>1, GreedyChosen
<1>2. all \subseteq S
  BY <1>1, ComponentFacts DEF GreedyIs, Sweep
<1>3. \A e \in S : e \in all <=> e \in Best(Part(e))
  <2>1. ASSUME NEW e \in S, e \in all PROVE e \in Best(Part(e))
    <3>1. PICK x \in S : e \in Best(Part(x))
      BY <2>1 DEF Sweep
    <3>2. e \in Part(x)
      BY <1>1, <3>1 DEF GreedyIs
    <3> QED BY <3>1, <3>2, ComponentFacts
  <2> QED BY <2>1 DEF Sweep
<1>4. ASSUME NEW e \in S
      PROVE  e \in all <=> ~\E k \in all : Longer(k, e) /\ Detect!Overlaps(k, e)
  <2>1. e \in Part(e) /\ Part(e) \subseteq S
    BY ComponentFacts
  <2>2. e \in Best(Part(e)) <=>
          ~\E k \in Best(Part(e)) : Longer(k, e) /\ Detect!Overlaps(k, e)
    BY <1>1, <2>1 DEF GreedyIs
  <2>3. \A k \in S : Detect!Overlaps(k, e) => (k \in all <=> k \in Best(Part(e)))
    <3>1. ASSUME NEW k \in S, Detect!Overlaps(k, e) PROVE Part(k) = Part(e)
      BY <3>1, ComponentsApart, ComponentFacts
    <3> QED BY <3>1, <1>3
  <2>4. Best(Part(e)) \subseteq S
    BY <1>1, <2>1 DEF GreedyIs
  <2> HIDE DEF all, Part
  <2> QED BY <1>2, <1>3, <2>2, <2>3, <2>4
<1>5. GreedyIs(all, S)
  BY <1>2, <1>4 DEF GreedyIs
<1> QED BY <1>5, GreedyOnly

-----------------------------------------------------------------------------
\* Of the entities of a text.
LEMMA EntityFields ==
  ASSUME TextLength \in Nat, NEW e \in Detect!Entities
  PROVE  /\ e.from \in Nat /\ e.to \in Nat /\ e.from < e.to /\ e.to <= TextLength
         /\ e.kind \in {"settled", "guess"}
         /\ e = [from |-> e.from, to |-> e.to, kind |-> e.kind]
BY DEF Detect!Entities, Detect!Kinds

LEMMA EntitiesSpans ==
  ASSUME TextLength \in Nat
  PROVE  \A S \in SUBSET Detect!Entities : S \in SUBSET Spans /\ IsFiniteSet(S)
<1>1. Detect!Entities = SpansTo(TextLength)
  BY DEF Detect!Entities, Detect!Kinds, SpansTo
<1> QED BY <1>1, FiniteSpans, FS_Subset

LEMMA BeatsPlain ==
  ASSUME TextLength \in Nat, NEW S \in SUBSET Detect!Entities
  PROVE  \A e, f \in S : Detect!Beats(e, f) <=> Longer(e, f)
<1>1. S \in SUBSET Spans
  BY EntitiesSpans
<1> QED BY <1>1, RankIsLonger DEF Detect!Beats, Detect!Rank

LEMMA DetectGreedy ==
  ASSUME TextLength \in Nat, NEW S \in SUBSET Detect!Entities
  PROVE  Detect!Greedy(S) = Best(S)
<1>1. ASSUME NEW kept \in SUBSET S
      PROVE  GreedyIs(kept, S) <=> \A e \in S :
               e \in kept <=> ~\E k \in kept : Detect!Beats(k, e) /\ Detect!Overlaps(k, e)
  BY BeatsPlain DEF GreedyIs
<1>2. GreedyIs(Best(S), S) /\ Best(S) \in SUBSET S
  BY EntitiesSpans, GreedyChosen DEF GreedyIs
<1>3. Detect!Greedy(S) \in SUBSET S /\ GreedyIs(Detect!Greedy(S), S)
  BY <1>1, <1>2 DEF Detect!Greedy
<1> QED BY <1>3, EntitiesSpans, GreedyOnly

LEMMA FiniteEntities == ASSUME TextLength \in Nat PROVE IsFiniteSet(Detect!Entities)
BY EntitiesSpans

LEMMA GreedyFacts ==
  ASSUME TextLength \in Nat, NEW S \in SUBSET Detect!Entities, NEW kept, GreedyIs(kept, S)
  PROVE  /\ \A e, f \in kept : e # f => ~Detect!Overlaps(e, f)
         /\ \A e \in S : \E k \in kept : Detect!Overlaps(k, e) /\ (k = e \/ Longer(k, e))
         /\ \A e \in S : (\A f \in S : f = e \/ ~Detect!Overlaps(f, e)) => e \in kept
BY EntitiesSpans, SpansGreedy

\* ResolveOverlaps, which resolves each component on its own, leaves what the resolution
\* of all spans at once would leave: longest, then settled, then earliest.
THEOREM ResolveIsGreedy ==
  ASSUME TextLength \in Nat, NEW S \in SUBSET Detect!Entities
  PROVE  /\ Detect!ResolveOverlaps(S) = Detect!Greedy(S)
         /\ GreedyIs(Detect!ResolveOverlaps(S), S)
<1>1. \A e \in S : Detect!Greedy(Detect!Component(S, e)) = Best(Detect!Component(S, e))
  BY ComponentFacts, DetectGreedy
<1>2. Detect!ResolveOverlaps(S) = Sweep(S)
  BY <1>1 DEF Detect!ResolveOverlaps, Sweep
<1> QED BY <1>2, EntitiesSpans, SweepIsGreedy, DetectGreedy

-----------------------------------------------------------------------------
\* Decisions of the evidence chain: only a guess is judged, and it grows as a guess.
Decision(d) ==
  /\ d = [entity |-> d.entity, span |-> d.span, verdict |-> d.verdict, score |-> d.score]
  /\ d.entity \in Detect!Entities /\ d.span \in Detect!Entities /\ d.span.kind = d.entity.kind
  /\ d.verdict \in {"keep", "unknown", "drop"} /\ d.score \in {0, 1}
  /\ d.entity.kind = "settled" => d.span = d.entity /\ d.verdict = "keep"

\* Verdict, score, confidence, length, start; and the stable sort.
Evident(d) == IF d.verdict = "keep" THEN 2 ELSE 1
Settler(e, f) ==
  \/ Detect!Confidence(e) > Detect!Confidence(f)
  \/ /\ Detect!Confidence(e) = Detect!Confidence(f)
     /\ \/ Detect!Len(e) > Detect!Len(f)
        \/ Detect!Len(e) = Detect!Len(f) /\ e.from < f.from
Earlier(e, f) == e.from < f.from \/ (e.from = f.from /\ e.to < f.to)
Firmer(d, c) ==
  \/ Evident(d) > Evident(c)
  \/ Evident(d) = Evident(c) /\ d.score > c.score
  \/ Evident(d) = Evident(c) /\ d.score = c.score /\ Settler(d.span, c.span)
  \/ /\ Evident(d) = Evident(c) /\ d.score = c.score
     /\ d.span = c.span /\ Earlier(d.entity, c.entity)

LEMMA SameSpan ==
  ASSUME TextLength \in Nat, NEW e \in Detect!Entities, NEW f \in Detect!Entities
  PROVE  e = f <=> /\ Detect!Confidence(e) = Detect!Confidence(f)
                   /\ Detect!Len(e) = Detect!Len(f) /\ e.from = f.from
<1>1. ASSUME Detect!Confidence(e) = Detect!Confidence(f),
             Detect!Len(e) = Detect!Len(f), e.from = f.from
      PROVE  e = f
  <2>1. e.to = f.to /\ e.kind = f.kind
    BY <1>1, EntityFields DEF Detect!Len, Detect!Confidence
  <2>2. /\ e = [from |-> e.from, to |-> e.to, kind |-> e.kind]
        /\ f = [from |-> f.from, to |-> f.to, kind |-> f.kind]
    BY EntityFields
  <2> QED BY <1>1, <2>1, <2>2
<1> QED BY <1>1

LEMMA StrongerPlain ==
  ASSUME TextLength \in Nat, NEW d, Decision(d), NEW c, Decision(c)
  PROVE  Detect!Stronger(d, c) <=> Firmer(d, c)
<1> DEFINE A == Detect!Strength(d)
           B == Detect!Strength(c)
<1>1. /\ A[1] = Evident(d) /\ A[2] = d.score /\ A[3] = Detect!Confidence(d.span)
      /\ A[4] = Detect!Len(d.span) /\ A[5] = TextLength - d.span.from
      /\ B[1] = Evident(c) /\ B[2] = c.score /\ B[3] = Detect!Confidence(c.span)
      /\ B[4] = Detect!Len(c.span) /\ B[5] = TextLength - c.span.from
  BY DEF Detect!Strength, Evident
<1>2. A = B <=> /\ Evident(d) = Evident(c) /\ d.score = c.score
                /\ Detect!Confidence(d.span) = Detect!Confidence(c.span)
                /\ Detect!Len(d.span) = Detect!Len(c.span)
                /\ TextLength - d.span.from = TextLength - c.span.from
  BY DEF Detect!Strength, Evident
<1> HIDE DEF A, B
<1>3. /\ d.span \in Detect!Entities /\ c.span \in Detect!Entities
      /\ d.span.from \in Nat /\ c.span.from \in Nat
  BY EntityFields DEF Decision
<1>4. (\E i \in 1 .. 5 : Detect!Above(A, B, i)) <=>
         \/ A[1] > B[1]
         \/ A[1] = B[1] /\ A[2] > B[2]
         \/ A[1] = B[1] /\ A[2] = B[2] /\ A[3] > B[3]
         \/ A[1] = B[1] /\ A[2] = B[2] /\ A[3] = B[3] /\ A[4] > B[4]
         \/ A[1] = B[1] /\ A[2] = B[2] /\ A[3] = B[3] /\ A[4] = B[4] /\ A[5] > B[5]
  <2>1. 1 .. 5 = {1, 2, 3, 4, 5}
    OBVIOUS
  <2>2. /\ 1 .. 1 - 1 = {} /\ 1 .. 2 - 1 = {1} /\ 1 .. 3 - 1 = {1, 2}
        /\ 1 .. 4 - 1 = {1, 2, 3} /\ 1 .. 5 - 1 = {1, 2, 3, 4}
    OBVIOUS
  <2>3. Detect!Above(A, B, 1) <=> A[1] > B[1]
    BY <2>2 DEF Detect!Above
  <2>4. Detect!Above(A, B, 2) <=> A[1] = B[1] /\ A[2] > B[2]
    BY <2>2 DEF Detect!Above
  <2>5. Detect!Above(A, B, 3) <=> A[1] = B[1] /\ A[2] = B[2] /\ A[3] > B[3]
    BY <2>2 DEF Detect!Above
  <2>6. Detect!Above(A, B, 4) <=> A[1] = B[1] /\ A[2] = B[2] /\ A[3] = B[3] /\ A[4] > B[4]
    BY <2>2 DEF Detect!Above
  <2>7. Detect!Above(A, B, 5) <=>
          A[1] = B[1] /\ A[2] = B[2] /\ A[3] = B[3] /\ A[4] = B[4] /\ A[5] > B[5]
    BY <2>2 DEF Detect!Above
  <2> QED BY <2>1, <2>3, <2>4, <2>5, <2>6, <2>7
<1>5. A[5] > B[5] <=> d.span.from < c.span.from
  BY <1>1, <1>3
<1>6. A = B <=> Evident(d) = Evident(c) /\ d.score = c.score /\ d.span = c.span
  BY <1>2, <1>3, SameSpan
<1>7. Detect!Stronger(d, c) <=>
        (\E i \in 1 .. 5 : Detect!Above(A, B, i)) \/ (A = B /\ Earlier(d.entity, c.entity))
  BY DEF Detect!Stronger, Earlier, A, B
<1> QED BY <1>1, <1>4, <1>5, <1>6, <1>7 DEF Firmer, Settler

StrongerOn(S) == {p \in S \X S : Detect!Stronger(p[1], p[2])}
SpansMeet(S)  == {p \in S \X S : Detect!Overlaps(p[1].span, p[2].span)}

LEMMA StrongerOrders ==
  ASSUME TextLength \in Nat, NEW S, \A d \in S : Decision(d) /\ d.verdict # "drop"
  PROVE  Orders(StrongerOn(S), S)
<1>1. \A d, c \in S : <<d, c>> \in StrongerOn(S) <=> Firmer(d, c)
  BY StrongerPlain DEF StrongerOn
<1>2. \A d \in S :
        /\ Evident(d) \in Nat /\ d.score \in Nat
        /\ Detect!Confidence(d.span) \in Nat /\ Detect!Len(d.span) \in Nat
        /\ d.span.from \in Nat /\ d.entity.from \in Nat /\ d.entity.to \in Nat
  BY EntityFields DEF Decision, Evident, Detect!Confidence, Detect!Len
<1>3. \A d \in S : ~Firmer(d, d)
  BY <1>2 DEF Firmer, Settler, Earlier
<1>4. ASSUME NEW d \in S, NEW c \in S, ~Firmer(d, c), ~Firmer(c, d) PROVE d = c
  <2>1. Evident(d) = Evident(c) /\ d.score = c.score
    BY <1>2, <1>4 DEF Firmer
  <2>2. d.span = c.span
    <3>1. ~Settler(d.span, c.span) /\ ~Settler(c.span, d.span)
      BY <1>4, <2>1 DEF Firmer
    <3>2. d.span \in Detect!Entities /\ c.span \in Detect!Entities
      BY DEF Decision
    <3> QED BY <1>2, <3>1, <3>2, SameSpan DEF Settler
  <2>3. ~Earlier(d.entity, c.entity) /\ ~Earlier(c.entity, d.entity)
    BY <1>4, <2>1, <2>2 DEF Firmer
  <2>4. d.entity.from = c.entity.from /\ d.entity.to = c.entity.to
    BY <1>2, <2>3 DEF Earlier
  <2>5. d.entity = c.entity
    <3>1. d.entity.kind = c.entity.kind
      BY <2>2 DEF Decision
    <3>2. d.entity \in Detect!Entities /\ c.entity \in Detect!Entities
      BY DEF Decision
    <3>3. /\ d.entity = [from |-> d.entity.from, to |-> d.entity.to, kind |-> d.entity.kind]
          /\ c.entity = [from |-> c.entity.from, to |-> c.entity.to, kind |-> c.entity.kind]
      BY <3>2, EntityFields
    <3> QED BY <2>4, <3>1, <3>3
  <2>6. d.verdict = c.verdict
    BY <2>1 DEF Decision, Evident
  <2>7. /\ d = [entity |-> d.entity, span |-> d.span, verdict |-> d.verdict, score |-> d.score]
        /\ c = [entity |-> c.entity, span |-> c.span, verdict |-> c.verdict, score |-> c.score]
    BY DEF Decision
  <2> QED BY <2>1, <2>2, <2>5, <2>6, <2>7
<1>5. ASSUME NEW d \in S, NEW c \in S, NEW b \in S, Firmer(d, c), Firmer(c, b)
      PROVE  Firmer(d, b)
  <2>1. Evident(d) >= Evident(c) /\ Evident(c) >= Evident(b)
    BY <1>2, <1>5 DEF Firmer
  <2>2. Settler(d.span, c.span) /\ Settler(c.span, b.span) => Settler(d.span, b.span)
    BY <1>2 DEF Settler
  <2>3. Earlier(d.entity, c.entity) /\ Earlier(c.entity, b.entity) => Earlier(d.entity, b.entity)
    BY <1>2 DEF Earlier
  <2> QED BY <1>2, <1>5, <2>1, <2>2, <2>3 DEF Firmer
<1> QED BY <1>1, <1>3, <1>4, <1>5 DEF Orders

\* What evidence leaves does not overlap, and covers what it drops, the rejected aside.
LEMMA EvidenceFacts ==
  ASSUME TextLength \in Nat, NEW S, IsFiniteSet(S), \A d \in S : Decision(d)
  PROVE  LET kept == Detect!ResolveByEvidence(S) IN
         /\ kept \subseteq {d \in S : d.verdict # "drop"}
         /\ \A d \in S : d.verdict # "drop" => \E k \in kept : Detect!Overlaps(k.span, d.span)
         /\ \A d, c \in kept : d # c => ~Detect!Overlaps(d.span, c.span)
<1> DEFINE able == Detect!Competing(S)
           Is(kept) == \A d \in able :
             d \in kept <=> ~\E k \in kept : Detect!Stronger(k, d) /\ Detect!Overlaps(k.span, d.span)
           kept == Detect!ResolveByEvidence(S)
<1>1. able = {d \in S : d.verdict # "drop"}
  BY DEF Detect!Competing
<1>2. IsFiniteSet(able) /\ Orders(StrongerOn(able), able)
  <2>1. able \in SUBSET S
    BY <1>1
  <2> HIDE DEF able
  <2> QED BY <1>1, <2>1, FS_Subset, StrongerOrders
<1> HIDE DEF able
<1>3. PICK some : Taken(some, able, StrongerOn(able), SpansMeet(able))
  BY <1>2, TakenExists
<1>4. some \in SUBSET able /\ Is(some)
  BY <1>3 DEF Taken, StrongerOn, SpansMeet
<1>5. kept \in SUBSET able /\ Is(kept)
  BY <1>4 DEF Detect!ResolveByEvidence, able
<1> HIDE DEF kept
<1>6. ASSUME NEW d \in able PROVE \E k \in kept : Detect!Overlaps(k.span, d.span)
  <2>1. Detect!Overlaps(d.span, d.span)
    BY <1>1, EntityFields DEF Decision, Detect!Overlaps
  <2> QED BY <1>5, <2>1
<1>7. ASSUME NEW d \in kept, NEW c \in kept, d # c, Detect!Overlaps(d.span, c.span) PROVE FALSE
  <2>1. Detect!Overlaps(c.span, d.span)
    BY <1>7 DEF Detect!Overlaps
  <2>2. <<d, c>> \in StrongerOn(able) \/ <<c, d>> \in StrongerOn(able)
    BY <1>2, <1>5, <1>7 DEF Orders
  <2>3. Detect!Stronger(d, c) \/ Detect!Stronger(c, d)
    BY <2>2 DEF StrongerOn
  <2> QED BY <1>5, <1>7, <2>1, <2>3
<1> QED BY <1>1, <1>5, <1>6, <1>7 DEF kept

-----------------------------------------------------------------------------
Settled == Detect!ResolveOverlaps(settled)

\* Each entity found has its decision.
Judgement ==
  /\ IsFiniteSet(judged) /\ \A d \in judged : Decision(d)
  /\ \A e \in found : \E d \in judged : d.entity = e
\* What the layers found stays there, until evidence judges it.
Gathered ==
  /\ step = "model" => found = Settled /\ assembly # "core"
  /\ step \in {"evidence", "redact", "sent"} =>
       /\ found = Detect!Candidates
       /\ Detect!Cascaded => Settled \subseteq found
Left ==
  /\ Detect!ResolveOverlaps(settled \cup guesses) = Detect!Greedy(settled \cup guesses)
  /\ \A e, f \in replaced : e # f => ~Detect!Overlaps(e, f)
  /\ \A f \in replaced : \E d \in judged : d.span = f /\ d.verdict # "drop"
  /\ \A e \in Detect!Candidates : Detect!Rejected(e) \/ Detect!Answered(e)
  /\ Detect!Cascaded => \A e \in Settled : Detect!Answered(e)
DetectInv ==
  /\ settled \in SUBSET Detect!OfKind("settled") /\ guesses \in SUBSET Detect!OfKind("guess")
  /\ found \in SUBSET Detect!Entities /\ lost = {}
  /\ assembly \in {"core", "gateway", "cascade", "masked", "inline"}
  /\ step \in {"fast", "model", "evidence", "redact", "sent", "blocked"}
  /\ Gathered
  /\ step \in {"redact", "sent"} => Judgement
  /\ step = "sent" => Left

LEMMA Resolved ==
  ASSUME TextLength \in Nat, NEW S \in SUBSET Detect!Entities
  PROVE  GreedyIs(Detect!ResolveOverlaps(S), S) /\ Detect!ResolveOverlaps(S) \subseteq S
BY ResolveIsGreedy DEF GreedyIs

LEMMA KindsFound ==
  ASSUME DetectInv
  PROVE  settled \in SUBSET Detect!Entities /\ guesses \in SUBSET Detect!Entities
BY DEF DetectInv, Detect!OfKind

\* Spans that meet no other span, and only those, are sure to stay.
LEMMA ApartStay ==
  ASSUME TextLength \in Nat, NEW S \in SUBSET Detect!Entities, NEW T \in SUBSET Detect!Entities,
         \A e \in S, f \in S \cup T : e # f => ~Detect!Overlaps(f, e)
  PROVE  S \subseteq Detect!ResolveOverlaps(S \cup T)
<1>1. S \cup T \in SUBSET Detect!Entities
  OBVIOUS
<1>2. GreedyIs(Detect!ResolveOverlaps(S \cup T), S \cup T)
  BY <1>1, Resolved
<1>3. \A e \in S : e \in S \cup T /\ \A f \in S \cup T : f = e \/ ~Detect!Overlaps(f, e)
  OBVIOUS
<1> QED BY <1>1, <1>2, <1>3, GreedyFacts

LEMMA SettledFacts ==
  ASSUME TextLength \in Nat, DetectInv
  PROVE  /\ Settled \in SUBSET Detect!Entities
         /\ \A e, f \in Settled : e # f => ~Detect!Overlaps(e, f)
<1>1. settled \in SUBSET Detect!Entities
  BY KindsFound
<1>2. GreedyIs(Settled, settled) /\ Settled \subseteq settled
  BY <1>1, Resolved DEF Settled
<1> QED BY <1>1, <1>2, GreedyFacts

LEMMA FastKeeps == ASSUME TextLength \in Nat, DetectInv, Detect!Fast PROVE DetectInv'
<1>1. /\ step = "fast" /\ UNCHANGED <<assembly, settled, guesses, judged, replaced, lost>>
      /\ found' = Settled \cup (IF assembly = "core" THEN guesses ELSE {})
      /\ step' = IF assembly = "core" THEN "evidence" ELSE "model"
  BY DEF Detect!Fast, Settled
<1>2. found' \in SUBSET Detect!Entities
  BY <1>1, SettledFacts, KindsFound
<1>3. Settled' = Settled
  BY <1>1 DEF Settled
<1>4. Gathered'
  <2>1. CASE assembly = "core"
    <3>1. Detect!Candidates' = found'
      BY <1>1, <1>3, <2>1 DEF Detect!Candidates, Settled
    <3> QED BY <1>1, <1>3, <2>1, <3>1 DEF Gathered
  <2>2. CASE assembly # "core"
    BY <1>1, <1>3, <2>2 DEF Gathered
  <2> QED BY <2>1, <2>2
<1> QED BY <1>1, <1>2, <1>4 DEF DetectInv

LEMMA ModelKeeps == ASSUME TextLength \in Nat, DetectInv, Detect!Model PROVE DetectInv'
<1> DEFINE slow == IF assembly = "masked" THEN Detect!Kept(guesses, found) ELSE guesses
<1>1. /\ step = "model" /\ UNCHANGED <<assembly, settled, guesses, replaced, lost>>
      /\ found' = Detect!Together(slow)
      /\ step' = IF assembly = "inline" THEN "redact" ELSE "evidence"
      /\ judged' = IF assembly = "inline"
                   THEN {[entity |-> e, span |-> e, verdict |-> "keep", score |-> 0] : e \in found'}
                   ELSE judged
  BY DEF Detect!Model
<1>2. slow \in SUBSET Detect!Entities
  BY KindsFound DEF Detect!Kept
<1>3. found = Settled /\ assembly # "core" /\ found \in SUBSET Detect!Entities
  BY <1>1 DEF DetectInv, Gathered
<1> HIDE DEF slow
<1>4. Detect!Kept(slow, found) \in SUBSET Detect!Entities
  BY <1>2 DEF Detect!Kept
<1>5. found' \in SUBSET Detect!Entities
  <2>1. /\ found \cup slow \in SUBSET Detect!Entities
        /\ found \cup Detect!Kept(slow, found) \in SUBSET Detect!Entities
    BY <1>2, <1>3, <1>4
  <2> QED BY <1>1, <2>1, Resolved DEF Detect!Together
<1>6. Detect!Cascaded => Settled \subseteq found'
  <2>1. SUFFICES ASSUME Detect!Cascaded PROVE Settled \subseteq found'
    OBVIOUS
  <2>2. found' = Detect!ResolveOverlaps(Settled \cup Detect!Kept(slow, found))
    BY <1>1, <1>3, <2>1 DEF Detect!Together
  <2>3. \A e \in Settled, f \in Detect!Kept(slow, found) : ~Detect!Overlaps(f, e)
    BY <1>3 DEF Detect!Kept, Detect!OverlapsAny
  <2>4. \A e \in Settled, f \in Settled \cup Detect!Kept(slow, found) :
          e # f => ~Detect!Overlaps(f, e)
    BY <2>3, SettledFacts
  <2> QED BY <1>3, <1>4, <2>2, <2>4, ApartStay
<1>7. Settled' = Settled /\ (Detect!Cascaded)' = Detect!Cascaded
  BY <1>1 DEF Settled, Detect!Cascaded
<1>8. Detect!Candidates' = found'
  BY <1>1, <1>3 DEF Detect!Candidates
<1>9. Gathered'
  BY <1>1, <1>6, <1>7, <1>8 DEF Gathered
<1>10. step' = "redact" => Judgement'
  <2>1. SUFFICES ASSUME assembly = "inline" PROVE Judgement'
    BY <1>1
  <2> DEFINE keep == [e \in found' |->
                        [entity |-> e, span |-> e, verdict |-> "keep", score |-> 0]]
  <2>2. judged' = {keep[e] : e \in found'}
    BY <1>1, <2>1
  <2>3. IsFiniteSet(judged')
    <3>1. IsFiniteSet(found')
      BY <1>5, FiniteEntities, FS_Subset
    <3> HIDE DEF keep
    <3> QED BY <2>2, <3>1, FiniteValues
  <2>4. \A e \in found' : Decision(keep[e]) /\ keep[e].entity = e
    BY <1>5 DEF Decision
  <2> HIDE DEF keep
  <2> QED BY <2>2, <2>3, <2>4 DEF Judgement
<1> QED BY <1>1, <1>5, <1>9, <1>10 DEF DetectInv

LEMMA WithoutModelKeeps ==
  ASSUME TextLength \in Nat, DetectInv, Detect!WithoutModel PROVE DetectInv'
<1>1. /\ step = "model" /\ step' = "evidence" /\ found' = Detect!ResolveOverlaps(found)
      /\ guesses' = {} /\ UNCHANGED <<assembly, settled, judged, replaced, lost>>
  BY DEF Detect!WithoutModel
<1>2. found = Settled /\ assembly # "core" /\ found \in SUBSET Detect!Entities
  BY <1>1 DEF DetectInv, Gathered
<1>3. found' \in SUBSET Detect!Entities
  BY <1>1, <1>2, Resolved
<1>4. Settled \subseteq found'
  <2>1. Settled \cup {} = Settled
    OBVIOUS
  <2>2. \A e \in Settled, f \in Settled \cup {} : e # f => ~Detect!Overlaps(f, e)
    BY SettledFacts
  <2>3. Settled \subseteq Detect!ResolveOverlaps(Settled \cup {})
    BY <1>2, <2>2, ApartStay
  <2> QED BY <1>1, <1>2, <2>1, <2>3
<1>5. Settled' = Settled /\ Detect!Candidates' = found'
  BY <1>1, <1>2 DEF Settled, Detect!Candidates
<1>6. Gathered'
  BY <1>1, <1>4, <1>5 DEF Gathered
<1> QED BY <1>1, <1>3, <1>6 DEF DetectInv, Detect!OfKind

LEMMA ValidatedDecides ==
  ASSUME TextLength \in Nat, NEW e \in Detect!Entities, NEW d \in Detect!Validated(e), d.entity = e
  PROVE  Decision(d)
<1>1. CASE e.kind = "settled"
  BY <1>1 DEF Detect!Validated, Decision
<1>2. CASE e.kind # "settled"
  <2>1. e.kind = "guess"
    BY <1>2, EntityFields
  <2>2. \A f \in Detect!Grown(e) : f \in Detect!Entities /\ f.kind = "guess"
    BY DEF Detect!Grown, Detect!OfKind
  <2>3. \/ d \in [entity : {e}, span : Detect!Grown(e), verdict : {"drop"}, score : {0}]
        \/ d \in [entity : {e}, span : Detect!Grown(e), verdict : {"unknown"}, score : {0}]
        \/ d \in [entity : {e}, span : Detect!Grown(e), verdict : {"keep"}, score : {1}]
    BY <1>2 DEF Detect!Validated
  <2> QED BY <2>1, <2>2, <2>3 DEF Decision
<1> QED BY <1>1, <1>2

LEMMA EvidenceKeeps == ASSUME TextLength \in Nat, DetectInv, Detect!Evidence PROVE DetectInv'
<1>1. /\ step = "evidence" /\ step' = "redact"
      /\ UNCHANGED <<assembly, settled, guesses, found, replaced, lost>>
  BY DEF Detect!Evidence
<1>2. PICK all \in [found -> UNION {Detect!Validated(e) : e \in found}] :
        /\ \A e \in found : all[e].entity = e
        /\ judged' = {all[e] : e \in found}
  BY DEF Detect!Evidence
<1>3. found \in SUBSET Detect!Entities /\ IsFiniteSet(found)
  BY FiniteEntities, FS_Subset DEF DetectInv
<1>4. IsFiniteSet(judged')
  BY <1>2, <1>3, FiniteValues
<1>5. ASSUME NEW e \in found PROVE Decision(all[e])
  <2>1. PICK x \in found : all[e] \in Detect!Validated(x)
    BY <1>2
  <2>2. all[e].entity = x
    BY <1>3, <2>1, EntityFields DEF Detect!Validated
  <2> QED BY <1>3, <2>1, <2>2, ValidatedDecides
<1>6. Judgement'
  BY <1>1, <1>2, <1>4, <1>5 DEF Judgement
<1>7. Gathered'
  <2>1. /\ Settled' = Settled /\ Detect!Candidates' = Detect!Candidates
        /\ (Detect!Cascaded)' = Detect!Cascaded
    BY <1>1 DEF Settled, Detect!Candidates, Detect!Cascaded
  <2> QED BY <1>1, <2>1 DEF DetectInv, Gathered
<1> QED BY <1>1, <1>6, <1>7 DEF DetectInv

\* What is entered is what evidence leaves.
LEMMA EnteringFacts ==
  ASSUME TextLength \in Nat, DetectInv, step = "redact"
  PROVE  /\ Detect!Entering \in SUBSET Detect!Entities
         /\ \A f \in Detect!Entering : \E d \in judged : d.span = f /\ d.verdict # "drop"
         /\ \A d \in judged : d.verdict # "drop" =>
              \E f \in Detect!Entering : Detect!Overlaps(f, d.span)
         /\ \A e, f \in Detect!Entering : e # f => ~Detect!Overlaps(e, f)
<1> DEFINE kept == Detect!ResolveByEvidence(judged)
<1>1. IsFiniteSet(judged) /\ \A d \in judged : Decision(d)
  BY DEF DetectInv, Judgement
<1>2. /\ kept \subseteq {d \in judged : d.verdict # "drop"}
      /\ \A d \in judged : d.verdict # "drop" => \E k \in kept : Detect!Overlaps(k.span, d.span)
      /\ \A d, c \in kept : d # c => ~Detect!Overlaps(d.span, c.span)
  BY <1>1, EvidenceFacts
<1>3. Detect!Entering = {d.span : d \in kept}
  BY DEF Detect!Entering
<1> HIDE DEF kept
<1>4. Detect!Entering \in SUBSET Detect!Entities
  BY <1>1, <1>2, <1>3 DEF Decision
<1> QED BY <1>2, <1>3, <1>4

LEMMA RedactKeeps == ASSUME TextLength \in Nat, DetectInv, Detect!Redact PROVE DetectInv'
<1>1. /\ step = "redact" /\ step' = "sent" /\ replaced' = Detect!Entering
      /\ UNCHANGED <<assembly, settled, guesses, found, judged>>
      /\ \A e, f \in Detect!Entering : e # f => ~Detect!Overlaps(e, f)
  BY DEF Detect!Redact
<1>2. lost' = {}
  <2>1. PICK f \in Detect!Flows :
          lost' = {e \in Detect!Entering : f.restores /\ ~Detect!Reversible(f.kind[e.kind])}
    BY DEF Detect!Redact
  <2>2. f.restores => \A k \in Detect!Kinds : Detect!Reversible(f.kind[k])
    BY DEF Detect!Flows, Detect!Add
  <2>3. \A e \in Detect!Entering : e.kind \in Detect!Kinds
    BY <1>1, EnteringFacts, EntityFields DEF Detect!Kinds
  <2> QED BY <2>1, <2>2, <2>3
<1>3. /\ Settled' = Settled /\ Detect!Candidates' = Detect!Candidates
      /\ (Detect!Cascaded)' = Detect!Cascaded
  BY <1>1 DEF Settled, Detect!Candidates, Detect!Cascaded
<1>4. Gathered' /\ Judgement'
  BY <1>1, <1>3 DEF DetectInv, Gathered, Judgement
<1>5. found = Detect!Candidates /\ (Detect!Cascaded => Settled \subseteq found)
  BY <1>1 DEF DetectInv, Gathered
<1>6. Detect!ResolveOverlaps(settled \cup guesses) = Detect!Greedy(settled \cup guesses)
  <2>1. settled \cup guesses \in SUBSET Detect!Entities
    BY KindsFound
  <2> QED BY <2>1, ResolveIsGreedy
<1>7. ASSUME NEW e \in found, NEW d \in judged, d.entity = e, d.verdict # "drop"
      PROVE  \E f \in Detect!Entering : Detect!Overlaps(d.span, f)
  <2>1. PICK f \in Detect!Entering : Detect!Overlaps(f, d.span)
    BY <1>1, <1>7, EnteringFacts
  <2> QED BY <2>1 DEF Detect!Overlaps
<1>8. \A e \in found : \/ \E d \in judged : d.entity = e /\ d.verdict = "drop"
                       \/ \E d \in judged : d.entity = e /\
                            \E f \in Detect!Entering : Detect!Overlaps(d.span, f)
  BY <1>1, <1>7 DEF DetectInv, Judgement
<1>9. \A e \in Settled : e \in found => \E f \in Detect!Entering : Detect!Overlaps(e, f)
  <2> SUFFICES ASSUME NEW e \in Settled, e \in found
               PROVE  \E f \in Detect!Entering : Detect!Overlaps(e, f)
    OBVIOUS
  <2>1. e.kind = "settled"
    <3>1. settled \in SUBSET Detect!Entities
      BY KindsFound
    <3>2. e \in settled
      BY <3>1, Resolved DEF Settled
    <3> QED BY <3>2 DEF DetectInv, Detect!OfKind
  <2>2. PICK d \in judged : d.entity = e
    BY <1>1 DEF DetectInv, Judgement
  <2>3. d.span = e /\ d.verdict = "keep"
    BY <1>1, <2>1, <2>2 DEF DetectInv, Judgement, Decision
  <2> QED BY <1>7, <2>2, <2>3
<1>10. \A f \in Detect!Entering : \E d \in judged : d.span = f /\ d.verdict # "drop"
  BY <1>1, EnteringFacts
<1>11. Left'
  <2>1. (Detect!ResolveOverlaps(settled \cup guesses) = Detect!Greedy(settled \cup guesses))'
    BY <1>1, <1>6
  <2>2. (\A e, f \in replaced : e # f => ~Detect!Overlaps(e, f))'
    BY <1>1
  <2>3. (\A f \in replaced : \E d \in judged : d.span = f /\ d.verdict # "drop")'
    BY <1>1, <1>10
  <2>4. (\A e \in Detect!Candidates : Detect!Rejected(e) \/ Detect!Answered(e))'
    <3> SUFFICES ASSUME NEW e \in found
                 PROVE  \/ \E d \in judged : d.entity = e /\ d.verdict = "drop"
                        \/ \E f \in Detect!Entering :
                             \/ Detect!Overlaps(e, f)
                             \/ \E d \in judged : d.entity = e /\ Detect!Overlaps(d.span, f)
      BY <1>1, <1>3, <1>5 DEF Detect!Rejected, Detect!Answered
    <3> QED BY <1>8
  <2>5. (Detect!Cascaded => \A e \in Settled : Detect!Answered(e))'
    <3> SUFFICES ASSUME Detect!Cascaded, NEW e \in Settled
                 PROVE  \E f \in Detect!Entering : Detect!Overlaps(e, f)
      BY <1>1, <1>3 DEF Detect!Answered
    <3> QED BY <1>5, <1>9
  <2> QED BY <2>1, <2>2, <2>3, <2>4, <2>5 DEF Left
<1> QED BY <1>1, <1>2, <1>4, <1>11 DEF DetectInv

LEMMA DetectInit == ASSUME TextLength \in Nat, Detect!Init PROVE DetectInv
<1>1. PICK all \in Detect!SmallSubsets(Detect!Entities) :
        settled = all \cap Detect!OfKind("settled") /\ guesses = all \cap Detect!OfKind("guess")
  BY DEF Detect!Init
<1>2. step = "fast" /\ found = {} /\ lost = {}
      /\ assembly \in {"core", "gateway", "cascade", "masked", "inline"}
  BY DEF Detect!Init
<1> QED BY <1>1, <1>2 DEF DetectInv, Gathered

LEMMA DetectStep == ASSUME TextLength \in Nat PROVE DetectInv /\ [Detect!Next]_(Detect!vars) => DetectInv'
<1> SUFFICES ASSUME DetectInv, [Detect!Next]_(Detect!vars) PROVE DetectInv'
  OBVIOUS
<1>1. CASE Detect!Fast
  BY <1>1, FastKeeps
<1>2. CASE Detect!Model
  BY <1>2, ModelKeeps
<1>3. CASE Detect!WithoutModel
  BY <1>3, WithoutModelKeeps
<1>4. CASE Detect!ModelFails \/ Detect!Block
  BY <1>4 DEF DetectInv, Gathered, Detect!ModelFails, Detect!Block
<1>5. CASE Detect!Evidence
  BY <1>5, EvidenceKeeps
<1>6. CASE Detect!Redact
  BY <1>6, RedactKeeps
<1>7. CASE UNCHANGED Detect!vars
  <2>1. UNCHANGED <<assembly, settled, guesses, step, found, judged, replaced, lost>>
    BY <1>7 DEF Detect!vars
  <2>2. /\ Settled' = Settled /\ Detect!Candidates' = Detect!Candidates
        /\ (Detect!Cascaded)' = Detect!Cascaded
    BY <2>1 DEF Settled, Detect!Candidates, Detect!Cascaded
  <2>3. Gathered' = Gathered /\ Judgement' = Judgement
    BY <2>1, <2>2 DEF Gathered, Judgement
  <2>4. step = "sent" => Left'
    <3> SUFFICES ASSUME Left PROVE Left'
      BY DEF DetectInv
    <3>1. /\ \A e : Detect!Rejected(e)' <=> Detect!Rejected(e)
          /\ \A e : Detect!Answered(e)' <=> Detect!Answered(e)
      BY <2>1 DEF Detect!Rejected, Detect!Answered
    <3> QED BY <2>1, <2>2, <3>1 DEF Left
  <2> QED BY <2>1, <2>3, <2>4 DEF DetectInv
<1> QED BY <1>1, <1>2, <1>3, <1>4, <1>5, <1>6, <1>7
        DEF Detect!Next, Detect!Untriggered, Detect!Degraded, Detect!FailsOpen,
            Detect!OffsetsDiffer, Detect!Unbridged, Detect!TooLate

\* Detection of a text of any length: what was found stays, in each assembly of the
\* detectors, until evidence judges it, and each entity has its decision (cascade.go,
\* tiered.go, evidence.go).
THEOREM DetectInvariant == ASSUME TextLength \in Nat PROVE Detect!Spec => []DetectInv
<1>1. Detect!Init => DetectInv
  BY DetectInit
<1>2. DetectInv /\ [Detect!Next]_(Detect!vars) => DetectInv'
  BY DetectStep
<1> QED BY <1>1, <1>2, PTL DEF Detect!Spec

\* When a text leaves, the sweep of ResolveOverlaps has given what one resolution of all
\* spans gives, the spans replaced do not overlap, nothing rejected is replaced, what a
\* flow promises to restore can be restored, and whatever was found and not rejected
\* meets something that is replaced (Redactor.RedactTo).
THEOREM DetectNothingVanishes ==
  ASSUME TextLength \in Nat PROVE Detect!Spec => []Detect!NothingVanishes
<1>1. DetectInv => Detect!NothingVanishes
  BY DEF DetectInv, Left, Detect!NothingVanishes, Settled
<1> QED BY <1>1, DetectInvariant, PTL

\* RedactTo never refuses a text because its spans overlap: evidence leaves none that do.
THEOREM DetectEntersApart ==
  ASSUME TextLength \in Nat
  PROVE  Detect!Spec => [](step = "redact" =>
           \A e, f \in Detect!Entering : e # f => ~Detect!Overlaps(e, f))
<1>1. DetectInv => (step = "redact" =>
        \A e, f \in Detect!Entering : e # f => ~Detect!Overlaps(e, f))
  BY EnteringFacts
<1> QED BY <1>1, DetectInvariant, PTL

-----------------------------------------------------------------------------
(***************************************************************************)
(* A long text in chunks (ChunkedScan).                                    *)
(***************************************************************************)
\* What NewChunkedScanner checks of its sizes, and what its comment asks of the margin:
\* it is smaller than a chunk, and as wide as what a recognizer matches and looks at.
Fit ==
  /\ PassageLength \in Nat /\ ChunkSize \in Nat /\ Margin \in Nat /\ ContextWindow \in Nat
  /\ 3 <= Margin /\ Margin < ChunkSize /\ ContextWindow <= Margin

LEMMA TimesMonotone ==
  ASSUME NEW d \in Nat, NEW p \in Nat, NEW q \in Nat, p <= q PROVE d * p <= d * q
OBVIOUS

\* Two multiples are a multiple apart.
LEMMA MultiplesApart ==
  ASSUME NEW d \in Nat, d > 0, NEW n \in Nat, NEW m \in Nat, n % d = 0, m % d = 0, n < m
  PROVE  n + d <= m
<1> DEFINE p == n \div d
           q == m \div d
<1>1. p \in Nat /\ q \in Nat /\ n = d * p /\ m = d * q
  OBVIOUS
<1> HIDE DEF p, q
<1>2. ~(q <= p)
  BY <1>1, TimesMonotone
<1>3. d * (p + 1) <= d * q
  BY <1>1, <1>2, TimesMonotone
<1>4. d * (p + 1) = d * p + d
  BY <1>1
<1> QED BY <1>1, <1>3, <1>4

LEMMA MultipleBelow ==
  ASSUME NEW d \in Nat, d > 0, NEW n \in Nat
  PROVE  \E t \in Nat : t % d = 0 /\ t <= n /\ n < t + d
<1>1. n % d \in 0 .. d - 1 /\ n - (n % d) \in Nat /\ (n - (n % d)) % d = 0
  <2>1. n % d \in 0 .. d - 1 /\ n = d * (n \div d) + (n % d) /\ n \div d \in Nat
    OBVIOUS
  <2>2. d * (n \div d) \in Nat
    BY <2>1
  <2>3. (n - (n % d)) % d = 0
    OBVIOUS
  <2> QED BY <2>1, <2>2, <2>3
<1> QED BY <1>1

LEMMA MultipleNext ==
  ASSUME NEW d \in Nat, d > 0, NEW n \in Nat, n % d = 0
  PROVE  (n + d) % d = 0
<1>1. PICK p \in Nat : n = d * p
  <2>1. n \div d \in Nat /\ n = d * (n \div d)
    OBVIOUS
  <2> QED BY <2>1
<1>2. n + d = d * (p + 1)
  BY <1>1
<1>3. \A k \in Nat : (d * k) % d = 0
  OBVIOUS
<1>4. p + 1 \in Nat
  OBVIOUS
<1>5. (d * (p + 1)) % d = 0
  BY ONLY <1>3, <1>4
<1> QED BY ONLY <1>2, <1>5

\* Of the spans of a passage; Overlaps is taken by ChunkedScan too.
LEMMA PassageFields ==
  ASSUME PassageLength \in Nat, NEW e \in Chunks!Entities
  PROVE  /\ e.from \in Nat /\ e.to \in Nat /\ e.from < e.to /\ e.kind \in {"settled", "guess"}
         /\ e = [from |-> e.from, to |-> e.to, kind |-> e.kind]
BY DEF Chunks!Entities, Chunks!Kinds

LEMMA PassageSpans ==
  ASSUME PassageLength \in Nat
  PROVE  \A S \in SUBSET Chunks!Entities : S \in SUBSET Spans /\ IsFiniteSet(S)
<1>1. Chunks!Entities = SpansTo(PassageLength)
  BY DEF Chunks!Entities, Chunks!Kinds, SpansTo
<1> QED BY <1>1, FiniteSpans, FS_Subset

LEMMA ChunksSpans ==
  Chunks!Spans \subseteq Chunks!Entities /\ \A e \in Chunks!Spans : e.kind = "settled"
BY DEF Chunks!Spans, Chunks!OfKind

LEMMA ChunksGreedy ==
  ASSUME PassageLength \in Nat, NEW S \in SUBSET Chunks!Entities
  PROVE  Chunks!Greedy(S) = Best(S)
<1>1. ASSUME NEW e \in S, NEW f \in S PROVE Chunks!Beats(e, f) <=> Longer(e, f)
  <2>1. e \in Spans /\ f \in Spans
    BY PassageSpans
  <2>2. \A a, b, i : Chunks!Above(a, b, i) <=> Detect!Above(a, b, i)
    BY DEF Chunks!Above, Detect!Above
  <2>3. \A x : /\ Chunks!Len(x) = Detect!Len(x) /\ Chunks!Confidence(x) = Detect!Confidence(x)
               /\ Chunks!Rank(x) = <<Chunks!Len(x), Chunks!Confidence(x), PassageLength - x.from>>
    BY DEF Chunks!Rank, Chunks!Len, Detect!Len, Chunks!Confidence, Detect!Confidence
  <2> QED BY <2>1, <2>2, <2>3, RankIsLonger DEF Chunks!Beats
<1>2. ASSUME NEW kept \in SUBSET S
      PROVE  GreedyIs(kept, S) <=> \A e \in S :
               e \in kept <=> ~\E k \in kept : Chunks!Beats(k, e) /\ Chunks!Overlaps(k, e)
  BY <1>1 DEF GreedyIs, Chunks!Overlaps, Detect!Overlaps
<1>3. GreedyIs(Best(S), S) /\ Best(S) \in SUBSET S
  BY PassageSpans, GreedyChosen DEF GreedyIs
<1>4. Chunks!Greedy(S) \in SUBSET S /\ GreedyIs(Chunks!Greedy(S), S)
  BY <1>2, <1>3 DEF Chunks!Greedy
<1> QED BY <1>4, PassageSpans, GreedyOnly

LEMMA ChunksSweep ==
  ASSUME PassageLength \in Nat, NEW S \in SUBSET Chunks!Entities
  PROVE  Chunks!ResolveOverlaps(S) = Sweep(S)
<1>1. \A e : Chunks!Opens(S, e) <=> Detect!Opens(S, e)
  BY DEF Chunks!Opens, Detect!Opens, Chunks!SoFar, Detect!SoFar, Chunks!MaxEnd, Detect!MaxEnd
<1>2. \A e : Chunks!Component(S, e) = Detect!Component(S, e)
  BY <1>1 DEF Chunks!Component, Detect!Component
<1>3. \A e \in S : Chunks!Greedy(Chunks!Component(S, e)) = Best(Detect!Component(S, e))
  BY <1>2, ComponentFacts, ChunksGreedy
<1> QED BY <1>3 DEF Chunks!ResolveOverlaps, Sweep

\* What ResolveOverlaps leaves of settled spans.
LEMMA ChunksResolve ==
  ASSUME PassageLength \in Nat, NEW S \in SUBSET Chunks!Entities, \A e \in S : e.kind = "settled"
  PROVE  LET left == Chunks!ResolveOverlaps(S) IN
         /\ left \subseteq S
         /\ \A e, f \in left : e # f => ~Detect!Overlaps(e, f)
         /\ \A e \in S : \E k \in left : Detect!Overlaps(k, e) /\
              (\/ k = e \/ k.to - k.from > e.to - e.from
               \/ k.to - k.from = e.to - e.from /\ k.from < e.from)
<1> DEFINE left == Sweep(S)
<1>0. S \in SUBSET Spans /\ IsFiniteSet(S)
  BY PassageSpans
<1>1. GreedyIs(left, S) /\ left \subseteq S
  BY <1>0, SweepIsGreedy DEF GreedyIs
<1>2. Chunks!ResolveOverlaps(S) = left
  BY ChunksSweep
<1> HIDE DEF left
<1>3. /\ \A e, f \in left : e # f => ~Detect!Overlaps(e, f)
      /\ \A e \in S : \E k \in left : Detect!Overlaps(k, e) /\ (k = e \/ Longer(k, e))
  BY <1>0, <1>1, SpansGreedy
<1>4. \A k, e \in S : Longer(k, e) => \/ k.to - k.from > e.to - e.from
                                      \/ k.to - k.from = e.to - e.from /\ k.from < e.from
  BY DEF Longer, Detect!Len, Detect!Confidence
<1> QED BY <1>1, <1>2, <1>3, <1>4

-----------------------------------------------------------------------------
\* What the recognizers find in a .. b - 1, place by place.
Digit(i) == passage[i] = "digit"
Word(i)  == passage[i] \in {"digit", "letter"}
InView(e, a, b) == \E i \in a .. b - 1 :
  e.from <= i + ContextWindow /\ i < e.to + ContextWindow /\ passage[i] = "letter"
NoDigitBeside(e, a, b) == (e.from > a => ~Digit(e.from - 1)) /\ (e.to < b => ~Digit(e.to))
One(e, a, b) ==
  e.to = e.from + 1 /\ Digit(e.from) /\ NoDigitBeside(e, a, b) /\ InView(e, a, b)
Two(e, a, b) ==
  e.to = e.from + 2 /\ Digit(e.from) /\ Digit(e.from + 1) /\ NoDigitBeside(e, a, b)
Three(e, a, b) ==
  /\ e.to = e.from + 3 /\ Word(e.from) /\ Word(e.from + 1) /\ Word(e.from + 2)
  /\ (e.from > a => ~Word(e.from - 1)) /\ (e.to < b => ~Word(e.to))
Found(a, b) ==
  {e \in Chunks!Spans : a <= e.from /\ e.to <= b /\ (One(e, a, b) \/ Two(e, a, b) \/ Three(e, a, b))}

LEMMA FoundType ==
  ASSUME PassageLength \in Nat, NEW a \in Nat, NEW b \in Nat
  PROVE  /\ Found(a, b) \in SUBSET Chunks!Entities
         /\ \A e \in Found(a, b) :
              /\ e.kind = "settled" /\ e.from \in Nat /\ e.to \in Nat /\ e.from < e.to
              /\ a <= e.from /\ e.to <= b
BY ChunksSpans, PassageFields DEF Found

LEMMA DetectIsFound ==
  ASSUME PassageLength \in Nat, NEW a \in Nat, NEW b \in Nat
  PROVE  Chunks!Detect(a, b) = Chunks!ResolveOverlaps(Found(a, b))
<1> DEFINE Matched(e) ==
      \/ Chunks!Recognize(e, a, b, 2, {"digit"}) \/ Chunks!Recognize(e, a, b, 3, Chunks!Alnum)
      \/ Chunks!Recognize(e, a, b, 1, {"digit"}) /\ Chunks!HasContext(e, a, b)
<1>1. ASSUME NEW e \in Chunks!Spans, a <= e.from, e.to <= b
      PROVE  Matched(e) <=> One(e, a, b) \/ Two(e, a, b) \/ Three(e, a, b)
  <2>1. e.from \in Nat /\ e.to \in Nat /\ e.from < e.to
    BY ChunksSpans, PassageFields
  <2>2. Chunks!HasContext(e, a, b) <=> InView(e, a, b)
    BY DEF Chunks!HasContext, InView
  <2>a. Chunks!IsBoundaryOK(e, a, b, {"digit"}) <=> NoDigitBeside(e, a, b)
    BY DEF Chunks!IsBoundaryOK, Digit, NoDigitBeside
  <2>3. Chunks!Recognize(e, a, b, 2, {"digit"}) <=> Two(e, a, b)
    <3>1. e.to = e.from + 2 =>
            (Chunks!Of(e, {"digit"}) <=> Digit(e.from) /\ Digit(e.from + 1))
      <4>1. e.to = e.from + 2 => e.from .. e.to - 1 = {e.from, e.from + 1}
        BY <2>1
      <4> QED BY <4>1 DEF Chunks!Of, Digit
    <3>2. Chunks!Len(e) = 2 <=> e.to = e.from + 2
      BY <2>1 DEF Chunks!Len
    <3> QED BY <3>1, <3>2, <2>a DEF Chunks!Recognize, Two
  <2>4. Chunks!Recognize(e, a, b, 3, Chunks!Alnum) <=> Three(e, a, b)
    <3>1. e.to = e.from + 3 =>
            (Chunks!Of(e, Chunks!Alnum) <=> Word(e.from) /\ Word(e.from + 1) /\ Word(e.from + 2))
      <4>1. e.to = e.from + 3 => e.from .. e.to - 1 = {e.from, e.from + 1, e.from + 2}
        BY <2>1
      <4> QED BY <4>1 DEF Chunks!Of, Word, Chunks!Alnum
    <3>2. Chunks!Len(e) = 3 <=> e.to = e.from + 3
      BY <2>1 DEF Chunks!Len
    <3>3. Chunks!IsBoundaryOK(e, a, b, Chunks!Alnum) <=>
            (e.from > a => ~Word(e.from - 1)) /\ (e.to < b => ~Word(e.to))
      BY DEF Chunks!IsBoundaryOK, Word, Chunks!Alnum
    <3> QED BY <3>1, <3>2, <3>3 DEF Chunks!Recognize, Three
  <2>5. Chunks!Recognize(e, a, b, 1, {"digit"}) /\ InView(e, a, b) <=> One(e, a, b)
    <3>1. e.to = e.from + 1 => (Chunks!Of(e, {"digit"}) <=> Digit(e.from))
      <4>1. e.to = e.from + 1 => e.from .. e.to - 1 = {e.from}
        BY <2>1
      <4> QED BY <4>1 DEF Chunks!Of, Digit
    <3>2. Chunks!Len(e) = 1 <=> e.to = e.from + 1
      BY <2>1 DEF Chunks!Len
    <3> QED BY <3>1, <3>2, <2>a DEF Chunks!Recognize, One
  <2> QED BY <2>2, <2>3, <2>4, <2>5
<1> HIDE DEF Matched
<1>2. {e \in Chunks!Spans : a <= e.from /\ e.to <= b /\ Matched(e)} = Found(a, b)
  BY <1>1 DEF Found
<1> QED BY <1>2 DEF Chunks!Detect, Matched

N      == Chunks!Size
E(s)   == Chunks!EndOf(s)
Pieces == UNION {Chunks!Detect(s, E(s)) : s \in Chunks!Starts}
Merged == Chunks!ResolveOverlaps(Pieces)
Passage == Chunks!Size \in Nat /\ DOMAIN passage = 0 .. Chunks!Size - 1

LEMMA ChunkBounds ==
  ASSUME Fit, Passage, NEW s \in Chunks!Starts
  PROVE  /\ s \in Nat /\ s < N /\ s % ChunkSize = 0 /\ E(s) \in Nat /\ E(s) <= N
         /\ E(s) = N \/ E(s) = s + ChunkSize + Margin
         /\ E(s) = (IF s + ChunkSize + Margin < N THEN s + ChunkSize + Margin ELSE N)
BY DEF Fit, Passage, N, E, Chunks!EndOf, Chunks!UpTo, Chunks!Starts

\* A chunk that begins before another ends not behind its start, or well behind it.
LEMMA NoLateCut ==
  ASSUME Fit, Passage, NEW t \in Chunks!Starts, NEW u \in Chunks!Starts, u < t
  PROVE  E(u) <= t \/ E(u) = N \/ E(u) >= t + 3
<1>0. /\ ChunkSize \in Nat /\ ChunkSize > 0 /\ t \in Nat /\ u \in Nat
      /\ t % ChunkSize = 0 /\ u % ChunkSize = 0
  BY ChunkBounds DEF Fit
<1>1. u + ChunkSize <= t
  BY <1>0, MultiplesApart
<1>2. CASE u + ChunkSize = t
  BY <1>2, ChunkBounds DEF Fit
<1>3. CASE u + ChunkSize < t
  <2>1. (u + ChunkSize) % ChunkSize = 0
    BY <1>0, MultipleNext
  <2>2. u + ChunkSize + ChunkSize <= t
    BY <1>0, <1>3, <2>1, MultiplesApart
  <2> QED BY <2>2, ChunkBounds DEF Fit
<1> QED BY <1>1, <1>2, <1>3, ChunkBounds DEF Fit

LEMMA PiecesType ==
  ASSUME Fit, Passage
  PROVE  /\ \A s \in Chunks!Starts :
              /\ Chunks!Detect(s, E(s)) = Chunks!ResolveOverlaps(Found(s, E(s)))
              /\ Chunks!Detect(s, E(s)) \subseteq Found(s, E(s))
         /\ Pieces \in SUBSET Chunks!Entities /\ \A e \in Pieces : e.kind = "settled"
         /\ Merged \subseteq Pieces
<1>1. ASSUME NEW s \in Chunks!Starts
      PROVE  /\ Chunks!Detect(s, E(s)) = Chunks!ResolveOverlaps(Found(s, E(s)))
             /\ Chunks!Detect(s, E(s)) \subseteq Found(s, E(s))
             /\ Found(s, E(s)) \in SUBSET Chunks!Entities
             /\ \A e \in Found(s, E(s)) : e.kind = "settled"
  <2>1. s \in Nat /\ E(s) \in Nat /\ PassageLength \in Nat
    BY ChunkBounds DEF Fit
  <2>2. /\ Found(s, E(s)) \in SUBSET Chunks!Entities
        /\ \A e \in Found(s, E(s)) : e.kind = "settled"
    BY <2>1, FoundType
  <2> QED BY <2>1, <2>2, DetectIsFound, ChunksResolve
<1>2. Pieces \in SUBSET Chunks!Entities /\ \A e \in Pieces : e.kind = "settled"
  BY <1>1 DEF Pieces
<1>3. Merged \subseteq Pieces
  BY <1>2, ChunksResolve DEF Merged, Fit
<1> QED BY <1>1, <1>2, <1>3

\* Of the pieces, whatever is dropped meets something longer, or earlier, that stays.
LEMMA MergedFacts ==
  ASSUME Fit, Passage
  PROVE  /\ \A e, f \in Merged : e # f => ~Detect!Overlaps(e, f)
         /\ \A e \in Pieces : \E k \in Merged : Detect!Overlaps(k, e) /\
              (\/ k = e \/ k.to - k.from > e.to - e.from
               \/ k.to - k.from = e.to - e.from /\ k.from < e.from)
         /\ \A f \in Merged : \E s \in Chunks!Starts :
              f \in Chunks!Detect(s, E(s)) /\ f \in Found(s, E(s))
<1>1. PassageLength \in Nat /\ Pieces \in SUBSET Chunks!Entities /\ \A e \in Pieces : e.kind = "settled"
  BY PiecesType DEF Fit
<1>2. \A f \in Merged : \E s \in Chunks!Starts : f \in Chunks!Detect(s, E(s)) /\ f \in Found(s, E(s))
  BY PiecesType DEF Pieces
<1> QED BY <1>1, <1>2, ChunksResolve DEF Merged

\* And so in one stretch of the text.
LEMMA StretchFacts ==
  ASSUME Fit, NEW a \in Nat, NEW b \in Nat
  PROVE  /\ Chunks!Detect(a, b) \subseteq Found(a, b)
         /\ \A e, f \in Chunks!Detect(a, b) : e # f => ~Detect!Overlaps(e, f)
         /\ \A e \in Found(a, b) : \E k \in Chunks!Detect(a, b) : Detect!Overlaps(k, e) /\
              (\/ k = e \/ k.to - k.from > e.to - e.from
               \/ k.to - k.from = e.to - e.from /\ k.from < e.from)
<1>1. PassageLength \in Nat /\ Found(a, b) \in SUBSET Chunks!Entities
      /\ \A e \in Found(a, b) : e.kind = "settled"
  BY FoundType DEF Fit
<1> QED BY <1>1, ChunksResolve, DetectIsFound

\* A run of three stays: nothing longer is looked for, and one that begins before it
\* would have to end in it.
LEMMA ThreeStays ==
  ASSUME Fit, NEW a \in Nat, NEW b \in Nat, NEW e \in Found(a, b), Three(e, a, b)
  PROVE  e \in Chunks!Detect(a, b)
<1>1. PICK k \in Chunks!Detect(a, b) : Detect!Overlaps(k, e) /\
        (\/ k = e \/ k.to - k.from > e.to - e.from
         \/ k.to - k.from = e.to - e.from /\ k.from < e.from)
  BY StretchFacts
<1>2. /\ k \in Found(a, b) /\ k.from \in Nat /\ k.to \in Nat /\ e.from \in Nat /\ e.to \in Nat
      /\ a <= k.from /\ a <= e.from
  BY <1>1, StretchFacts, FoundType DEF Fit
<1>3. k.to - k.from <= 3 /\ (One(k, a, b) \/ Two(k, a, b) \/ Three(k, a, b))
  BY <1>2 DEF Found, One, Two, Three
<1>4. e.to = e.from + 3
  BY DEF Three
<1>5. CASE k = e
  BY <1>1, <1>5
<1>6. CASE k.to = k.from + 3 /\ k.from < e.from
  <2>1. e.from - 1 \in {k.from, k.from + 1, k.from + 2}
    BY <1>1, <1>2, <1>6 DEF Detect!Overlaps
  <2>2. Three(k, a, b)
    BY <1>2, <1>3, <1>6 DEF One, Two
  <2>3. Word(e.from - 1)
    BY <2>1, <2>2 DEF Three
  <2> QED BY <1>2, <1>6, <2>3 DEF Three
<1> QED BY <1>1, <1>2, <1>3, <1>4, <1>5, <1>6

\* One that reaches over no edge of its chunk is one of the whole text.
LEMMA WholeAsWell ==
  ASSUME Fit, Passage, NEW s \in Chunks!Starts, NEW f \in Found(s, E(s)), ~Chunks!AtEdge(f)
  PROVE  f \in Found(0, N)
<1>1. s \in Nat /\ E(s) \in Nat /\ E(s) <= N /\ N \in Nat /\ PassageLength \in Nat
  BY ChunkBounds DEF Fit, Passage, N
<1>2. f.from \in Nat /\ f.to \in Nat /\ s <= f.from /\ f.to <= E(s) /\ f.from < f.to
  BY <1>1, FoundType
<1>3. f.from # s /\ f.to # E(s)
  BY DEF Chunks!AtEdge, E
<1>4. InView(f, s, E(s)) => InView(f, 0, N)
  BY <1>1 DEF InView
<1>5. NoDigitBeside(f, s, E(s)) => NoDigitBeside(f, 0, N)
  BY <1>1, <1>2, <1>3 DEF NoDigitBeside
<1>6. Three(f, s, E(s)) => Three(f, 0, N)
  BY <1>1, <1>2, <1>3 DEF Three
<1>7. One(f, 0, N) \/ Two(f, 0, N) \/ Three(f, 0, N)
  BY <1>4, <1>5, <1>6 DEF Found, One, Two
<1> QED BY <1>1, <1>2, <1>7 DEF Found

\* And each of the whole text is in a chunk, with what is looked at beside it.
LEMMA InAChunk ==
  ASSUME Fit, Passage, NEW e \in Found(0, N)
  PROVE  \E t \in Chunks!Starts : e \in Found(t, E(t))
<1>1. N \in Nat /\ PassageLength \in Nat
  BY DEF Fit, Passage, N
<1>2. e.from \in Nat /\ e.to \in Nat /\ e.from < e.to /\ e.to <= N
  BY <1>1, FoundType
<1>3. PICK low \in 0 .. e.from :
        /\ e.to <= low + Margin + 1
        /\ One(e, 0, N) => \E i \in low .. low + Margin :
             /\ e.from <= i + ContextWindow /\ i < e.to + ContextWindow
             /\ passage[i] = "letter" /\ i < N
  <2>1. CASE One(e, 0, N)
    <3>1. PICK i \in 0 .. N - 1 :
            e.from <= i + ContextWindow /\ i < e.to + ContextWindow /\ passage[i] = "letter"
      BY <2>1 DEF One, InView
    <3>2. e.to = e.from + 1
      BY <2>1 DEF One
    <3>3. PICK low \in 0 .. e.from : low <= i /\ (low = i \/ low = e.from)
      <4>1. CASE i <= e.from
        BY <4>1
      <4>2. CASE i > e.from
        BY <4>2, <1>2
      <4> QED BY <4>1, <4>2, <1>2
    <3>4. i \in low .. low + Margin /\ e.to <= low + Margin + 1
      BY <1>1, <1>2, <3>1, <3>2, <3>3 DEF Fit
    <3> QED BY <1>1, <3>1, <3>3, <3>4
  <2>2. CASE ~One(e, 0, N)
    <3>1. e.to <= e.from + 3
      BY <2>2, <1>2 DEF Found, Two, Three
    <3> QED BY <2>2, <3>1, <1>2 DEF Fit
  <2> QED BY <2>1, <2>2
<1>4. PICK t \in Nat : t % ChunkSize = 0 /\ t <= low /\ low < t + ChunkSize
  BY MultipleBelow DEF Fit
<1>5. t \in Chunks!Starts
  BY <1>1, <1>2, <1>4 DEF Chunks!Starts, Passage, N
<1>6. /\ E(t) \in Nat /\ E(t) <= N
      /\ E(t) = (IF t + ChunkSize + Margin < N THEN t + ChunkSize + Margin ELSE N)
  BY <1>5, ChunkBounds
<1>7. t <= e.from /\ e.to <= E(t)
  BY <1>1, <1>2, <1>3, <1>4, <1>6 DEF Fit
<1>8. One(e, 0, N) => InView(e, t, E(t))
  <2> SUFFICES ASSUME One(e, 0, N) PROVE InView(e, t, E(t))
    OBVIOUS
  <2>1. PICK i \in low .. low + Margin :
          /\ e.from <= i + ContextWindow /\ i < e.to + ContextWindow
          /\ passage[i] = "letter" /\ i < N
    BY <1>3
  <2>2. i \in t .. E(t) - 1
    BY <1>1, <1>3, <1>4, <1>6, <2>1 DEF Fit
  <2> QED BY <2>1, <2>2 DEF InView
<1>9. NoDigitBeside(e, 0, N) => NoDigitBeside(e, t, E(t))
  BY <1>1, <1>2, <1>6, <1>7 DEF NoDigitBeside
<1>10. Three(e, 0, N) => Three(e, t, E(t))
  BY <1>1, <1>2, <1>6, <1>7 DEF Three
<1>11. One(e, t, E(t)) \/ Two(e, t, E(t)) \/ Three(e, t, E(t))
  BY <1>8, <1>9, <1>10 DEF Found, One, Two
<1> QED BY <1>5, <1>7, <1>11 DEF Found

\* What is found in a stretch has one of three shapes.
LEMMA FoundShape ==
  ASSUME Fit, NEW a \in Nat, NEW b \in Nat, NEW e \in Found(a, b)
  PROVE  /\ e.from \in Nat /\ e.to \in Nat /\ a <= e.from /\ e.to <= b
         /\ \/ e.to = e.from + 1 /\ One(e, a, b)
            \/ e.to = e.from + 2 /\ Two(e, a, b)
            \/ e.to = e.from + 3 /\ Three(e, a, b)
         /\ \A i \in e.from .. e.to - 1 : Word(i)
         /\ e.to < e.from + 3 => \A i \in e.from .. e.to - 1 : Digit(i)
<1>1. /\ e.from \in Nat /\ e.to \in Nat /\ a <= e.from /\ e.to <= b
      /\ \/ e.to = e.from + 1 /\ One(e, a, b)
         \/ e.to = e.from + 2 /\ Two(e, a, b)
         \/ e.to = e.from + 3 /\ Three(e, a, b)
  BY FoundType DEF Fit, Found, One, Two, Three
<1>2. \A i : Digit(i) => Word(i)
  BY DEF Digit, Word
<1>3. CASE e.to = e.from + 1 /\ One(e, a, b)
  BY <1>1, <1>2, <1>3 DEF One
<1>4. CASE e.to = e.from + 2 /\ Two(e, a, b)
  BY <1>1, <1>2, <1>4 DEF Two
<1>5. CASE e.to = e.from + 3 /\ Three(e, a, b)
  BY <1>1, <1>5 DEF Three
<1> QED BY <1>1, <1>3, <1>4, <1>5

\* A run of three found in any chunk is among what is merged: one that begins before it
\* would be cut by its chunk's end inside the margin of this one.
LEMMA ThreeMerged ==
  ASSUME Fit, Passage, NEW t \in Chunks!Starts, NEW e \in Found(t, E(t)), e.to = e.from + 3
  PROVE  e \in Merged
<1>1. t \in Nat /\ E(t) \in Nat /\ E(t) <= N /\ N \in Nat
  BY ChunkBounds DEF Passage, N
<1>2. /\ e.from \in Nat /\ t <= e.from /\ e.to <= E(t) /\ Three(e, t, E(t))
      /\ \A i \in e.from .. e.to - 1 : Word(i)
  BY <1>1, FoundShape
<1>3. e \in Pieces
  BY <1>1, <1>2, ThreeStays DEF Pieces
<1>4. PICK k \in Merged : Detect!Overlaps(k, e) /\
        (\/ k = e \/ k.to - k.from > e.to - e.from
         \/ k.to - k.from = e.to - e.from /\ k.from < e.from)
  BY <1>3, MergedFacts
<1>5. PICK u \in Chunks!Starts : k \in Found(u, E(u))
  BY <1>4, MergedFacts
<1>6. u \in Nat /\ E(u) \in Nat /\ E(u) <= N
  BY ChunkBounds
<1>7. /\ k.from \in Nat /\ k.to \in Nat /\ u <= k.from /\ k.to <= E(u) /\ k.to <= k.from + 3
      /\ \A i \in k.from .. k.to - 1 : Word(i)
  BY <1>5, <1>6, FoundShape
<1>8. SUFFICES ASSUME k # e PROVE FALSE
  BY <1>4
<1>9. k.to = k.from + 3 /\ k.from < e.from /\ e.from < k.to
  BY <1>2, <1>4, <1>7, <1>8 DEF Detect!Overlaps
<1>10. Three(k, u, E(u))
  BY <1>5, <1>6, <1>9, FoundShape
<1>11. e.from = t
  <2>1. Word(e.from - 1)
    BY <1>2, <1>7, <1>9
  <2> QED BY <1>1, <1>2, <2>1 DEF Three
<1>12. k.to = E(u)
  <2>1. Word(k.to)
    BY <1>2, <1>7, <1>9
  <2> QED BY <1>6, <1>7, <1>10, <2>1 DEF Three
<1>13. u < t
  BY <1>1, <1>6, <1>7, <1>9, <1>11
<1>14. E(u) <= t \/ E(u) = N \/ E(u) >= t + 3
  BY <1>13, NoLateCut
<1> QED BY <1>1, <1>2, <1>6, <1>7, <1>9, <1>11, <1>12, <1>14

\* What is merged and touches no edge is what a scan of the whole text finds.
LEMMA OnlyEdgesAdded ==
  ASSUME Fit, Passage, NEW f \in Merged, ~Chunks!AtEdge(f)
  PROVE  f \in Chunks!Detect(0, N)
<1>1. PICK s \in Chunks!Starts : f \in Found(s, E(s))
  BY MergedFacts
<1>2. f \in Found(0, N) /\ N \in Nat
  BY <1>1, WholeAsWell DEF Passage, N
<1>3. PICK k \in Chunks!Detect(0, N) : Detect!Overlaps(k, f) /\
        (\/ k = f \/ k.to - k.from > f.to - f.from
         \/ k.to - k.from = f.to - f.from /\ k.from < f.from)
  BY <1>2, StretchFacts
<1>4. SUFFICES ASSUME k # f PROVE FALSE
  BY <1>3
<1>5. k \in Found(0, N)
  BY <1>2, <1>3, StretchFacts
<1>6. /\ k.from \in Nat /\ k.to \in Nat /\ f.from \in Nat /\ f.to \in Nat
      /\ k.to <= N /\ f.to <= N /\ k.from < f.to /\ f.from < k.to
  BY <1>2, <1>3, <1>5, FoundShape DEF Detect!Overlaps
<1>7. CASE k.to = k.from + 3
  <2>1. PICK t \in Chunks!Starts : k \in Found(t, E(t))
    BY <1>5, InAChunk
  <2>2. k \in Merged
    BY <1>7, <2>1, ThreeMerged
  <2> QED BY <1>3, <1>4, <2>2, MergedFacts
<1>8. CASE k.to # k.from + 3
  <2>1. /\ k.to \in {k.from + 1, k.from + 2} /\ \A i \in k.from .. k.to - 1 : Digit(i)
    BY <1>2, <1>5, <1>8, FoundShape
  <2>2. f.to \in {f.from + 1, f.from + 2} /\ NoDigitBeside(f, 0, N)
    <3>1. f.to # f.from + 3
      BY <1>3, <1>4, <1>6, <2>1
    <3>2. (f.to = f.from + 1 /\ One(f, 0, N)) \/ (f.to = f.from + 2 /\ Two(f, 0, N))
      BY <1>2, <3>1, FoundShape
    <3> QED BY <3>2 DEF One, Two
  <2>3. (f.from > 0 => ~Digit(f.from - 1)) /\ (f.to < N => ~Digit(f.to))
    BY <2>2 DEF NoDigitBeside
  <2>4. CASE k.from < f.from
    <3>1. f.from - 1 \in k.from .. k.to - 1
      BY <1>6, <2>4
    <3> QED BY <1>6, <2>1, <2>3, <2>4, <3>1
  <2>5. CASE k.from >= f.from
    <3>1. k.to - k.from > f.to - f.from
      BY <1>3, <1>4, <1>6, <2>5
    <3>2. f.to \in k.from .. k.to - 1 /\ f.to < N
      BY <1>2, <1>6, <2>5, <3>1
    <3> QED BY <2>1, <2>3, <3>2
  <2> QED BY <1>6, <2>4, <2>5
<1> QED BY <1>7, <1>8

\* What a scan of the whole text finds is merged, or something that covers it is and
\* touches an edge.
LEMMA NoneLost ==
  ASSUME Fit, Passage, NEW e \in Chunks!Detect(0, N), e \notin Merged
  PROVE  \E f \in Merged :
           Detect!Overlaps(e, f) /\ f.to - f.from >= e.to - e.from /\ Chunks!AtEdge(f)
<1>0. N \in Nat
  BY DEF Passage, N
<1>1. e \in Found(0, N)
  BY <1>0, StretchFacts
<1>2. SUFFICES \E f \in Merged : Detect!Overlaps(f, e) /\ f.to - f.from >= e.to - e.from
  <2>1. PICK f \in Merged : Detect!Overlaps(f, e) /\ f.to - f.from >= e.to - e.from
    BY <1>2
  <2>2. Chunks!AtEdge(f)
    <3>1. SUFFICES ASSUME ~Chunks!AtEdge(f) PROVE FALSE
      OBVIOUS
    <3>2. f \in Chunks!Detect(0, N) /\ f # e
      BY <3>1, OnlyEdgesAdded
    <3> QED BY <1>0, <2>1, <3>2, StretchFacts
  <2> QED BY <2>1, <2>2 DEF Detect!Overlaps
<1>3. PICK t \in Chunks!Starts : e \in Found(t, E(t))
  BY <1>1, InAChunk
<1>4. t \in Nat /\ E(t) \in Nat /\ E(t) <= N
  BY ChunkBounds
<1>5. PICK k \in Chunks!Detect(t, E(t)) : Detect!Overlaps(k, e) /\
        (\/ k = e \/ k.to - k.from > e.to - e.from
         \/ k.to - k.from = e.to - e.from /\ k.from < e.from)
  BY <1>3, <1>4, StretchFacts
<1>6. k \in Found(t, E(t)) /\ k \in Pieces
  BY <1>4, <1>5, StretchFacts DEF Pieces
<1>7. /\ k.from \in Nat /\ k.to \in Nat /\ e.from \in Nat /\ e.to \in Nat /\ k.to <= E(t)
      /\ k.from < e.to /\ e.from < k.to /\ e.from < e.to
  BY <1>1, <1>0, <1>4, <1>5, <1>6, FoundShape DEF Detect!Overlaps
<1>8. CASE k = e
  <2>1. PICK f \in Merged : Detect!Overlaps(f, e) /\
          (\/ f = e \/ f.to - f.from > e.to - e.from
           \/ f.to - f.from = e.to - e.from /\ f.from < e.from)
    BY <1>6, <1>8, MergedFacts
  <2>2. f.from \in Nat /\ f.to \in Nat
    BY <2>1, PiecesType, PassageFields DEF Fit
  <2> QED BY <1>7, <2>1, <2>2
<1>9. CASE k.to = k.from + 3
  <2>1. k \in Merged
    BY <1>6, <1>9, ThreeMerged
  <2> QED BY <1>5, <1>7, <2>1
<1>10. CASE k # e /\ k.to # k.from + 3
  <2>1. k.to \in {k.from + 1, k.from + 2} /\ \A i \in k.from .. k.to - 1 : Digit(i)
    BY <1>4, <1>6, <1>10, FoundShape
  <2>2. NoDigitBeside(e, 0, N)
    <3>1. e.to # e.from + 3
      BY <1>5, <1>7, <1>10, <2>1
    <3>2. One(e, 0, N) \/ Two(e, 0, N)
      BY <1>0, <1>1, <3>1, FoundShape
    <3> QED BY <3>2 DEF One, Two
  <2>3. (e.from > 0 => ~Digit(e.from - 1)) /\ (e.to < N => ~Digit(e.to))
    BY <2>2 DEF NoDigitBeside
  <2>4. CASE k.from < e.from
    <3>1. e.from - 1 \in k.from .. k.to - 1
      BY <1>7, <2>4
    <3> QED BY <1>7, <2>1, <2>3, <2>4, <3>1
  <2>5. CASE k.from >= e.from
    <3>1. k.to - k.from > e.to - e.from
      BY <1>5, <1>7, <1>10, <2>5
    <3>2. e.to \in k.from .. k.to - 1 /\ e.to < N
      BY <1>0, <1>4, <1>7, <2>5, <3>1
    <3> QED BY <2>1, <2>3, <3>2
  <2> QED BY <1>7, <2>4, <2>5
<1> QED BY <1>8, <1>9, <1>10

-----------------------------------------------------------------------------
\* Each chunk done has its entities, and what is merged is of all of them.
ChunksInv ==
  /\ Passage
  /\ DOMAIN results \subseteq Chunks!Starts
  /\ \A s \in DOMAIN results : results[s] = Chunks!Detect(s, E(s))
  /\ merged.at = "done" =>
       merged.found = (IF N <= ChunkSize THEN Chunks!Detect(0, N) ELSE Merged)

LEMMA SamePassage ==
  ASSUME passage' = passage
  PROVE  /\ Passage' = Passage /\ N' = N /\ Chunks!Starts' = Chunks!Starts /\ Merged' = Merged
         /\ \A s : Chunks!Detect(s, E(s))' = Chunks!Detect(s, E(s))
         /\ Chunks!Detect(0, N)' = Chunks!Detect(0, N)
<1>1. Chunks!Size' = Chunks!Size /\ Chunks!Starts' = Chunks!Starts
  BY DEF Chunks!Size, Chunks!Starts
<1>2. \A s : E(s)' = E(s)
  BY <1>1 DEF E, Chunks!EndOf, Chunks!UpTo
<1>3. \A a, b : Chunks!Detect(a, b)' = Chunks!Detect(a, b)
  BY DEF Chunks!Detect, Chunks!Recognize, Chunks!HasContext, Chunks!Of, Chunks!IsBoundaryOK
<1>4. \A s : Chunks!Detect(s, E(s))' = Chunks!Detect(s, E(s))
  <2> TAKE s
  <2>1. PICK b : b = E(s)
    OBVIOUS
  <2>2. PICK c : c = E(s)'
    OBVIOUS
  <2>3. c = b
    BY <1>2, <2>1, <2>2
  <2> QED BY <1>3, <2>1, <2>2, <2>3
<1>5. N' = N /\ Passage' = Passage
  BY <1>1 DEF N, Passage
<1>6. Chunks!Detect(0, N)' = Chunks!Detect(0, N)
  BY <1>3, <1>5
<1>7. Pieces' = Pieces
  BY <1>1, <1>4 DEF Pieces
<1>8. Merged' = Merged
  BY <1>7 DEF Merged
<1> QED BY <1>1, <1>4, <1>5, <1>6, <1>8

LEMMA ChunksInit == ASSUME Fit, Chunks!Init PROVE ChunksInv
<1>1. PICK n \in {ChunkSize, PassageLength} :
        passage \in [0 .. n - 1 -> Chunks!Alnum \cup {"space"}]
  BY DEF Chunks!Init
<1>2. n \in Nat /\ DOMAIN passage = 0 .. n - 1
  BY <1>1 DEF Fit
<1>3. Cardinality(0 .. n - 1) = n
  <2>1. Cardinality(0 .. n - 1) = (IF 0 > n - 1 THEN 0 ELSE n - 1 - 0 + 1)
    BY <1>2, FS_Interval
  <2> QED BY <1>2, <2>1
<1>a. \A S : Chunks!Cardinality(S) = Cardinality(S)
  BY DEF Chunks!Cardinality, Cardinality
<1>4. Passage
  BY <1>2, <1>3, <1>a DEF Passage, Chunks!Size
<1>5. DOMAIN results = {} /\ merged.at = "scanning"
  BY DEF Chunks!Init
<1> QED BY <1>4, <1>5 DEF ChunksInv

LEMMA ChunksStep ==
  ASSUME Fit, ChunksInv, [Chunks!Next]_(Chunks!vars) PROVE ChunksInv'
<1>1. passage' = passage
  BY DEF Chunks!Next, Chunks!vars, Chunks!Direct, Chunks!Scan, Chunks!ScanFails, Chunks!Merge
<1>2. /\ Passage' /\ N' = N /\ Chunks!Starts' = Chunks!Starts /\ Merged' = Merged
      /\ Chunks!Detect(0, N)' = Chunks!Detect(0, N)
  BY <1>1, SamePassage DEF ChunksInv
<1>a. \A s : Chunks!Detect(s, E(s))' = Chunks!Detect(s, E(s))
  BY <1>1, SamePassage
<1>3. CASE Chunks!Direct
  <2>1. /\ Chunks!Size <= ChunkSize /\ results' = results
        /\ merged' = [at |-> "done", found |-> Chunks!Detect(0, Chunks!Size)]
    BY <1>3 DEF Chunks!Direct
  <2>2. (\A s \in DOMAIN results : results[s] = Chunks!Detect(s, E(s)))'
    BY <1>a, <2>1 DEF ChunksInv
  <2>3. merged'.found = Chunks!Detect(0, N) /\ N <= ChunkSize
    BY <2>1 DEF N
  <2> QED BY <1>2, <2>1, <2>2, <2>3 DEF ChunksInv
<1>4. ASSUME NEW t \in Chunks!Starts, Chunks!Scan(t) PROVE ChunksInv'
  <2>1. /\ merged' = merged /\ merged.at = "scanning"
        /\ results' = [c \in DOMAIN results \cup {t} |->
                        IF c = t THEN Chunks!Detect(t, E(t)) ELSE results[c]]
    BY <1>4 DEF Chunks!Scan, E
  <2>2. \A s \in DOMAIN results' : results'[s] = Chunks!Detect(s, E(s))
    BY <2>1 DEF ChunksInv
  <2>3. (\A s \in DOMAIN results : results[s] = Chunks!Detect(s, E(s)))'
    BY <1>a, <2>2
  <2>4. DOMAIN results' \subseteq Chunks!Starts
    BY <2>1 DEF ChunksInv
  <2> QED BY <1>2, <2>1, <2>3, <2>4 DEF ChunksInv
<1>5. CASE Chunks!ScanFails
  <2>1. results' = results /\ merged'.at \in {"failed", "scanning"}
    BY <1>5 DEF Chunks!ScanFails
  <2>2. (\A s \in DOMAIN results : results[s] = Chunks!Detect(s, E(s)))'
    BY <1>a, <2>1 DEF ChunksInv
  <2> QED BY <1>2, <2>1, <2>2 DEF ChunksInv
<1>6. CASE Chunks!Merge
  <2>1. /\ Chunks!Size > ChunkSize /\ DOMAIN results = Chunks!Starts /\ results' = results
        /\ merged' = [at |-> "done",
                      found |-> Chunks!ResolveOverlaps(UNION {results[s] : s \in Chunks!Starts})]
    BY <1>6 DEF Chunks!Merge
  <2>2. (\A s \in DOMAIN results : results[s] = Chunks!Detect(s, E(s)))'
    BY <1>a, <2>1 DEF ChunksInv
  <2>3. {results[s] : s \in Chunks!Starts} = {Chunks!Detect(s, E(s)) : s \in Chunks!Starts}
    BY <2>1 DEF ChunksInv
  <2>4. merged'.found = Merged
    BY <2>1, <2>3 DEF Merged, Pieces
  <2>5. ~(N <= ChunkSize)
    BY <2>1 DEF N, ChunksInv, Passage, Fit
  <2> QED BY <1>2, <2>1, <2>2, <2>4, <2>5 DEF ChunksInv
<1>7. CASE UNCHANGED Chunks!vars
  <2>1. results' = results /\ merged' = merged
    BY <1>7 DEF Chunks!vars
  <2>2. (\A s \in DOMAIN results : results[s] = Chunks!Detect(s, E(s)))'
    BY <1>a, <2>1 DEF ChunksInv
  <2> QED BY <1>2, <2>1, <2>2 DEF ChunksInv
<1> QED BY <1>3, <1>4, <1>5, <1>6, <1>7 DEF Chunks!Next

\* Whatever the order in which the workers end, a chunk's entities are those of its
\* stretch of the text, and what is merged is resolved from all of them (scanner.go).
THEOREM ChunksInvariant == ASSUME Fit PROVE Chunks!Spec => []ChunksInv
<1>1. Chunks!Init => ChunksInv
  BY ChunksInit
<1>2. ChunksInv /\ [Chunks!Next]_(Chunks!vars) => ChunksInv'
  BY ChunksStep
<1> QED BY <1>1, <1>2, PTL DEF Chunks!Spec

\* Nothing that a scan of the whole text finds is lost on a boundary: it is found, or
\* something as long over it that touches an edge of a chunk; and what only the chunks
\* find touches one (ChunkedScanner.Detect), for a margin that is as wide as what is
\* looked for and narrower than a chunk.
THEOREM ChunksFindAll == ASSUME Fit PROVE Chunks!Spec => []Chunks!ChunkedFindsAll
<1>1. ASSUME ChunksInv, merged.at = "done" PROVE Chunks!ChunkedFindsAll
  <2> DEFINE WholeText == Chunks!Detect(0, Chunks!Size)
  <2>1. Chunks!Detect(0, N) = WholeText
    BY DEF N
  <2>2. CASE N <= ChunkSize
    <3>1. merged.found = WholeText
      BY <1>1, <2>1, <2>2 DEF ChunksInv
    <3> QED BY <3>1 DEF Chunks!ChunkedFindsAll
  <2>3. CASE ~(N <= ChunkSize)
    <3>1. merged.found = Merged /\ Passage
      BY <1>1, <2>3 DEF ChunksInv
    <3>2. \A f \in Merged : f \in WholeText \/ Chunks!AtEdge(f)
      BY <2>1, <3>1, OnlyEdgesAdded
    <3>3. \A e \in WholeText : e \in Merged \/ \E f \in Merged :
            Detect!Overlaps(e, f) /\ f.to - f.from >= e.to - e.from /\ Chunks!AtEdge(f)
      BY <2>1, <3>1, NoneLost
    <3> HIDE DEF WholeText
    <3>4. \A e \in WholeText : e \in Merged \/ \E f \in Merged :
            Chunks!Overlaps(e, f) /\ Chunks!Len(f) >= Chunks!Len(e) /\ Chunks!AtEdge(f)
      BY <3>3 DEF Chunks!Overlaps, Detect!Overlaps, Chunks!Len
    <3> QED BY <3>1, <3>2, <3>4 DEF WholeText, Chunks!ChunkedFindsAll
  <2> QED BY <2>2, <2>3
<1>2. ChunksInv => Chunks!ChunkedFindsAll
  BY <1>1 DEF Chunks!ChunkedFindsAll
<1> QED BY <1>2, ChunksInvariant, PTL
=============================================================================
