-------------------------- MODULE GitRepositoryProofs --------------------------
(***************************************************************************)
(* Theorems about the commands on a git repository, for any set of         *)
(* branches and any number of commits and commands.                        *)
(***************************************************************************)
EXTENDS GitRepository, Integers, TLAPS, FiniteSetTheorems, SequenceTheorems, WellFoundedInduction

-----------------------------------------------------------------------------
(* Histories *)

Node == [parents : SUBSET Nat, past : SUBSET Nat, version : Version]

(* A commit's parents are older; its past is itself and that of its        *)
(* parents, and nobody in it knows of anything that is not in it.          *)
Rooted(h, c) ==
  /\ h[c].parents \subseteq 1..(c - 1)
  /\ h[c].past \subseteq 1..c
  /\ \A e \in 1..c : e \in h[c].past <=> e = c \/ \E d \in h[c].parents : e \in h[d].past
  /\ \A d \in h[c].past : h[d].past \subseteq h[c].past

History(h) ==
  /\ h \in Seq(Node)
  /\ \A c \in 1..Len(h) : Rooted(h, c)

(* h is g with commits added. *)
Extends(g, h) ==
  /\ Len(g) <= Len(h)
  /\ \A c \in 1..Len(g) : h[c] = g[c]

LEMMA RootedStays ==
  ASSUME NEW g, NEW h, NEW n \in Nat, \A c \in 1..n : h[c] = g[c],
         NEW c \in 1..n, Rooted(g, c)
  PROVE  Rooted(h, c)
<1>1. h[c] = g[c] /\ \A d \in 1..c : h[d] = g[d]
  OBVIOUS
<1>2. \A d \in h[c].parents : h[d] = g[d]
  BY <1>1 DEF Rooted
<1>3. \A d \in h[c].past : h[d] = g[d]
  BY <1>1 DEF Rooted
<1>4. h[c].parents \subseteq 1..(c - 1) /\ h[c].past \subseteq 1..c
  BY <1>1 DEF Rooted
<1>5. ASSUME NEW e \in 1..c
      PROVE  e \in h[c].past <=> e = c \/ \E d \in h[c].parents : e \in h[d].past
  BY <1>1, <1>2 DEF Rooted
<1>6. ASSUME NEW d \in h[c].past
      PROVE  h[d].past \subseteq h[c].past
  BY <1>1, <1>3 DEF Rooted
<1> QED
  BY <1>4, <1>5, <1>6 DEF Rooted

(* A commit on top of others *)
Top(h, parents, v) ==
  [parents |-> parents,
   past |-> {Len(h) + 1} \union UNION {h[d].past : d \in parents},
   version |-> v]

OnTop(h, g, parents, v) ==
  /\ History(g) /\ Extends(h, g) /\ Len(g) = Len(h) + 1
  /\ g[Len(h) + 1].version = v
  /\ \A d \in parents : h[d].past \subseteq g[Len(h) + 1].past

LEMMA NextCommit ==
  ASSUME NEW h, History(h), NEW parents \in SUBSET (1..Len(h)), NEW v \in Version,
         NEW g, g = Append(h, Top(h, parents, v))
  PROVE  OnTop(h, g, parents, v)
<1> DEFINE n == Len(h) + 1
           past == {n} \union UNION {h[d].past : d \in parents}
           top == [parents |-> parents, past |-> past, version |-> v]
<1>1. h \in Seq(Node) /\ Len(h) \in Nat
  BY DEF History
<1>2. \A d \in 1..Len(h) : Rooted(h, d) /\ h[d] \in Node
  BY <1>1, ElementOfSeq DEF History
<1>3. \A d \in parents : h[d].past \subseteq 1..Len(h)
  BY <1>1, <1>2 DEF Rooted
<1>4. top \in Node
  BY <1>1, <1>3 DEF Node
<1>5. /\ g \in Seq(Node) /\ Len(g) = n
      /\ \A i \in 1..Len(h) : g[i] = h[i]
      /\ g[n] = top
  <2>1. g = Append(h, top)
    BY DEF Top
  <2> HIDE DEF top
  <2> QED
    BY <2>1, <1>1, <1>4, AppendProperties
<1>6. Extends(h, g)
  BY <1>1, <1>5 DEF Extends
<1>7. \A d \in parents : g[d] = h[d]
  BY <1>5
<1>8. Rooted(g, n)
  <2>0. g[n].parents = parents /\ g[n].past = past
    BY <1>5
  <2>1. g[n].parents \subseteq 1..(n - 1)
    <3>1. n - 1 = Len(h)
      BY <1>1
    <3> QED
      BY <2>0, <3>1
  <2>2. g[n].past \subseteq 1..n
    BY <1>1, <1>3, <1>5
  <2>3. ASSUME NEW e \in 1..n
        PROVE  e \in g[n].past <=> e = n \/ \E d \in g[n].parents : e \in g[d].past
    <3>1. e \in past <=> e = n \/ \E d \in parents : e \in h[d].past
      OBVIOUS
    <3> QED
      BY <2>0, <3>1, <1>7
  <2>4. ASSUME NEW d \in g[n].past
        PROVE  g[d].past \subseteq g[n].past
    <3>1. CASE d = n
      BY <3>1
    <3>2. CASE d # n
      <4>1. PICK p \in parents : d \in h[p].past
        BY <3>2, <1>5
      <4>2. d \in 1..Len(h) /\ h[d].past \subseteq h[p].past
        BY <4>1, <1>2, <1>3 DEF Rooted
      <4>3. g[d].past = h[d].past /\ h[p].past \subseteq g[n].past
        BY <4>1, <4>2, <1>5
      <4> QED
        BY <4>2, <4>3
    <3> QED
      BY <3>1, <3>2
  <2> QED
    BY <2>1, <2>2, <2>3, <2>4 DEF Rooted
<1>9. \A c \in 1..Len(h) : Rooted(g, c)
  BY <1>1, <1>2, <1>5, RootedStays
<1>10. History(g)
  <2>1. \A c \in 1..Len(g) : c \in 1..Len(h) \/ c = n
    BY <1>1, <1>5
  <2> QED
    BY <2>1, <1>5, <1>8, <1>9 DEF History
<1>11. \A d \in parents : h[d].past \subseteq g[n].past
  BY <1>5
<1> QED
  BY <1>5, <1>6, <1>10, <1>11 DEF OnTop

(* What reassign-commit copies: the commits from c on *)
From(h, c, top) == {d \in h[top].past : c \in h[d].past}

LEMMA CopiedRange ==
  ASSUME NEW h, History(h), NEW top \in 1..Len(h), NEW c, c \in From(h, c, top)
  PROVE  /\ From(h, c, top) \subseteq 1..Len(h)
         /\ Cardinality(From(h, c, top)) \in Nat
         /\ Cardinality(From(h, c, top)) >= 1
<1> DEFINE range == From(h, c, top)
<1>1. Len(h) \in Nat /\ h[top].past \subseteq 1..top
  BY DEF History, Rooted
<1>2. range \subseteq 1..Len(h)
  BY <1>1 DEF From
<1>3. IsFiniteSet(1..Len(h))
  BY <1>1, FS_Interval
<1>4. IsFiniteSet(range)
  BY <1>2, <1>3, FS_Subset
<1>5. Cardinality(range) \in Nat
  BY <1>4, FS_CardinalityType
<1>6. Cardinality(range) # 0
  BY <1>4, FS_EmptySet
<1> QED
  BY <1>2, <1>5, <1>6

(* In a range without merges a commit is copied or older than the first    *)
(* that is copied.  Otherwise take one with a smallest past that is not.   *)
LEMMA LinearRange ==
  ASSUME NEW h, History(h), NEW top \in 1..Len(h), NEW c, c \in From(h, c, top),
         \A d \in From(h, c, top) : Cardinality(h[d].parents) = 1
  PROVE  h[top].past \subseteq From(h, c, top) \union (h[c].past \ {c})
<1> DEFINE range == From(h, c, top)
           Reaches(d) == h[d].past \subseteq range \union h[c].past
           astray == {d \in range : ~Reaches(d)}
<1>1. range \subseteq 1..Len(h) /\ Len(h) \in Nat /\ c \in range
  BY CopiedRange DEF History
<1>2. \A d \in 1..Len(h) : Rooted(h, d)
  BY DEF History
<1>3. ASSUME NEW d \in range
      PROVE  \E p : h[d].parents = {p} /\ p \in 1..(d - 1)
  <2>1. Rooted(h, d) /\ d \in Nat
    BY <1>1, <1>2
  <2>2. IsFiniteSet(h[d].parents)
    <3>1. IsFiniteSet(1..(d - 1))
      BY <2>1, FS_Interval
    <3> QED
      BY <2>1, <3>1, FS_Subset DEF Rooted
  <2>3. \E p : h[d].parents = {p}
    BY <2>2, FS_Singleton
  <2> QED
    BY <2>1, <2>3 DEF Rooted
<1>4. ASSUME NEW d \in range,
             \A e \in range : h[e].past \subseteq h[d].past /\ h[e].past # h[d].past
                                => Reaches(e)
      PROVE  Reaches(d)
  <2>1. PICK p : h[d].parents = {p} /\ p \in 1..(d - 1)
    BY <1>3
  <2>2. Rooted(h, d) /\ d \in 1..Len(h)
    BY <1>1, <1>2
  <2>3. p \in 1..Len(h) /\ p < d /\ p \in 1..d
    BY <2>1, <2>2, <1>1
  <2>4. Rooted(h, p)
    BY <2>3, <1>2
  <2>5. \A e \in 1..d : e \in h[d].past <=> e = d \/ e \in h[p].past
    BY <2>1, <2>2 DEF Rooted
  <2>6. h[d].past \subseteq 1..d
    BY <2>2 DEF Rooted
  <2>7. c \in h[d].past
    BY DEF From
  <2>8. CASE c \in h[p].past
    <3>1. p \in h[p].past
      BY <2>3, <2>4 DEF Rooted
    <3>2. p \in h[d].past
      BY <3>1, <2>3, <2>5
    <3>3. d \in h[top].past /\ Rooted(h, top)
      BY <1>2 DEF From
    <3>4. p \in h[top].past
      BY <3>2, <3>3 DEF Rooted
    <3>5. p \in range
      BY <3>4, <2>8 DEF From
    <3>6. h[p].past \subseteq h[d].past
      BY <3>2, <2>2 DEF Rooted
    <3>7. d \in h[d].past /\ d \notin h[p].past
      BY <2>2, <2>3, <2>4, <2>5 DEF Rooted
    <3>8. Reaches(p)
      BY <3>5, <3>6, <3>7, <1>4
    <3> QED
      BY <3>8, <2>5, <2>6
  <2>9. CASE c \notin h[p].past
    <3>1. c = d
      BY <2>5, <2>6, <2>7, <2>9
    <3> QED
      BY <3>1
  <2> QED
    BY <2>8, <2>9
<1>5. astray = {}
  <2> SUFFICES ASSUME astray # {}
               PROVE  FALSE
    OBVIOUS
  <2> DEFINE pasts == {h[d].past : d \in astray}
             R == StrictSubsetOrdering(Nat)
  <2>1. ASSUME NEW d \in astray
        PROVE  h[d].past \in FiniteSubsetsOf(Nat)
    <3>1. d \in Nat /\ h[d].past \subseteq 1..d
      BY <1>1, <1>2 DEF Rooted
    <3>2. IsFiniteSet(1..d)
      BY <3>1, FS_Interval
    <3>3. IsFiniteSet(h[d].past)
      BY <3>1, <3>2, FS_Subset
    <3>4. h[d].past \subseteq Nat
      BY <3>1
    <3> QED
      BY <3>3, <3>4 DEF FiniteSubsetsOf
  <2>2. PICK least \in pasts : \A other \in pasts : <<other, least>> \notin R
    <3>1. IsWellFoundedOn(R, FiniteSubsetsOf(Nat))
      BY FS_StrictSubsetOrderingWellFounded
    <3>2. pasts \subseteq FiniteSubsetsOf(Nat) /\ pasts # {}
      BY <2>1
    <3> HIDE DEF pasts, R
    <3> QED
      BY <3>1, <3>2, WFMin
  <2>3. PICK d \in astray : least = h[d].past
    BY <2>2
  <2>4. ASSUME NEW e \in astray
        PROVE  ~(h[e].past \subseteq h[d].past /\ h[e].past # h[d].past)
    <3>1. h[e].past \in SUBSET Nat /\ h[d].past \in SUBSET Nat
      BY <2>1 DEF FiniteSubsetsOf
    <3>2. <<h[e].past, h[d].past>> \notin R
      BY <2>2, <2>3
    <3> QED
      BY <3>1, <3>2 DEF StrictSubsetOrdering
  <2>5. Reaches(d)
    BY <2>4, <1>4
  <2> QED
    BY <2>5
<1>6. ASSUME NEW e \in h[top].past, e \notin range
      PROVE  e \in h[c].past \ {c}
  <2>1. Rooted(h, top) /\ c \in h[top].past
    BY <1>2 DEF From
  <2>2. c \in h[c].past /\ top \in h[top].past /\ c \in h[top].past
    BY <1>1, <1>2, <2>1 DEF Rooted
  <2>3. top \in range
    BY <2>2 DEF From
  <2>4. Reaches(top)
    BY <2>3, <1>5
  <2> QED
    BY <2>4, <1>6, <1>1
<1> QED
  BY <1>6

(* Commits copied one upon another, the first on the parents of c *)
Copy(h, c, i, v) ==
  [parents |-> IF i = 1 THEN h[c].parents ELSE {Len(h) + i - 1},
   past |-> (h[c].past \ {c}) \union (Len(h) + 1)..(Len(h) + i),
   version |-> v]

Copied(h, g, c, n, version) ==
  /\ g \in Seq(Node) /\ Len(g) = Len(h) + n
  /\ \A i \in 1..Len(h) : g[i] = h[i]
  /\ \A i \in 1..n : g[Len(h) + i] = Copy(h, c, i, version[i])

LEMMA Copying ==
  ASSUME NEW h, History(h), NEW c \in 1..Len(h), NEW n \in Nat,
         NEW version \in [1..n -> Version],
         NEW copies, copies = [i \in 1..n |-> Copy(h, c, i, version[i])]
  PROVE  Copied(h, h \o copies, c, n, version)
<1>1. h \in Seq(Node) /\ Len(h) \in Nat
  BY DEF History
<1>2. Rooted(h, c)
  BY DEF History
<1>3. ASSUME NEW i \in 1..n
      PROVE  Copy(h, c, i, version[i]) \in Node
  <2>1. (h[c].past \ {c}) \union (Len(h) + 1)..(Len(h) + i) \subseteq Nat
    BY <1>1, <1>2 DEF Rooted
  <2>2. (IF i = 1 THEN h[c].parents ELSE {Len(h) + i - 1}) \subseteq Nat
    BY <1>1, <1>2 DEF Rooted
  <2> QED
    BY <2>1, <2>2 DEF Copy, Node
<1>4. copies \in [1..n -> Node]
  BY <1>3
<1>5. copies \in Seq(Node) /\ Len(copies) = n
  BY <1>4
<1>6. \A i \in 1..n : copies[i] = Copy(h, c, i, version[i])
  OBVIOUS
<1> DEFINE g == h \o copies
<1>7. /\ g \in Seq(Node) /\ Len(g) = Len(h) + n
      /\ \A i \in 1..Len(h) + n : g[i] = IF i <= Len(h) THEN h[i] ELSE copies[i - Len(h)]
  BY <1>1, <1>5, ConcatProperties
<1> HIDE DEF g
<1>8. \A i \in 1..Len(h) : g[i] = h[i]
  BY <1>1, <1>7
<1>9. ASSUME NEW i \in 1..n
      PROVE  g[Len(h) + i] = Copy(h, c, i, version[i])
  <2>1. Len(h) + i \in 1..Len(h) + n /\ ~(Len(h) + i <= Len(h)) /\ Len(h) + i - Len(h) = i
    BY <1>1
  <2> QED
    BY <2>1, <1>6, <1>7
<1>10. Copied(h, g, c, n, version)
  BY <1>7, <1>8, <1>9 DEF Copied
<1> QED
  BY <1>10 DEF g

LEMMA CopiesOnTop ==
  ASSUME NEW h, History(h), NEW c \in 1..Len(h), NEW n \in Nat, n >= 1,
         NEW version, NEW g, Copied(h, g, c, n, version)
  PROVE  /\ History(g) /\ Extends(h, g) /\ Len(g) = Len(h) + n
         /\ \A i \in 1..n : g[Len(h) + i].version = version[i]
         /\ h[c].past \ {c} \subseteq g[Len(h) + n].past
<1> DEFINE L == Len(h)
           old == h[c].past \ {c}
<1>1. h \in Seq(Node) /\ L \in Nat
  BY DEF History
<1>2. \A d \in 1..L : Rooted(h, d)
  BY DEF History
<1>3. Rooted(h, c) /\ c \in 1..L
  BY <1>2
<1>4. old \subseteq 1..(c - 1)
  BY <1>3 DEF Rooted
<1>7. g \in Seq(Node) /\ Len(g) = L + n
  BY DEF Copied
<1>8. \A d \in 1..L : g[d] = h[d]
  BY DEF Copied
<1>10. ASSUME NEW i \in 1..n
       PROVE  /\ i = 1 => g[L + i].parents = h[c].parents
              /\ i # 1 => g[L + i].parents = {L + i - 1}
              /\ g[L + i].past = old \union (L + 1)..(L + i)
              /\ g[L + i].version = version[i]
  <2> DEFINE parents == IF i = 1 THEN h[c].parents ELSE {L + i - 1}
             past == old \union (L + 1)..(L + i)
  <2>1. g[L + i] = [parents |-> parents, past |-> past, version |-> version[i]]
    BY DEF Copied, Copy
  <2> HIDE DEF parents, past
  <2>2. /\ g[L + i].parents = parents /\ g[L + i].past = past
        /\ g[L + i].version = version[i]
    BY <2>1
  <2> QED
    BY <2>2 DEF parents, past
<1> HIDE DEF L, old
<1>11. Extends(h, g)
  BY <1>1, <1>7, <1>8 DEF Extends, L
<1>12. \A d \in 1..L : Rooted(g, d)
  BY <1>1, <1>2, <1>8, RootedStays
<1>13. ASSUME NEW i \in 1..n
       PROVE  Rooted(g, L + i)
  <2>1. g[L + i].parents \subseteq 1..(L + i - 1)
    <3>1. h[c].parents \subseteq 1..(L + i - 1)
      BY <1>1, <1>3 DEF Rooted
    <3>2. i # 1 => L + i - 1 \in 1..(L + i - 1)
      BY <1>1
    <3> QED
      BY <3>1, <3>2, <1>10
  <2>2. g[L + i].past \subseteq 1..(L + i)
    <3>1. old \subseteq 1..(L + i) /\ (L + 1)..(L + i) \subseteq 1..(L + i)
      BY <1>1, <1>3, <1>4
    <3> QED
      BY <3>1, <1>10
  <2>3. ASSUME NEW e \in 1..(L + i)
        PROVE  e \in g[L + i].past <=> e = L + i \/ \E d \in g[L + i].parents : e \in g[d].past
    <3>1. CASE i = 1
      <4>1. g[L + i].parents = h[c].parents /\ g[L + i].past = old \union {L + 1}
        <5>1. (L + 1)..(L + i) = {L + 1}
          BY <3>1, <1>1
        <5> QED
          BY <5>1, <3>1, <1>10
      <4>2. \A d \in h[c].parents : d \in 1..L /\ d \in 1..(c - 1)
        BY <1>1, <1>3 DEF Rooted
      <4>3. \A d \in h[c].parents : h[d].past \subseteq 1..(c - 1)
        BY <1>2, <1>3, <4>2 DEF Rooted
      <4>4. e \in old <=> \E d \in h[c].parents : e \in h[d].past
        <5>1. CASE e \in 1..c
          <6>1. e = c => ~\E d \in h[c].parents : e \in h[d].past
            BY <4>3, <1>3
          <6> QED
            BY <5>1, <6>1, <1>3 DEF Rooted, old
        <5>2. CASE e \notin 1..c
          BY <5>2, <4>3, <1>4, <1>3
        <5> QED
          BY <5>1, <5>2
      <4> QED
        BY <4>1, <4>2, <4>4, <1>8, <3>1
    <3>2. CASE i # 1
      <4>1. i - 1 \in 1..n /\ L + (i - 1) = L + i - 1
        BY <3>2, <1>1
      <4>2. g[L + i - 1].past = old \union (L + 1)..(L + i - 1)
        BY <4>1, <1>10
      <4>3. g[L + i].parents = {L + i - 1}
        BY <3>2, <1>10
      <4>4. (L + 1)..(L + i) = (L + 1)..(L + i - 1) \union {L + i}
        BY <1>1
      <4> QED
        BY <4>2, <4>3, <4>4, <1>10
    <3> QED
      BY <3>1, <3>2
  <2>4. ASSUME NEW d \in g[L + i].past
        PROVE  g[d].past \subseteq g[L + i].past
    <3>1. CASE d \in old
      <4>1. d \in 1..L /\ d \in 1..(c - 1) /\ d \in h[c].past
        BY <3>1, <1>1, <1>3, <1>4 DEF old
      <4>2. h[d].past \subseteq h[c].past /\ h[d].past \subseteq 1..d
        BY <4>1, <1>2, <1>3 DEF Rooted
      <4>3. c \notin h[d].past
        BY <4>1, <4>2, <1>3
      <4> QED
        BY <4>1, <4>2, <4>3, <1>8, <1>10 DEF old
    <3>2. CASE d \notin old
      <4>1. d \in (L + 1)..(L + i)
        BY <3>2, <1>10
      <4>2. d - L \in 1..n /\ d - L <= i /\ L + (d - L) = d
        BY <4>1, <1>1
      <4>3. g[d].past = old \union (L + 1)..d
        BY <4>2, <1>10
      <4>4. (L + 1)..d \subseteq (L + 1)..(L + i)
        BY <4>1, <1>1
      <4> QED
        BY <4>3, <4>4, <1>10
    <3> QED
      BY <3>1, <3>2
  <2>5. ASSUME NEW k, k = L + i
        PROVE  Rooted(g, k)
    <3>0. k - 1 = L + i - 1
      BY <2>5, <1>1
    <3>1. g[k].parents \subseteq 1..(k - 1)
      BY <2>1, <2>5, <3>0
    <3>4. g[k].past \subseteq 1..k
      BY <2>2, <2>5
    <3>2. \A e \in 1..k : e \in g[k].past <=> e = k \/ \E d \in g[k].parents : e \in g[d].past
      BY <2>3, <2>5
    <3>3. \A d \in g[k].past : g[d].past \subseteq g[k].past
      BY <2>4, <2>5
    <3> QED
      BY <3>1, <3>2, <3>3, <3>4 DEF Rooted
  <2> QED
    BY <2>5
<1>14. History(g)
  <2>1. ASSUME NEW d \in 1..Len(g)
        PROVE  Rooted(g, d)
    <3>1. d \in 1..L \/ (d - L \in 1..n /\ L + (d - L) = d)
      BY <1>1, <1>7
    <3> QED
      BY <3>1, <1>12, <1>13
  <2> QED
    BY <2>1, <1>7 DEF History
<1>15. old \subseteq g[L + n].past
  BY <1>10
<1> QED
  BY <1>7, <1>10, <1>11, <1>14, <1>15 DEF L, old

-----------------------------------------------------------------------------
(* What a step does to the history and to the branches *)

Reference == 0..Len(commits)
Tag == [minor : Nat, commit : 1..Len(commits)]

Typed ==
  /\ History(commits)
  /\ branches \in [Main -> Reference] /\ track \in [Branch -> Reference]
  /\ head \in Main /\ branches[head] # 0 /\ branches["main"] # 0
  /\ file \in Version /\ minor \in Nat
  /\ tags \subseteq Tag
  /\ remote \in [main : 1..Len(commits), tags : SUBSET Tag]
  /\ gone \subseteq Branch /\ todo \subseteq Branch
  /\ rejected \in BOOLEAN

(* The version files that a new commit can have: that of a commit, or the  *)
(* one in the work tree while it is whole *)
Versions ==
  {commits[c].version : c \in 1..Len(commits)}
  \union {v \in {file} : file # Torn \/ rel \in {"commit", "commit dev"}}

(* Commits are only added, with versions that were there before, and what  *)
(* main had in its history it keeps or has a copy of.                      *)
Grows ==
  /\ History(commits') /\ Extends(commits, commits')
  /\ branches' \in [Main -> 0..Len(commits')]
  /\ head' \in Main /\ branches'[head'] # 0 /\ branches'["main"] # 0
  /\ commits[branches["main"]].past \subseteq rewritten' \union commits'[branches'["main"]].past
  /\ rewritten \subseteq rewritten'
  /\ \A c \in 1..Len(commits') : commits'[c].version \in Versions

LEMMA Refers ==
  ASSUME Typed
  PROVE  /\ Len(commits) \in Nat /\ Commit = 1..Len(commits) /\ commits \in Seq(Node)
         /\ "main" \in Main
         /\ \A b \in Main : branches[b] # 0 => branches[b] \in 1..Len(commits)
         /\ HeadCommit \in 1..Len(commits)
         /\ \A c \in 1..Len(commits) :
              /\ Rooted(commits, c) /\ Ancestors(c) = commits[c].past
              /\ c \in commits[c].past
              /\ commits[c].version \in Version /\ commits[c].version \in Versions
<1>1. Len(commits) \in Nat /\ commits \in Seq(Node)
  BY DEF Typed, History
<1>2. Commit = 1..Len(commits)
  BY <1>1 DEF Commit
<1>3. ASSUME NEW b \in Main, branches[b] # 0
      PROVE  branches[b] \in 1..Len(commits)
  <2>1. branches[b] \in 0..Len(commits)
    BY <1>3 DEF Typed, Reference
  <2> QED
    BY <2>1, <1>1, <1>3
<1>4. HeadCommit \in 1..Len(commits)
  BY <1>3 DEF Typed, HeadCommit
<1>5. ASSUME NEW c \in 1..Len(commits)
      PROVE  /\ Rooted(commits, c) /\ Ancestors(c) = commits[c].past
             /\ c \in commits[c].past
             /\ commits[c].version \in Version /\ commits[c].version \in Versions
  <2>1. Rooted(commits, c)
    BY DEF Typed, History
  <2>2. commits[c] \in Node
    BY <1>1, ElementOfSeq
  <2>3. c # 0 /\ c \in 1..c
    BY <1>1
  <2>4. c \in commits[c].past
    BY <2>1, <2>3 DEF Rooted
  <2> QED
    BY <2>1, <2>2, <2>3, <2>4 DEF Node, Ancestors, Versions
<1> QED
  BY <1>1, <1>2, <1>3, <1>4, <1>5 DEF Main

LEMMA HistoryStays ==
  ASSUME Typed, UNCHANGED <<commits, rewritten>>,
         branches' \in [Main -> 0..Len(commits)],
         head' \in Main, branches'[head'] # 0, branches'["main"] # 0,
         commits[branches["main"]].past \subseteq commits[branches'["main"]].past
  PROVE  Grows
<1>1. History(commits') /\ Extends(commits, commits')
  BY Refers DEF Typed, Extends
<1>2. \A c \in 1..Len(commits') : commits'[c].version \in Versions
  BY Refers
<1> QED
  BY <1>1, <1>2 DEF Grows

LEMMA Appended ==
  ASSUME Typed, NEW parents \in SUBSET (1..Len(commits)), NEW v \in Version, v \in Versions,
         commits' = Append(commits, NewCommit(Len(commits) + 1, parents, v))
  PROVE  /\ History(commits') /\ Extends(commits, commits') /\ Len(commits') = Len(commits) + 1
         /\ commits'[Len(commits) + 1].version = v
         /\ \A d \in parents : commits[d].past \subseteq commits'[Len(commits) + 1].past
         /\ \A c \in 1..Len(commits') : commits'[c].version \in Versions
<1> DEFINE n == Len(commits) + 1
<1>1. commits' = Append(commits, Top(commits, parents, v))
  <2>1. \A d \in parents : Ancestors(d) = commits[d].past
    BY Refers
  <2>2. UNION {Ancestors(d) : d \in parents} = UNION {commits[d].past : d \in parents}
    BY <2>1
  <2> QED
    BY <2>2 DEF NewCommit, Top
<1>2. /\ History(commits') /\ Extends(commits, commits') /\ Len(commits') = n
      /\ commits'[n].version = v
      /\ \A d \in parents : commits[d].past \subseteq commits'[n].past
  <2>1. History(commits)
    BY DEF Typed
  <2>2. OnTop(commits, commits', parents, v)
    BY <1>1, <2>1, NextCommit
  <2> QED
    BY <2>2 DEF OnTop
<1>3. ASSUME NEW c \in 1..Len(commits')
      PROVE  commits'[c].version \in Versions
  <2>1. c \in 1..Len(commits) \/ c = n
    BY <1>2, Refers
  <2>2. CASE c \in 1..Len(commits)
    <3>1. commits'[c] = commits[c]
      BY <2>2, <1>2 DEF Extends
    <3> QED
      BY <2>2, <3>1, Refers
  <2>3. CASE c = n
    BY <2>3, <1>2
  <2> QED
    BY <2>1, <2>2, <2>3
<1> QED
  BY <1>2, <1>3

(* A commit on the branch checked out *)
LEMMA RecordGrows ==
  ASSUME Typed, NEW parents \in SUBSET (1..Len(commits)), NEW v \in Version,
         v \in Versions,
         commits[HeadCommit].past \subseteq rewritten' \union UNION {commits[d].past : d \in parents},
         Record(parents, v), head' = head, rewritten \subseteq rewritten'
  PROVE  /\ Grows
         /\ Len(commits') = Len(commits) + 1
         /\ branches' = [branches EXCEPT ![head] = Len(commits) + 1]
         /\ commits'[branches'[head]].version = v
<1> DEFINE n == Len(commits) + 1
<1>1. commits' = Append(commits, NewCommit(n, parents, v))
  BY DEF Record
<1>2. /\ History(commits') /\ Extends(commits, commits') /\ Len(commits') = n
      /\ commits'[n].version = v
      /\ \A d \in parents : commits[d].past \subseteq commits'[n].past
      /\ \A c \in 1..Len(commits') : commits'[c].version \in Versions
  BY <1>1, Appended
<1>3. branches' = [branches EXCEPT ![head] = n]
  BY DEF Record
<1>4. Len(commits) \in Nat /\ head \in Main /\ "main" \in Main /\ branches \in [Main -> 0..Len(commits)]
  BY Refers DEF Typed, Reference
<1>5. branches' \in [Main -> 0..n] /\ branches'[head] = n
  BY <1>3, <1>4
<1>6. branches'["main"] # 0
  BY <1>3, <1>4, <1>5 DEF Typed
<1>7. commits[branches["main"]].past \subseteq rewritten' \union commits'[branches'["main"]].past
  <2>1. CASE head = "main"
    <3>1. commits[branches["main"]].past
            \subseteq rewritten' \union UNION {commits[d].past : d \in parents}
      BY <2>1 DEF HeadCommit
    <3>2. UNION {commits[d].past : d \in parents} \subseteq commits'[n].past
      BY <1>2
    <3> QED
      BY <3>1, <3>2, <1>5, <2>1
  <2>2. CASE head # "main"
    <3>1. branches'["main"] = branches["main"]
      BY <2>2, <1>3, <1>4
    <3>2. branches["main"] \in 1..Len(commits)
      BY Refers DEF Typed
    <3>3. commits'[branches["main"]] = commits[branches["main"]]
      BY <3>2, <1>2 DEF Extends
    <3> QED
      BY <3>1, <3>3
  <2> QED
    BY <2>1, <2>2
<1> QED
  BY <1>2, <1>3, <1>4, <1>5, <1>6, <1>7 DEF Grows

(* A commit of the work tree on HEAD *)
LEMMA CommitGrows ==
  ASSUME Typed, NEW v \in Version, v \in Versions, NEW parents \in SUBSET (1..Len(commits)),
         HeadCommit \in parents,
         Record(parents, v), head' = head, UNCHANGED rewritten
  PROVE  /\ Grows
         /\ Len(commits') = Len(commits) + 1
         /\ branches' = [branches EXCEPT ![head] = Len(commits) + 1]
         /\ commits'[branches'[head]].version = v
<1>1. commits[HeadCommit].past \subseteq rewritten' \union UNION {commits[d].past : d \in parents}
  OBVIOUS
<1>2. rewritten \subseteq rewritten'
  OBVIOUS
<1> QED
  BY <1>1, <1>2, RecordGrows

LEMMA QuietGrows ==
  ASSUME Typed, UNCHANGED <<commits, branches, head, rewritten>>
  PROVE  Grows
BY HistoryStays DEF Typed, Reference

LEMMA DevelopersGrow ==
  ASSUME Typed, Developers
  PROVE  Grows
<1> USE Refers
<1>1. CASE Work
  <2>1. file \in Versions /\ file \in Version
    BY <1>1 DEF Work, Versions, Typed
  <2>2. Record({HeadCommit}, file) /\ head' = head /\ UNCHANGED rewritten
    BY <1>1 DEF Work, history
  <2> QED
    BY <2>1, <2>2, CommitGrows
<1>2. CASE Restore
  BY <1>2, QuietGrows DEF Restore, history
<1>3. CASE SomebodyPushes
  <2>1. /\ remote.main \in 1..Len(commits)
        /\ UNCHANGED <<branches, head, rewritten>>
    BY <1>3 DEF SomebodyPushes, Typed, history
  <2> DEFINE v == commits[remote.main].version
  <2>2. v \in Version /\ v \in Versions /\ {remote.main} \in SUBSET (1..Len(commits))
    BY <2>1
  <2>3. commits' = Append(commits, NewCommit(Len(commits) + 1, {remote.main}, v))
    BY <1>3 DEF SomebodyPushes
  <2> HIDE DEF v
  <2>4. /\ History(commits') /\ Extends(commits, commits') /\ Len(commits') = Len(commits) + 1
        /\ \A c \in 1..Len(commits') : commits'[c].version \in Versions
    BY <2>2, <2>3, Appended
  <2>5. \A c \in 1..Len(commits) : commits'[c] = commits[c]
    BY <2>4 DEF Extends
  <2>6. /\ branches' \in [Main -> 0..Len(commits')]
        /\ head' \in Main /\ branches'[head'] # 0 /\ branches'["main"] # 0
    BY <2>1, <2>4 DEF Typed, Reference
  <2>7. commits[branches["main"]] = commits'[branches'["main"]]
    BY <2>1, <2>5 DEF Typed
  <2> QED
    BY <2>1, <2>4, <2>6, <2>7 DEF Grows
<1>4. ASSUME NEW b \in Branch, NewBranch(b)
      PROVE  Grows
  <2>1. /\ branches' = [branches EXCEPT ![b] = HeadCommit] /\ head' = b
        /\ UNCHANGED <<commits, rewritten>>
    BY <1>4 DEF NewBranch, history
  <2>2. b \in Main /\ b # "main" /\ HeadCommit # 0 /\ HeadCommit \in 0..Len(commits)
    BY BranchAssumption DEF Main
  <2>3. branches' \in [Main -> 0..Len(commits)] /\ branches'[head'] # 0
    BY <2>1, <2>2 DEF Typed, Reference
  <2>4. branches'["main"] = branches["main"]
    BY <2>1, <2>2 DEF Typed
  <2> QED
    BY <2>1, <2>2, <2>3, <2>4, HistoryStays DEF Typed
<1>5. ASSUME NEW b \in Branch, PushBranch(b) \/ UpstreamGone(b)
      PROVE  Grows
  BY <1>5, QuietGrows DEF PushBranch, UpstreamGone, history
<1>6. ASSUME NEW b \in Main, Checkout(b)
      PROVE  Grows
  <2>1. branches[b] # 0 /\ head' = b /\ UNCHANGED <<commits, branches, rewritten>>
    BY <1>6 DEF Checkout, history
  <2> QED
    BY <2>1, HistoryStays DEF Typed, Reference
<1>7. ASSUME NEW b \in Main, Merge(b)
      PROVE  Grows
  <2>1. branches[b] \in 1..Len(commits) /\ head' = head /\ UNCHANGED rewritten
    BY <1>7 DEF Merge, history
  <2>2. CASE HeadCommit \in Ancestors(branches[b])
    <3>1. branches' = [branches EXCEPT ![head] = branches[b]] /\ UNCHANGED commits
      BY <1>7, <2>2 DEF Merge
    <3>2. head \in Main /\ branches \in [Main -> 0..Len(commits)] /\ branches["main"] # 0
      BY DEF Typed, Reference
    <3>3. branches' \in [Main -> 0..Len(commits)] /\ branches'[head] = branches[b]
      BY <2>1, <3>1, <3>2
    <3>4. branches'["main"] # 0
      BY <2>1, <3>1, <3>2
    <3>5. commits[HeadCommit].past \subseteq commits[branches[b]].past
      BY <2>1, <2>2 DEF Rooted
    <3>6. commits[branches["main"]].past \subseteq commits[branches'["main"]].past
      <4>1. CASE head = "main"
        BY <4>1, <3>3, <3>5 DEF HeadCommit
      <4>2. CASE head # "main"
        BY <4>2, <3>1, <3>2
      <4> QED
        BY <4>1, <4>2
    <3> QED
      BY <2>1, <3>1, <3>2, <3>3, <3>4, <3>6, HistoryStays
  <2>3. CASE HeadCommit \notin Ancestors(branches[b])
    <3>1. /\ file' \in {HeadFile, commits[branches[b]].version}
          /\ Record({HeadCommit, branches[b]}, file')
      BY <1>7, <2>3 DEF Merge
    <3>2. file' \in Version /\ file' \in Versions
      BY <2>1, <3>1 DEF HeadFile
    <3>3. {HeadCommit, branches[b]} \in SUBSET (1..Len(commits))
      BY <2>1
    <3> QED
      BY <2>1, <3>1, <3>2, <3>3, CommitGrows
  <2> QED
    BY <2>2, <2>3
<1> QED
  BY <1>1, <1>2, <1>3, <1>4, <1>5, <1>6, <1>7 DEF Developers

LEMMA ReleaseGrows ==
  ASSUME Typed, Release
  PROVE  Grows
<1>1. CASE CommitRelease \/ CommitDev
  <2>1. Record({HeadCommit}, file) /\ head' = head /\ UNCHANGED rewritten
    BY <1>1 DEF CommitRelease, CommitDev, history
  <2>2. file \in Version /\ file \in Versions
    BY <1>1 DEF CommitRelease, CommitDev, Typed, Versions
  <2> QED
    BY <2>1, <2>2, Refers, CommitGrows
<1>2. CASE ~(CommitRelease \/ CommitDev)
  <2>1. UNCHANGED <<commits, branches, head, rewritten>>
    BY <1>2 DEF Release, ReadVersion, WriteReleaseVersion, CheckBranch, CreateTag,
         WriteDevVersion, Push, ReleaseStops, local, history
  <2> QED
    BY <2>1, QuietGrows
<1> QED
  BY <1>1, <1>2

LEMMA CleanBranchesGrows ==
  ASSUME Typed, CleanBranches
  PROVE  Grows
<1>1. CASE \/ RemoveMergedBranches \/ RemoveOldBranches \/ RemoveBranchesWithoutUpstream
           \/ CleanupCompleted
  <2>1. UNCHANGED <<commits, branches, head, rewritten>>
    BY <1>1 DEF RemoveMergedBranches, RemoveOldBranches, RemoveBranchesWithoutUpstream,
         CleanupCompleted, local, history
  <2> QED
    BY <2>1, QuietGrows
<1>2. ASSUME NEW b \in Branch, DeleteBranch(b)
      PROVE  Grows
  <2>1. UNCHANGED <<commits, head, rewritten>>
    BY <1>2 DEF DeleteBranch, history
  <2>2. CASE Deletes(b)
    <3>1. branches' = [branches EXCEPT ![b] = 0] /\ b # head /\ b # "main"
      BY <1>2, <2>2, BranchAssumption DEF DeleteBranch, Deletes
    <3>2. /\ branches \in [Main -> 0..Len(commits)] /\ 0 \in 0..Len(commits)
          /\ "main" \in Main /\ head \in Main
      BY Refers DEF Typed, Reference
    <3>3. /\ branches' \in [Main -> 0..Len(commits)]
          /\ branches'[head] = branches[head] /\ branches'["main"] = branches["main"]
      BY <3>1, <3>2
    <3> QED
      BY <2>1, <3>3, HistoryStays DEF Typed
  <2>3. CASE ~Deletes(b)
    <3>1. UNCHANGED branches
      BY <1>2, <2>3 DEF DeleteBranch
    <3> QED
      BY <2>1, <3>1, QuietGrows
  <2> QED
    BY <2>2, <2>3
<1> QED
  BY <1>1, <1>2 DEF CleanBranches

LEMMA ReauthorGrows ==
  ASSUME Typed, Reauthor
  PROVE  Grows
<1> USE Refers
<1>1. CASE ChangeLastCommitAuthor
  <2> DEFINE parents == Parents(HeadCommit)
  <2>1. /\ head' = head /\ rewritten' = rewritten \union {HeadCommit}
        /\ \E v \in {HeadFile} \union ({file} \ {Torn}) : Record(parents, v)
    BY <1>1 DEF ChangeLastCommitAuthor
  <2>5. PICK v \in {HeadFile} \union ({file} \ {Torn}) : Record(parents, v)
    BY <2>1
  <2>2. parents \in SUBSET (1..Len(commits))
    BY DEF Parents, Rooted
  <2>3. v \in Version /\ v \in Versions
    BY <2>5 DEF HeadFile, Typed, Versions
  <2>4. commits[HeadCommit].past
          \subseteq rewritten' \union UNION {commits[d].past : d \in parents}
    <3>1. Rooted(commits, HeadCommit)
      OBVIOUS
    <3>2. \A e \in commits[HeadCommit].past :
            e = HeadCommit \/ \E d \in parents : e \in commits[d].past
      BY <3>1 DEF Rooted, Parents
    <3> QED
      BY <2>1, <3>2
  <2> HIDE DEF parents
  <2> QED
    BY <2>1, <2>2, <2>3, <2>4, <2>5, RecordGrows
<1>2. ASSUME NEW c \in Commit, ChangeSpecificCommitAuthor(c)
      PROVE  Grows
  <2> DEFINE range == From(commits, c, HeadCommit)
             n == Cardinality(range)
  <2>1. {d \in Ancestors(HeadCommit) : c \in Ancestors(d)} = range
    <3>1. \A d \in commits[HeadCommit].past : d \in 1..Len(commits)
      BY DEF Rooted
    <3> QED
      BY <3>1 DEF From
  <2>2. /\ c \in range
        /\ \A d \in range : Cardinality(Parents(d)) = 1
        /\ branches' = [branches EXCEPT ![head] = Len(commits) + n]
        /\ rewritten' = rewritten \union range
        /\ UNCHANGED head
    BY <1>2, <2>1 DEF ChangeSpecificCommitAuthor
  <2>3. PICK order \in [1..n -> range] :
          commits' = commits \o [i \in 1..n |->
            [parents |-> IF i = 1 THEN Parents(c) ELSE {Len(commits) + i - 1},
             past |-> (Ancestors(c) \ {c}) \union (Len(commits) + 1)..(Len(commits) + i),
             version |-> commits[order[i]].version]]
    BY <1>2, <2>1 DEF ChangeSpecificCommitAuthor
  <2>4. History(commits)
    BY DEF Typed
  <2>5. range \subseteq 1..Len(commits) /\ n \in Nat /\ n >= 1
    BY <2>2, <2>4, CopiedRange
  <2> DEFINE version == [i \in 1..n |-> commits[order[i]].version]
             copies == [i \in 1..n |-> Copy(commits, c, i, version[i])]
  <2>6. version \in [1..n -> Version] /\ \A i \in 1..n : version[i] \in Versions
    BY <2>5
  <2>7. commits' = commits \o copies
    <3>1. Ancestors(c) = commits[c].past /\ Parents(c) = commits[c].parents
      BY DEF Parents
    <3> QED
      BY <2>3, <3>1 DEF Copy
  <2> HIDE DEF range, n, version
  <2>8. Copied(commits, commits', c, n, version)
    BY <2>4, <2>5, <2>6, <2>7, Copying
  <2> HIDE DEF copies
  <2>9. /\ History(commits') /\ Extends(commits, commits') /\ Len(commits') = Len(commits) + n
        /\ \A i \in 1..n : commits'[Len(commits) + i].version = version[i]
        /\ commits[c].past \ {c} \subseteq commits'[Len(commits) + n].past
    BY <2>4, <2>5, <2>8, CopiesOnTop
  <2>10. ASSUME NEW d \in 1..Len(commits')
         PROVE  commits'[d].version \in Versions
    <3>1. CASE d \in 1..Len(commits)
      <4>1. commits'[d] = commits[d]
        BY <3>1, <2>9 DEF Extends
      <4> QED
        BY <3>1, <4>1
    <3>2. CASE d \notin 1..Len(commits)
      <4>1. d - Len(commits) \in 1..n /\ Len(commits) + (d - Len(commits)) = d
        BY <3>2, <2>5, <2>9
      <4> QED
        BY <4>1, <2>6, <2>9
    <3> QED
      BY <3>1, <3>2
  <2>11. head \in Main /\ branches \in [Main -> 0..Len(commits)] /\ branches["main"] # 0
    BY DEF Typed, Reference
  <2>12. /\ branches' \in [Main -> 0..Len(commits')]
         /\ branches'[head'] = Len(commits) + n /\ branches'[head'] # 0 /\ branches'["main"] # 0
    BY <2>2, <2>5, <2>9, <2>11
  <2>13. commits[branches["main"]].past \subseteq rewritten' \union commits'[branches'["main"]].past
    <3>1. CASE head = "main"
      <4>1. commits[HeadCommit].past \subseteq range \union (commits[c].past \ {c})
        BY <2>2, <2>4, LinearRange DEF range, Parents
      <4>2. branches'["main"] = Len(commits) + n
        BY <3>1, <2>2, <2>12
      <4> QED
        BY <3>1, <4>1, <4>2, <2>2, <2>9 DEF HeadCommit
    <3>2. CASE head # "main"
      <4>1. branches'["main"] = branches["main"] /\ branches["main"] \in 1..Len(commits)
        BY <3>2, <2>2, <2>11
      <4>2. commits'[branches["main"]] = commits[branches["main"]]
        BY <4>1, <2>9 DEF Extends
      <4> QED
        BY <4>1, <4>2
    <3> QED
      BY <3>1, <3>2
  <2> QED
    BY <2>2, <2>9, <2>10, <2>11, <2>12, <2>13 DEF Grows
<1> QED
  BY <1>1, <1>2 DEF Reauthor

LEMMA NextGrows ==
  ASSUME Typed, Next
  PROVE  Grows
BY DevelopersGrow, ReleaseGrows, CleanBranchesGrows, ReauthorGrows DEF Next

-----------------------------------------------------------------------------
(* Types *)

LEMMA TypedInit ==
  ASSUME Init
  PROVE  Typed
<1> DEFINE first == [parents |-> {}, past |-> {1}, version |-> [minor |-> First, dev |-> TRUE]]
<1>1. first \in Node /\ commits = <<first>>
  BY BranchAssumption DEF Init, Node, Version
<1>2. commits \in Seq(Node) /\ Len(commits) = 1 /\ commits[1] = first
  BY <1>1
<1>3. Rooted(commits, 1)
  <2>1. commits[1].parents = {} /\ commits[1].past = {1}
    BY <1>2
  <2> QED
    BY <2>1 DEF Rooted
<1>4. History(commits)
  BY <1>2, <1>3 DEF History
<1>5. branches \in [Main -> 0..1] /\ branches["main"] = 1 /\ head = "main" /\ "main" \in Main
  BY DEF Init, Main
<1>6. track \in [Branch -> 0..1]
  BY DEF Init
<1>7. file \in Version /\ minor \in Nat
  BY <1>2, BranchAssumption DEF Init, Version
<1>8. remote \in [main : 1..1, tags : SUBSET Tag] /\ tags \subseteq Tag
  BY DEF Init
<1> QED
  <2>1. Reference = 0..1 /\ 1..Len(commits) = 1..1
    BY <1>2 DEF Reference
  <2>2. gone \subseteq Branch /\ todo \subseteq Branch /\ rejected \in BOOLEAN
    BY DEF Init
  <2>3. /\ branches \in [Main -> Reference] /\ track \in [Branch -> Reference]
        /\ remote \in [main : 1..Len(commits), tags : SUBSET Tag]
    BY <2>1, <1>5, <1>6, <1>8
  <2> QED
    BY <2>2, <2>3, <1>4, <1>5, <1>7, <1>8 DEF Typed

LEMMA MoreReferences ==
  ASSUME Typed, Grows
  PROVE  /\ Len(commits) \in Nat /\ Len(commits') \in Nat /\ Len(commits) <= Len(commits')
         /\ Reference \subseteq Reference' /\ Tag \subseteq Tag'
         /\ 1..Len(commits) \subseteq 1..Len(commits')
         /\ \A c \in 1..Len(commits) : commits'[c] = commits[c]
<1>1. Len(commits) \in Nat /\ Len(commits') \in Nat /\ Len(commits) <= Len(commits')
  BY DEF Typed, Grows, History, Extends
<1>2. 0..Len(commits) \subseteq 0..Len(commits') /\ 1..Len(commits) \subseteq 1..Len(commits')
  BY <1>1
<1> QED
  BY <1>1, <1>2 DEF Grows, Extends, Reference, Tag

(* The part of the types that does not follow from the history's *)
Rest ==
  /\ track \in [Branch -> Reference]
  /\ file \in Version /\ minor \in Nat
  /\ tags \subseteq Tag
  /\ remote \in [main : 1..Len(commits), tags : SUBSET Tag]
  /\ gone \subseteq Branch /\ todo \subseteq Branch
  /\ rejected \in BOOLEAN

LEMMA RestStays ==
  ASSUME Typed, Grows
  PROVE  /\ track \in [Branch -> Reference']
         /\ tags \subseteq Tag'
         /\ remote \in [main : 1..Len(commits'), tags : SUBSET Tag']
<1>1. Reference \subseteq Reference' /\ Tag \subseteq Tag' /\ 1..Len(commits) \subseteq 1..Len(commits')
  BY MoreReferences
<1>2. track \in [Branch -> Reference']
  <2>1. track \in [Branch -> Reference]
    BY DEF Typed
  <2> QED
    BY <1>1, <2>1
<1>3. remote \in [main : 1..Len(commits'), tags : SUBSET Tag']
  <2>1. remote \in [main : 1..Len(commits), tags : SUBSET Tag]
    BY DEF Typed
  <2> QED
    BY <1>1, <2>1
<1> QED
  BY <1>1, <1>2, <1>3 DEF Typed

LEMMA DevelopersRest ==
  ASSUME Typed, Grows, Developers
  PROVE  Rest'
<1>1. /\ track \in [Branch -> Reference'] /\ tags \subseteq Tag'
      /\ remote \in [main : 1..Len(commits'), tags : SUBSET Tag']
  BY RestStays
<1>2. /\ file \in Version /\ minor \in Nat /\ gone \subseteq Branch /\ todo \subseteq Branch
      /\ rejected \in BOOLEAN
  BY DEF Typed
<1>3. \A c \in 1..Len(commits) : commits[c].version \in Version
  BY Refers
<1>4. HeadFile \in Version
  BY <1>3, Refers DEF HeadFile
<1>5. CASE Work \/ Restore
  BY <1>1, <1>2, <1>4, <1>5 DEF Work, Restore, Rest, release, clean, history
<1>6. CASE SomebodyPushes
  <2>1. /\ remote' = [remote EXCEPT !.main = Len(commits) + 1]
        /\ UNCHANGED <<file, tags, track, gone, todo, minor, rejected>>
    BY <1>6 DEF SomebodyPushes, release, clean, history
  <2>2. Len(commits) + 1 \in 1..Len(commits')
    <3> DEFINE c == NewCommit(Len(commits) + 1, {remote.main}, commits[remote.main].version)
    <3>1. commits' = Append(commits, c)
      BY <1>6 DEF SomebodyPushes
    <3> HIDE DEF c
    <3>2. Len(commits') = Len(commits) + 1
      <4>1. commits \in Seq(Node)
        BY Refers
      <4> QED
        BY <3>1, <4>1
    <3> QED
      BY <3>2, MoreReferences
  <2>3. remote' \in [main : 1..Len(commits'), tags : SUBSET Tag']
    BY <1>1, <2>1, <2>2
  <2> QED
    BY <1>1, <1>2, <2>1, <2>3 DEF Rest
<1>7. ASSUME NEW b \in Branch, NewBranch(b)
      PROVE  Rest'
  BY <1>1, <1>2, <1>7 DEF NewBranch, Rest, release, clean, history
<1>8. ASSUME NEW b \in Branch, PushBranch(b)
      PROVE  Rest'
  <2>1. /\ track' = [track EXCEPT ![b] = branches[b]]
        /\ UNCHANGED <<commits, file, tags, gone, remote, todo, minor, rejected>>
    BY <1>8 DEF PushBranch, release, clean, history
  <2>2. branches[b] \in Reference'
    BY <2>1 DEF Typed, Main, Reference
  <2>3. track' \in [Branch -> Reference']
    BY <1>1, <2>1, <2>2
  <2> QED
    BY <1>1, <1>2, <2>1, <2>3 DEF Rest
<1>9. ASSUME NEW b \in Branch, UpstreamGone(b)
      PROVE  Rest'
  <2>1. /\ track' = [track EXCEPT ![b] = 0] /\ gone' = gone \union {b}
        /\ UNCHANGED <<file, tags, remote, todo, minor, rejected>>
    BY <1>9 DEF UpstreamGone, release, clean, history
  <2>2. track' \in [Branch -> Reference']
    <3>1. 0 \in Reference'
      BY MoreReferences DEF Reference
    <3> QED
      BY <1>1, <2>1, <3>1
  <2> QED
    BY <1>1, <1>2, <2>1, <2>2 DEF Rest
<1>10. ASSUME NEW b \in Main, Checkout(b) \/ Merge(b)
       PROVE  Rest'
  <2>1. branches[b] \in 1..Len(commits)
    BY <1>10, Refers DEF Checkout, Merge
  <2>2. file' \in Version
    BY <1>10, <1>2, <1>3, <1>4, <2>1 DEF Checkout, Merge
  <2>3. UNCHANGED <<tags, track, gone, remote, todo, minor, rejected>>
    BY <1>10 DEF Checkout, Merge, release, clean, history
  <2> QED
    BY <1>1, <1>2, <2>2, <2>3 DEF Rest
<1> QED
  BY <1>5, <1>6, <1>7, <1>8, <1>9, <1>10 DEF Developers

LEMMA ReleaseRest ==
  ASSUME Typed, Grows, Release
  PROVE  Rest'
<1>1. /\ track \in [Branch -> Reference'] /\ tags \subseteq Tag'
      /\ remote \in [main : 1..Len(commits'), tags : SUBSET Tag']
  BY RestStays
<1>2. /\ file \in Version /\ minor \in Nat /\ gone \subseteq Branch /\ todo \subseteq Branch
      /\ rejected \in BOOLEAN /\ First \in Nat /\ file.minor \in Nat
  BY BranchAssumption DEF Typed, Version
<1>3. CASE ReadVersion
  BY <1>1, <1>2, <1>3 DEF ReadVersion, Begin, Rest, local, clean
<1>4. CASE WriteReleaseVersion \/ WriteDevVersion
  <2>1. minor + 1 \in Nat
    BY <1>2
  <2>2. /\ [minor |-> minor, dev |-> FALSE] \in Version
        /\ [minor |-> Bump(minor), dev |-> TRUE] \in Version
    BY <1>2, <2>1 DEF Version, Bump
  <2>3. file' \in Version
    BY <1>4, <2>2 DEF WriteReleaseVersion, WriteDevVersion
  <2> QED
    BY <1>1, <1>2, <1>4, <2>3 DEF WriteReleaseVersion, WriteDevVersion, Rest, clean, history
<1>5. CASE CheckBranch
  BY <1>1, <1>2, <1>5 DEF CheckBranch, Rest, local, clean, history
<1>6. CASE CommitRelease \/ CommitDev
  BY <1>1, <1>2, <1>6 DEF CommitRelease, CommitDev, Rest, clean, history
<1>7. CASE CreateTag
  <2>1. /\ tags' = tags \union {[minor |-> minor, commit |-> HeadCommit]}
        /\ UNCHANGED <<file, track, gone, remote, minor, todo, rejected>>
    BY <1>7 DEF CreateTag, clean, history
  <2>2. [minor |-> minor, commit |-> HeadCommit] \in Tag
    BY <1>2, Refers DEF Tag
  <2>3. tags' \subseteq Tag'
    BY <1>1, <2>1, <2>2, MoreReferences
  <2> QED
    BY <1>1, <1>2, <2>1, <2>3 DEF Rest
<1>8. CASE Push
  <2>1. PICK accepted \in BOOLEAN :
          /\ remote' = [main |-> IF accepted THEN branches["main"] ELSE remote.main,
                        tags |-> remote.tags \union
                                 {t \in tags : \A u \in remote.tags : u.minor # t.minor}]
          /\ rejected' = (rejected \/ ~accepted)
    BY <1>8 DEF Push
  <2>2. branches["main"] \in 1..Len(commits')
    BY Refers, MoreReferences DEF Typed
  <2>3. remote.main \in 1..Len(commits') /\ remote.tags \subseteq Tag'
    BY <1>1
  <2>4. remote' \in [main : 1..Len(commits'), tags : SUBSET Tag']
    <3> DEFINE new == {t \in tags : \A u \in remote.tags : u.minor # t.minor}
    <3>1. remote.tags \union new \subseteq Tag'
      BY <1>1, <2>3
    <3> HIDE DEF new
    <3> QED
      BY <2>1, <2>2, <2>3, <3>1 DEF new
  <2>5. rejected' \in BOOLEAN
    BY <2>1, <1>2
  <2>6. minor' \in Nat /\ UNCHANGED <<file, track, gone, tags, todo>>
    BY <1>2, <1>8 DEF Push, EndRelease, local, clean
  <2> QED
    BY <1>1, <1>2, <2>4, <2>5, <2>6 DEF Rest
<1>9. CASE ReleaseStops
  <2>0. /\ Torn \in Version
        /\ \A m \in {minor, minor + 1} : [minor |-> m, dev |-> FALSE] \in Version
    BY <1>2 DEF Torn, Version
  <2>1. file' \in Version /\ minor' \in Nat
    BY <1>2, <1>9, <2>0 DEF ReleaseStops, EndRelease, Bump
  <2> QED
    BY <1>1, <1>2, <1>9, <2>1 DEF ReleaseStops, Rest, clean, history
<1> QED
  BY <1>3, <1>4, <1>5, <1>6, <1>7, <1>8, <1>9 DEF Release

LEMMA CleanBranchesRest ==
  ASSUME Typed, Grows, CleanBranches
  PROVE  Rest'
<1>1. /\ track \in [Branch -> Reference'] /\ tags \subseteq Tag'
      /\ remote \in [main : 1..Len(commits'), tags : SUBSET Tag']
  BY RestStays
<1>2. /\ file \in Version /\ minor \in Nat /\ gone \subseteq Branch /\ todo \subseteq Branch
      /\ rejected \in BOOLEAN
  BY DEF Typed
<1>3. CASE RemoveMergedBranches \/ RemoveBranchesWithoutUpstream
  <2>1. todo' \subseteq Branch
    BY <1>2, <1>3 DEF RemoveMergedBranches, RemoveBranchesWithoutUpstream, Listed
  <2>2. UNCHANGED <<track, tags, remote, file, minor, gone, rejected>>
    BY <1>3 DEF RemoveMergedBranches, RemoveBranchesWithoutUpstream, local, release, history
  <2> QED
    BY <1>1, <1>2, <2>1, <2>2 DEF Rest
<1>4. CASE RemoveOldBranches \/ CleanupCompleted
  BY <1>1, <1>2, <1>4 DEF RemoveOldBranches, CleanupCompleted, Rest, local, release, history
<1>5. ASSUME NEW b \in Branch, DeleteBranch(b)
      PROVE  Rest'
  <2>1. todo' \subseteq Branch /\ gone' \subseteq Branch
    BY <1>2, <1>5 DEF DeleteBranch
  <2>2. track' \in [Branch -> Reference']
    <3>1. 0 \in Reference'
      BY MoreReferences DEF Reference
    <3> QED
      BY <1>1, <1>5, <3>1 DEF DeleteBranch
  <2>3. UNCHANGED <<tags, remote, file, minor, rejected>>
    BY <1>5 DEF DeleteBranch, release, history
  <2> QED
    BY <1>1, <1>2, <2>1, <2>2, <2>3 DEF Rest
<1> QED
  BY <1>3, <1>4, <1>5 DEF CleanBranches

LEMMA ReauthorRest ==
  ASSUME Typed, Grows, Reauthor
  PROVE  Rest'
<1>1. UNCHANGED <<track, tags, remote, file, minor, gone, todo, rejected>>
  BY DEF Reauthor, ChangeLastCommitAuthor, ChangeSpecificCommitAuthor, release, clean
<1> QED
  BY <1>1, RestStays DEF Typed, Rest

LEMMA TypedStep ==
  ASSUME Typed, [Next]_vars
  PROVE  Typed'
<1>1. CASE Next
  <2>1. Grows
    BY <1>1, NextGrows
  <2>2. Rest'
    BY <1>1, <2>1, DevelopersRest, ReleaseRest, CleanBranchesRest, ReauthorRest DEF Next
  <2> QED
    BY <2>1, <2>2 DEF Grows, Rest, Typed, Reference
<1>2. CASE UNCHANGED vars
  BY <1>2 DEF Typed, Reference, Tag, vars, local, release, clean, history
<1> QED
  BY <1>1, <1>2

(* The types of the variables; commits come after their parents, and the   *)
(* branch checked out is never deleted. *)
THEOREM GitTypes == Spec => []TypeOK
<1>1. Typed => TypeOK
  <2> SUFFICES ASSUME Typed
               PROVE  TypeOK
    OBVIOUS
  <2>1. \A c \in Commit : commits[c].version \in Version /\ Parents(c) \subseteq 1..(c - 1)
    BY Refers DEF Parents, Rooted
  <2>2. 0..Len(commits) = 1..Len(commits) \union {0} /\ Commit = 1..Len(commits)
    BY Refers
  <2> QED
    BY <2>1, <2>2 DEF Typed, TypeOK, Reference, Tag
<1> QED
  BY <1>1, TypedInit, TypedStep, PTL DEF Spec

-----------------------------------------------------------------------------
(* Deleted branches *)

(* Only clean-branches makes a branch go. *)
LEMMA OnlyDeletes ==
  ASSUME Typed, Next, NEW b \in Branch, branches[b] # 0, branches'[b] = 0
  PROVE  DeleteBranch(b) /\ Deletes(b)
<1>1. /\ b \in Main /\ branches \in [Main -> Reference] /\ head \in Main
      /\ Len(commits) \in Nat /\ HeadCommit \in 1..Len(commits)
  BY Refers DEF Main, Typed
<1>2. ASSUME NEW c, branches' = [branches EXCEPT ![head] = c], c # 0
      PROVE  FALSE
  BY <1>1, <1>2
<1>3. ASSUME NEW parents, NEW v, Record(parents, v)
      PROVE  FALSE
  BY <1>1, <1>2, <1>3 DEF Record
<1>4. ~Developers
  <2>1. ~Work
    BY <1>3 DEF Work
  <2>2. ASSUME NEW d \in Branch, NewBranch(d)
        PROVE  FALSE
    BY <1>1, <2>2 DEF NewBranch
  <2>3. ASSUME NEW d \in Main, Merge(d)
        PROVE  FALSE
    <3>1. branches[d] # 0
      BY <2>3 DEF Merge
    <3>2. ~Record({HeadCommit, branches[d]}, file')
      BY <1>3
    <3> QED
      BY <1>2, <2>3, <3>1, <3>2 DEF Merge
  <2> QED
    BY <2>1, <2>2, <2>3
       DEF Developers, Restore, SomebodyPushes, PushBranch, UpstreamGone, Checkout
<1>5. ~Release
  BY <1>3 DEF Release, ReadVersion, WriteReleaseVersion, CheckBranch, CommitRelease, CreateTag,
       WriteDevVersion, CommitDev, Push, ReleaseStops, local
<1>6. ~Reauthor
  <2>1. ~ChangeLastCommitAuthor
    BY <1>3 DEF ChangeLastCommitAuthor
  <2>2. ASSUME NEW c \in Commit, ChangeSpecificCommitAuthor(c)
        PROVE  FALSE
    <3> DEFINE range == {d \in Ancestors(HeadCommit) : c \in Ancestors(d)}
    <3>1. /\ c \in range
          /\ branches' = [branches EXCEPT ![head] = Len(commits) + Cardinality(range)]
      BY <2>2 DEF ChangeSpecificCommitAuthor
    <3>2. History(commits)
      BY DEF Typed
    <3>3. range = From(commits, c, HeadCommit)
      <4>1. Ancestors(HeadCommit) = commits[HeadCommit].past
        BY Refers
      <4>2. \A d \in commits[HeadCommit].past : Ancestors(d) = commits[d].past
        BY Refers DEF Rooted
      <4> QED
        BY <4>1, <4>2 DEF From
    <3> HIDE DEF range
    <3>4. Cardinality(range) \in Nat /\ Cardinality(range) >= 1
      BY <1>1, <3>1, <3>2, <3>3, CopiedRange
    <3>5. Len(commits) + Cardinality(range) # 0
      BY <1>1, <3>4
    <3> QED
      BY <1>2, <3>1, <3>5
  <2> QED
    BY <2>1, <2>2 DEF Reauthor
<1>7. PICK d \in Branch : DeleteBranch(d)
  BY <1>4, <1>5, <1>6 DEF Next, CleanBranches, RemoveMergedBranches, RemoveOldBranches,
       RemoveBranchesWithoutUpstream, CleanupCompleted, local
<1>8. Deletes(d) /\ branches' = [branches EXCEPT ![d] = 0]
  BY <1>7 DEF DeleteBranch
<1>9. d = b
  BY <1>1, <1>8
<1> QED
  BY <1>7, <1>8, <1>9

LEMMA DeletionStep ==
  ASSUME Typed, [Next]_vars, NEW b \in Branch
  PROVE  DeletionKeeps(b)
<1> SUFFICES ASSUME branches[b] # 0, branches'[b] = 0
             PROVE  Ancestors(branches[b]) \subseteq Reachable(branches', track, tags)
  BY DEF DeletionKeeps
<1>1. Next
  BY DEF vars, local
<1>2. DeleteBranch(b) /\ Deletes(b)
  BY <1>1, OnlyDeletes
<1> DEFINE keeper == IF track[b] # 0 THEN track[b] ELSE HeadCommit
<1>3. branches[b] \in Ancestors(keeper) /\ b # head /\ branches' = [branches EXCEPT ![b] = 0]
  BY <1>2 DEF Deletes, DeleteBranch
<1>4. keeper \in 1..Len(commits)
  <2>1. track[b] \in 0..Len(commits) /\ Len(commits) \in Nat
    BY Refers DEF Typed, Reference
  <2> QED
    BY <2>1, Refers
<1>5. Ancestors(branches[b]) \subseteq Ancestors(keeper)
  <2>1. Rooted(commits, keeper) /\ Ancestors(keeper) = commits[keeper].past
    BY <1>4, Refers
  <2>2. branches[b] \in 1..Len(commits)
    BY Refers DEF Main
  <2>3. Ancestors(branches[b]) = commits[branches[b]].past
    BY <2>2, Refers
  <2> HIDE DEF keeper
  <2> QED
    BY <1>3, <2>1, <2>3 DEF Rooted
<1>6. Ancestors(keeper) \subseteq Reachable(branches', track, tags)
  <2>1. CASE track[b] # 0
    <3>1. keeper = track[b]
      BY <2>1
    <3>2. Ancestors(track[b]) \subseteq UNION {Ancestors(track[d]) : d \in Branch}
      OBVIOUS
    <3> HIDE DEF keeper
    <3> QED
      BY <3>1, <3>2 DEF Reachable
  <2>2. CASE track[b] = 0
    <3>1. head \in Main /\ branches'[head] = HeadCommit
      BY <1>3 DEF Typed, HeadCommit
    <3> QED
      BY <2>2, <3>1 DEF Reachable
  <2> QED
    BY <2>1, <2>2
<1> QED
  BY <1>5, <1>6

(* Whatever clean-branches deletes, however the lists it works from have   *)
(* aged, what was in the history of the branch stays in that of another    *)
(* reference.                                                              *)
THEOREM NoneLost == Spec => NoCommitLost
<1>1. Typed /\ [Next]_vars => [\A b \in Branch : DeletionKeeps(b)]_vars
  BY DeletionStep
<1> QED
  BY <1>1, TypedInit, TypedStep, PTL DEF Spec, NoCommitLost

-----------------------------------------------------------------------------
(* Tags and releases *)

(* A version that a release may have: the first, or next to one that is    *)
(* tagged *)
Grounded(ts, m) == m = First \/ \E u \in ts : u.minor + 1 = m
OnMain(c) == c \in rewritten \union commits[branches["main"]].past
ReleaseFile == [minor |-> minor, dev |-> FALSE]

Sourced ==
  /\ file = Torn \/ Grounded(tags, file.minor)
  /\ \A c \in 1..Len(commits) : Grounded(tags, commits[c].version.minor)
  /\ rel # "idle" => Grounded(tags, minor)

(* What is settled at each step of a release *)
Releasing ==
  /\ rel \in {"check", "commit"} => file = ReleaseFile
  /\ rel \in {"commit", "tag", "write dev", "commit dev", "push"} => head = "main"
  /\ rel = "tag" => commits[HeadCommit].version = ReleaseFile
  /\ rel = "write dev" => \E t \in tags : t.minor = minor
  /\ rel = "commit dev" => Grounded(tags, file.minor)

Tagged ==
  \A t \in tags :
    /\ commits[t.commit].version = [minor |-> t.minor, dev |-> FALSE]
    /\ \A u \in tags : u.minor = t.minor => u = t
    /\ Grounded(tags, t.minor)
    /\ OnMain(t.commit)

OnRemote ==
  \A t \in remote.tags :
    rejected \/ t.commit \in rewritten \/ t.commit \in commits[remote.main].past

GitInv == Typed /\ Sourced /\ Releasing /\ Tagged /\ OnRemote

LEMMA GitInit ==
  ASSUME Init
  PROVE  GitInv
<1>1. Typed
  BY TypedInit
<1>2. /\ Len(commits) = 1 /\ commits[1].version.minor = First /\ file.minor = First
      /\ rel = "idle" /\ tags = {} /\ remote.tags = {}
  BY DEF Init
<1>3. Sourced
  BY <1>2 DEF Sourced, Grounded
<1>4. Releasing /\ Tagged /\ OnRemote
  BY <1>2 DEF Releasing, Tagged, OnRemote
<1> QED
  BY <1>1, <1>3, <1>4 DEF GitInv

(* Outside CreateTag there are no new tags. *)
LEMMA TagsStep ==
  ASSUME Next
  PROVE  tags' = tags \/ CreateTag
<1>1. CASE Developers
  BY <1>1 DEF Developers, Work, Restore, SomebodyPushes, NewBranch, PushBranch, UpstreamGone,
       Checkout, Merge
<1>2. CASE Release
  BY <1>2 DEF Release, ReadVersion, WriteReleaseVersion, CheckBranch, CommitRelease,
       WriteDevVersion, CommitDev, Push, ReleaseStops, local
<1>3. CASE CleanBranches
  BY <1>3 DEF CleanBranches, RemoveMergedBranches, RemoveOldBranches,
       RemoveBranchesWithoutUpstream, CleanupCompleted, DeleteBranch, local
<1>4. CASE Reauthor
  BY <1>4 DEF Reauthor, ChangeLastCommitAuthor, ChangeSpecificCommitAuthor
<1> QED
  BY <1>1, <1>2, <1>3, <1>4 DEF Next

LEMMA StaysGrounded ==
  ASSUME NEW ts, NEW us, ts \subseteq us, NEW m, Grounded(ts, m)
  PROVE  Grounded(us, m)
BY DEF Grounded

(* While a release is running nobody else touches its work tree. *)
LEMMA OthersStep ==
  ASSUME Typed, Developers \/ CleanBranches \/ Reauthor
  PROVE  /\ UNCHANGED <<rel, minor, tags>>
         /\ rel # "idle" => UNCHANGED <<file, head, branches[head]>>
<1>1. CASE Developers
  <2>1. UNCHANGED <<rel, minor, tags>>
    BY <1>1 DEF Developers, Work, Restore, SomebodyPushes, NewBranch, PushBranch, UpstreamGone,
         Checkout, Merge, release
  <2>2. rel # "idle" => UNCHANGED <<file, head, branches>>
    BY <1>1 DEF Developers, Work, Restore, SomebodyPushes, NewBranch, PushBranch, UpstreamGone,
         Checkout, Merge
  <2> QED
    BY <2>1, <2>2
<1>2. CASE CleanBranches
  <2>1. UNCHANGED <<rel, minor, tags, file, head>>
    BY <1>2 DEF CleanBranches, RemoveMergedBranches, RemoveOldBranches,
         RemoveBranchesWithoutUpstream, CleanupCompleted, DeleteBranch, local, release
  <2>2. branches'[head] = branches[head]
    <3>1. ASSUME NEW b \in Branch, DeleteBranch(b)
          PROVE  branches'[head] = branches[head]
      BY <3>1 DEF DeleteBranch, Deletes, Typed
    <3> QED
      BY <1>2, <3>1 DEF CleanBranches, RemoveMergedBranches, RemoveOldBranches,
           RemoveBranchesWithoutUpstream, CleanupCompleted, local
  <2> QED
    BY <2>1, <2>2
<1>3. CASE Reauthor
  BY <1>3 DEF Reauthor, ChangeLastCommitAuthor, ChangeSpecificCommitAuthor, release
<1> QED
  BY <1>1, <1>2, <1>3

LEMMA VersionsGrounded ==
  ASSUME Typed, Sourced, Releasing, NEW v \in Versions
  PROVE  Grounded(tags, v.minor)
<1>1. CASE \E c \in 1..Len(commits) : v = commits[c].version
  BY <1>1 DEF Sourced
<1>2. CASE v = file /\ (file # Torn \/ rel \in {"commit", "commit dev"})
  <2>1. CASE rel = "commit"
    BY <1>2, <2>1 DEF Sourced, Releasing, ReleaseFile
  <2>2. CASE rel = "commit dev"
    BY <1>2, <2>2 DEF Releasing
  <2> QED
    BY <1>2, <2>1, <2>2 DEF Sourced
<1> QED
  BY <1>1, <1>2 DEF Versions

LEMMA SourcedStep ==
  ASSUME GitInv, Next, Grows
  PROVE  Sourced'
<1>1. Typed /\ Sourced /\ Releasing
  BY DEF GitInv
<1>2. tags \subseteq tags'
  BY TagsStep DEF CreateTag
<1>3. \A v \in Versions : Grounded(tags', v.minor)
  <2>1. \A v \in Versions : Grounded(tags, v.minor)
    BY <1>1, VersionsGrounded
  <2> QED
    BY <1>2, <2>1, StaysGrounded
<1>4. \A c \in 1..Len(commits') : Grounded(tags', commits'[c].version.minor)
  BY <1>3 DEF Grows
<1>5. ASSUME file' = file
      PROVE  file' = Torn \/ Grounded(tags', file'.minor)
  BY <1>1, <1>2, <1>5, StaysGrounded DEF Sourced
<1>6. ASSUME file' \in Versions
      PROVE  Grounded(tags', file'.minor)
  BY <1>3, <1>6
<1>7. CASE Developers
  <2>1. file' = file \/ file' \in Versions
    <3>1. HeadFile \in Versions
      BY <1>1, Refers DEF HeadFile
    <3>2. ASSUME NEW b \in Main, Checkout(b) \/ Merge(b)
          PROVE  commits[branches[b]].version \in Versions
      BY <1>1, <3>2, Refers DEF Checkout, Merge
    <3> QED
      BY <1>7, <3>1, <3>2 DEF Developers, Work, Restore, SomebodyPushes, NewBranch, PushBranch,
           UpstreamGone, Checkout, Merge
  <2>2. UNCHANGED <<rel, minor>>
    BY <1>1, <1>7, OthersStep
  <2> QED
    BY <1>1, <1>2, <1>4, <1>5, <1>6, <2>1, <2>2, StaysGrounded DEF Sourced
<1>8. CASE CleanBranches \/ Reauthor
  <2>1. file' = file
    BY <1>8 DEF CleanBranches, RemoveMergedBranches, RemoveOldBranches,
         RemoveBranchesWithoutUpstream, CleanupCompleted, DeleteBranch, local,
         Reauthor, ChangeLastCommitAuthor, ChangeSpecificCommitAuthor
  <2>2. UNCHANGED <<rel, minor>>
    BY <1>1, <1>8, OthersStep
  <2> QED
    BY <1>1, <1>2, <1>4, <1>5, <2>1, <2>2, StaysGrounded DEF Sourced
<1>9. CASE Release
  <2>1. CASE ReadVersion
    <3>1. file # Torn /\ minor' = file.minor /\ UNCHANGED <<file, tags>>
      BY <2>1 DEF ReadVersion, local
    <3> QED
      BY <1>1, <1>4, <3>1 DEF Sourced
  <2>2. CASE WriteReleaseVersion
    <3>1. rel # "idle" /\ file'.minor = minor /\ UNCHANGED <<minor, tags>>
      BY <2>2 DEF WriteReleaseVersion
    <3> QED
      BY <1>1, <1>4, <3>1 DEF Sourced
  <2>3. CASE WriteDevVersion
    <3>1. rel = "write dev" /\ file'.minor = minor + 1 /\ UNCHANGED <<minor, tags>>
      BY <2>3 DEF WriteDevVersion, Bump
    <3>2. PICK t \in tags : t.minor = minor
      BY <1>1, <3>1 DEF Releasing
    <3>3. Grounded(tags', file'.minor)
      BY <3>1, <3>2 DEF Grounded
    <3> QED
      BY <1>1, <1>4, <3>1, <3>3 DEF Sourced
  <2>4. CASE CheckBranch \/ CommitRelease \/ CreateTag \/ CommitDev
    <3>1. rel # "idle" /\ UNCHANGED <<file, minor>>
      BY <2>4 DEF CheckBranch, CommitRelease, CreateTag, CommitDev, local
    <3> QED
      BY <1>1, <1>2, <1>4, <1>5, <3>1, StaysGrounded DEF Sourced
  <2>5. CASE Push \/ (ReleaseStops /\ file' \in {file, Torn})
    <3>1. rel' = "idle" /\ (file' = file \/ file' = Torn)
      BY <2>5 DEF Push, ReleaseStops, EndRelease, local
    <3>2. file' = Torn \/ Grounded(tags', file'.minor)
      BY <1>5, <3>1
    <3> QED
      BY <1>4, <3>1, <3>2 DEF Sourced
  <2>6. CASE ReleaseStops /\ file' \notin {file, Torn}
    <3>1. /\ rel' = "idle" /\ tags' = tags
          /\ rel = "write" \/ rel = "write dev"
          /\ file'.minor = IF rel = "write" THEN minor ELSE minor + 1
      <4>1. rel' = "idle" /\ tags' = tags
        BY <2>6 DEF ReleaseStops, EndRelease
      <4>2. /\ rel \in {"write", "write dev"}
            /\ file' = [minor |-> IF rel = "write" THEN minor ELSE Bump(minor), dev |-> FALSE]
        BY <2>6 DEF ReleaseStops
      <4> QED
        BY <4>1, <4>2 DEF Bump
    <3>2. rel = "write dev" => \E t \in tags : t.minor = minor
      BY <1>1 DEF Releasing
    <3>3. Grounded(tags', file'.minor)
      BY <1>1, <3>1, <3>2 DEF Sourced, Grounded
    <3> QED
      BY <1>4, <3>1, <3>3 DEF Sourced
  <2> QED
    BY <1>9, <2>1, <2>2, <2>3, <2>4, <2>5, <2>6 DEF Release
<1> QED
  BY <1>7, <1>8, <1>9 DEF Next

LEMMA ReleasingStep ==
  ASSUME GitInv, Next, Grows
  PROVE  Releasing'
<1>1. Typed /\ Sourced /\ Releasing
  BY DEF GitInv
<1>2. HeadCommit \in 1..Len(commits) /\ \A c \in 1..Len(commits) : commits'[c] = commits[c]
  BY <1>1, Refers, MoreReferences
<1>3. CASE Developers \/ CleanBranches \/ Reauthor
  <2>1. UNCHANGED <<rel, minor, tags>>
    BY <1>1, <1>3, OthersStep
  <2>2. CASE rel = "idle"
    BY <2>1, <2>2 DEF Releasing
  <2>3. CASE rel # "idle"
    <3>1. UNCHANGED <<file, head, branches[head]>>
      BY <1>1, <1>3, <2>3, OthersStep
    <3>2. HeadCommit' = HeadCommit /\ commits'[HeadCommit'] = commits[HeadCommit]
      BY <1>2, <3>1 DEF HeadCommit
    <3>3. ReleaseFile' = ReleaseFile
      BY <2>1 DEF ReleaseFile
    <3> QED
      BY <1>1, <2>1, <3>1, <3>2, <3>3 DEF Releasing
  <2> QED
    BY <2>2, <2>3
<1>4. CASE Release
  <2>1. CASE ReadVersion
    BY <2>1 DEF ReadVersion, Releasing
  <2>2. CASE WriteReleaseVersion
    <3>1. rel' = "check" /\ file' = ReleaseFile /\ minor' = minor
      BY <2>2 DEF WriteReleaseVersion, ReleaseFile
    <3> QED
      BY <3>1 DEF Releasing, ReleaseFile
  <2>3. CASE CheckBranch
    <3>1. rel = "check" /\ rel' = "commit" /\ head = "main" /\ UNCHANGED <<file, minor, head>>
      BY <2>3 DEF CheckBranch, local
    <3> QED
      BY <1>1, <3>1 DEF Releasing, ReleaseFile
  <2>4. CASE CommitRelease
    <3>1. /\ rel = "commit" /\ rel' = "tag" /\ Record({HeadCommit}, file)
          /\ UNCHANGED <<head, file, minor, rewritten>>
      BY <2>4 DEF CommitRelease, history
    <3>2. file \in Version /\ file \in Versions /\ {HeadCommit} \in SUBSET (1..Len(commits))
      BY <1>1, <1>2, <3>1 DEF Typed, Versions
    <3>3. commits'[branches'[head]].version = file
      BY <1>1, <3>1, <3>2, CommitGrows
    <3>4. commits'[HeadCommit'].version = ReleaseFile' /\ head' = "main"
      BY <1>1, <3>1, <3>3 DEF Releasing, ReleaseFile, HeadCommit
    <3> QED
      BY <3>1, <3>4 DEF Releasing
  <2>5. CASE CreateTag
    <3>1. /\ rel = "tag" /\ rel' = "write dev" /\ UNCHANGED <<head, minor>>
          /\ tags' = tags \union {[minor |-> minor, commit |-> HeadCommit]}
      BY <2>5 DEF CreateTag
    <3> DEFINE new == [minor |-> minor, commit |-> HeadCommit]
    <3>2. \E t \in tags' : t.minor = minor
      <4>1. new \in tags' /\ new.minor = minor
        BY <3>1
      <4> QED
        BY <4>1
    <3> QED
      BY <1>1, <3>1, <3>2 DEF Releasing
  <2>6. CASE WriteDevVersion
    <3>1. rel = "write dev" /\ rel' = "commit dev" /\ UNCHANGED <<head, minor, tags>>
          /\ file'.minor = minor + 1
      BY <2>6 DEF WriteDevVersion, Bump
    <3>2. PICK t \in tags : t.minor = minor
      BY <1>1, <3>1 DEF Releasing
    <3>3. Grounded(tags', file'.minor)
      BY <3>1, <3>2 DEF Grounded
    <3> QED
      BY <1>1, <3>1, <3>3 DEF Releasing
  <2>7. CASE CommitDev
    <3>1. rel = "commit dev" /\ rel' = "push" /\ UNCHANGED head
      BY <2>7 DEF CommitDev
    <3> QED
      BY <1>1, <3>1 DEF Releasing
  <2>8. CASE Push \/ ReleaseStops
    BY <2>8 DEF Push, ReleaseStops, EndRelease, Releasing
  <2> QED
    BY <1>4, <2>1, <2>2, <2>3, <2>4, <2>5, <2>6, <2>7, <2>8 DEF Release
<1> QED
  BY <1>3, <1>4 DEF Next

LEMMA TaggedStep ==
  ASSUME GitInv, Next, Grows
  PROVE  Tagged'
<1>1. Typed /\ Sourced /\ Releasing /\ Tagged
  BY DEF GitInv
<1>2. \A c \in 1..Len(commits) : commits'[c] = commits[c]
  BY <1>1, MoreReferences
<1>3. tags \subseteq tags'
  BY TagsStep DEF CreateTag
<1>4. ASSUME NEW t \in tags
      PROVE  /\ commits'[t.commit].version = [minor |-> t.minor, dev |-> FALSE]
             /\ Grounded(tags', t.minor)
             /\ t.commit \in rewritten' \union commits'[branches'["main"]].past
  <2>1. t.commit \in 1..Len(commits)
    BY <1>1 DEF Typed, Tag
  <2>2. /\ commits[t.commit].version = [minor |-> t.minor, dev |-> FALSE]
        /\ Grounded(tags, t.minor) /\ OnMain(t.commit)
    BY <1>1 DEF Tagged
  <2>3. Grounded(tags', t.minor)
    BY <1>3, <2>2, StaysGrounded
  <2>4. t.commit \in rewritten' \union commits'[branches'["main"]].past
    BY <2>2 DEF OnMain, Grows
  <2> QED
    BY <1>2, <2>1, <2>2, <2>3, <2>4
<1>5. CASE tags' = tags
  <2>1. \A t \in tags : \A u \in tags : u.minor = t.minor => u = t
    BY <1>1 DEF Tagged
  <2> QED
    BY <1>4, <1>5, <2>1 DEF Tagged, OnMain
<1>6. CASE CreateTag
  <2> DEFINE new == [minor |-> minor, commit |-> HeadCommit]
  <2>1. /\ rel = "tag" /\ tags' = tags \union {new}
        /\ \A t \in tags : t.minor # minor
        /\ UNCHANGED <<commits, branches, rewritten>>
    BY <1>6 DEF CreateTag, history
  <2>2. /\ commits[HeadCommit].version = [minor |-> minor, dev |-> FALSE]
        /\ Grounded(tags, minor)
    BY <1>1, <2>1 DEF Releasing, Sourced, ReleaseFile
  <2>3. HeadCommit \in commits'[branches'["main"]].past
    <3>1. HeadCommit = branches["main"]
      BY <1>1, <2>1 DEF Releasing, HeadCommit
    <3>2. HeadCommit \in commits[HeadCommit].past
      BY <1>1, Refers
    <3> QED
      BY <2>1, <3>1, <3>2
  <2>4. Grounded(tags', minor)
    BY <1>3, <2>2, StaysGrounded
  <2>5. /\ commits'[new.commit].version = [minor |-> new.minor, dev |-> FALSE]
        /\ Grounded(tags', new.minor)
        /\ new.commit \in rewritten' \union commits'[branches'["main"]].past
    BY <2>1, <2>2, <2>3, <2>4
  <2>6. \A t \in tags' : \A u \in tags' : u.minor = t.minor => u = t
    <3>1. \A t \in tags : \A u \in tags : u.minor = t.minor => u = t
      BY <1>1 DEF Tagged
    <3>2. new.minor = minor
      OBVIOUS
    <3> HIDE DEF new
    <3> QED
      BY <2>1, <3>1, <3>2
  <2> HIDE DEF new
  <2> QED
    BY <1>4, <2>1, <2>5, <2>6 DEF Tagged, OnMain
<1> QED
  BY <1>5, <1>6, TagsStep

LEMMA OnRemoteStep ==
  ASSUME GitInv, Next, Grows
  PROVE  OnRemote'
<1>1. Typed /\ Tagged /\ OnRemote
  BY DEF GitInv
<1>2. /\ \A c \in 1..Len(commits) : commits'[c] = commits[c]
      /\ rewritten \subseteq rewritten'
      /\ remote.main \in 1..Len(commits)
  BY <1>1, MoreReferences DEF Grows, Typed
<1>3. CASE UNCHANGED <<remote, rejected>>
  <2>1. commits'[remote'.main].past = commits[remote.main].past
    BY <1>2, <1>3
  <2> QED
    BY <1>1, <1>2, <1>3, <2>1 DEF OnRemote
<1>4. CASE SomebodyPushes
  <2> DEFINE n == Len(commits) + 1
             v == commits[remote.main].version
  <2>1. /\ remote' = [remote EXCEPT !.main = n] /\ UNCHANGED rejected
        /\ commits' = Append(commits, NewCommit(n, {remote.main}, v))
    BY <1>4 DEF SomebodyPushes, history
  <2>2. v \in Version /\ v \in Versions /\ {remote.main} \in SUBSET (1..Len(commits))
    BY <1>1, <1>2, Refers
  <2> HIDE DEF v
  <2>3. commits[remote.main].past \subseteq commits'[n].past
    BY <1>1, <2>1, <2>2, Appended
  <2>4. remote'.main = n /\ remote'.tags = remote.tags
    BY <1>1, <2>1 DEF Typed
  <2> HIDE DEF n
  <2> QED
    BY <1>1, <1>2, <2>1, <2>3, <2>4 DEF OnRemote
<1>5. CASE Push
  <2> DEFINE accepted == remote.main \in Ancestors(branches["main"])
             new == {t \in tags : \A u \in remote.tags : u.minor # t.minor}
  <2>1. /\ remote' = [main |-> IF accepted THEN branches["main"] ELSE remote.main,
                      tags |-> remote.tags \union new]
        /\ rejected' = (rejected \/ ~accepted)
        /\ UNCHANGED <<commits, branches, rewritten>>
    BY <1>5 DEF Push, local
  <2>2. CASE ~accepted
    BY <2>1, <2>2 DEF OnRemote
  <2>3. CASE accepted
    <3>1. branches["main"] \in 1..Len(commits)
      BY <1>1, Refers DEF Typed
    <3>2. /\ Rooted(commits, branches["main"])
          /\ Ancestors(branches["main"]) = commits[branches["main"]].past
      BY <1>1, <3>1, Refers
    <3>3. commits[remote.main].past \subseteq commits[branches["main"]].past
      BY <2>3, <3>2 DEF Rooted
    <3>4. /\ remote'.main = branches["main"] /\ remote'.tags = remote.tags \union new
          /\ rejected' = rejected
      BY <1>1, <2>1, <2>3 DEF Typed
    <3>5. ASSUME NEW t \in remote.tags
          PROVE  rejected \/ t.commit \in rewritten \/ t.commit \in commits[branches["main"]].past
      BY <1>1, <3>3 DEF OnRemote
    <3>6. ASSUME NEW t \in new
          PROVE  t.commit \in rewritten \/ t.commit \in commits[branches["main"]].past
      BY <1>1 DEF Tagged, OnMain
    <3> HIDE DEF new, accepted
    <3>7. ASSUME NEW t \in remote'.tags
          PROVE  rejected' \/ t.commit \in rewritten' \/ t.commit \in commits'[remote'.main].past
      BY <2>1, <3>4, <3>5, <3>6
    <3> QED
      BY <3>7 DEF OnRemote
  <2> QED
    BY <2>2, <2>3
<1>6. UNCHANGED <<remote, rejected>> \/ SomebodyPushes \/ Push
  <2>1. CASE Developers
    BY <2>1 DEF Developers, Work, Restore, NewBranch, PushBranch, UpstreamGone,
         Checkout, Merge, history
  <2>2. CASE Release
    BY <2>2 DEF Release, ReadVersion, WriteReleaseVersion, CheckBranch, CommitRelease, CreateTag,
         WriteDevVersion, CommitDev, ReleaseStops, history
  <2>3. CASE CleanBranches
    BY <2>3 DEF CleanBranches, RemoveMergedBranches, RemoveOldBranches,
         RemoveBranchesWithoutUpstream, CleanupCompleted, DeleteBranch, history
  <2>4. CASE Reauthor
    BY <2>4 DEF Reauthor, ChangeLastCommitAuthor, ChangeSpecificCommitAuthor
  <2> QED
    BY <2>1, <2>2, <2>3, <2>4 DEF Next
<1> QED
  BY <1>3, <1>4, <1>5, <1>6

LEMMA GitStep ==
  ASSUME GitInv, [Next]_vars
  PROVE  GitInv'
<1>1. Typed'
  BY TypedStep DEF GitInv
<1>2. CASE Next
  <2>1. Grows
    BY <1>2, NextGrows DEF GitInv
  <2> QED
    BY <1>1, <1>2, <2>1, SourcedStep, ReleasingStep, TaggedStep, OnRemoteStep DEF GitInv
<1>3. CASE UNCHANGED vars
  <2>1. Sourced' /\ Releasing'
    BY <1>3 DEF GitInv, Sourced, Releasing, ReleaseFile, HeadCommit, vars, local, release
  <2>2. Tagged' /\ OnRemote'
    BY <1>3 DEF GitInv, Tagged, OnMain, OnRemote, vars, local, history
  <2> QED
    BY <1>1, <2>1, <2>2 DEF GitInv
<1> QED
  BY <1>2, <1>3

(* The commit of a tag has the version file with this version, no version  *)
(* is tagged twice and none is left out, wherever releases stopped and     *)
(* whatever was done in between.                                           *)
THEOREM TagsReleases == Spec => []TagsAreReleases
<1>1. GitInv => TagsAreReleases
  <2> SUFFICES ASSUME GitInv, NEW t \in tags
               PROVE  /\ commits[t.commit].version = [minor |-> t.minor, dev |-> FALSE]
                      /\ \A u \in tags : u.minor = t.minor => u = t
                      /\ t.minor # First => \E u \in tags : u.minor = t.minor - 1
    BY DEF TagsAreReleases
  <2>1. /\ commits[t.commit].version = [minor |-> t.minor, dev |-> FALSE]
        /\ \A u \in tags : u.minor = t.minor => u = t
        /\ Grounded(tags, t.minor)
    BY DEF GitInv, Tagged
  <2>2. ASSUME t.minor # First
        PROVE  \E u \in tags : u.minor = t.minor - 1
    <3>1. PICK u \in tags : u.minor + 1 = t.minor
      BY <2>1, <2>2 DEF Grounded
    <3>2. u.minor \in Nat
      BY DEF GitInv, Typed, Tag
    <3> QED
      BY <3>1, <3>2
  <2> QED
    BY <2>1, <2>2
<1> QED
  BY <1>1, GitInit, GitStep, PTL DEF Spec

(* What a release is built from is in the history of the remote's main,    *)
(* unless main was rejected or its author changed.                         *)
THEOREM TagsOnMain == Spec => []RemoteTagsOnMain
<1>1. GitInv => RemoteTagsOnMain
  <2>1. ASSUME GitInv
        PROVE  Ancestors(remote.main) = commits[remote.main].past
    BY <2>1, Refers DEF GitInv, Typed
  <2> QED
    BY <2>1 DEF GitInv, OnRemote, RemoteTagsOnMain
<1> QED
  BY <1>1, GitInit, GitStep, PTL DEF Spec
=============================================================================
