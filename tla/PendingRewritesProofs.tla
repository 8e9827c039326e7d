------------------------ MODULE PendingRewritesProofs ------------------------
(***************************************************************************)
(* What applying the rows of a note gives, whatever the rows and the text. *)
(*                                                                         *)
(* The prover has no induction for a fold; a smallest counterexample takes *)
(* its place.  Of the finite sets of rows for which a claim fails one is   *)
(* smallest, and without its last row the claim holds.                     *)
(***************************************************************************)
EXTENDS PendingRewrites, FiniteSetTheorems, TLAPS

(* Finitely many rows, each with its time and its id.                       *)
Timed(R) ==
  /\ IsFiniteSet(R)
  /\ \A r \in R : r.at \in Int /\ r.id \in Int

(* Of numbers one is the least.                                             *)
LEMMA LeastNumber ==
  ASSUME NEW T \in SUBSET Nat, T # {}
  PROVE  \E n \in T : \A k \in T : n <= k
<1>1. PICK n \in T : \A k \in T : ~(<<k, n>> \in OpToRel(<, Nat))
  BY WFMin, NatLessThanWellFounded
<1>2. \A k \in T : n <= k
  <2> SUFFICES ASSUME NEW k \in T, k < n PROVE FALSE
    OBVIOUS
  <2>1. <<k, n>> \in OpToRel(<, Nat)
    BY DEF OpToRel
  <2> QED BY <1>1, <2>1
<1> QED BY <1>2

(* Of numbers up to some bound one is the greatest.                         *)
LEMMA MaxOf ==
  ASSUME NEW n \in Nat, NEW S \in SUBSET (1..n), S # {}
  PROVE  Max(S) \in S /\ \A k \in S : Max(S) >= k
<1> DEFINE Bounds == {b \in 0..n : \A k \in S : b >= k}
<1>1. Bounds \in SUBSET Nat /\ n \in Bounds
  OBVIOUS
<1>2. PICK b \in Bounds : \A d \in Bounds : b <= d
  BY <1>1, LeastNumber
<1>3. b \in S
  <2> SUFFICES ASSUME b \notin S PROVE FALSE
    OBVIOUS
  <2>1. b \in 0..n /\ \A k \in S : k \in 1..n /\ b >= k /\ b # k
    OBVIOUS
  <2>0. PICK k \in S : TRUE
    OBVIOUS
  <2>2. b - 1 \in 0..n /\ \A j \in S : b - 1 >= j
    BY <2>0, <2>1
  <2>3. b - 1 \in Bounds /\ ~(b <= b - 1)
    BY <2>1, <2>2
  <2> QED BY <1>2, <2>3
<1> QED BY <1>2, <1>3 DEF Max

(* Of finite sets one is the smallest.                                      *)
LEMMA SmallestSet ==
  ASSUME NEW C, C # {}, \A S \in C : IsFiniteSet(S)
  PROVE  \E S \in C : \A T \in C : Cardinality(S) <= Cardinality(T)
<1> DEFINE Sizes == {Cardinality(S) : S \in C}
<1>1. Sizes \in SUBSET Nat /\ Sizes # {}
  BY FS_CardinalityType
<1>2. PICK n \in Sizes : \A k \in Sizes : n <= k
  BY <1>1, LeastNumber
<1>3. PICK S \in C : n = Cardinality(S)
  BY <1>2
<1>4. \A T \in C : Cardinality(T) \in Sizes
  OBVIOUS
<1> HIDE DEF Sizes
<1>5. \A T \in C : Cardinality(S) <= Cardinality(T)
  BY <1>2, <1>3, <1>4
<1> QED BY <1>5

(* A finite set without one of its elements is smaller.                     *)
LEMMA OneLess ==
  ASSUME NEW S, IsFiniteSet(S), NEW x \in S
  PROVE  /\ IsFiniteSet(S \ {x})
         /\ ~(Cardinality(S) <= Cardinality(S \ {x}))
<1>1. IsFiniteSet(S \ {x}) /\ Cardinality(S \ {x}) = Cardinality(S) - 1
  BY FS_RemoveElement
<1>2. Cardinality(S) \in Nat
  BY FS_CardinalityType
<1> QED BY <1>1, <1>2

LEMMA TimedParts ==
  ASSUME NEW R, Timed(R), NEW S \in SUBSET R
  PROVE  Timed(S)
<1>1. IsFiniteSet(S)
  BY FS_Subset DEF Timed
<1> QED BY <1>1 DEF Timed

(* Of some rows one is the last, also where several came at one time.       *)
LEMMA LastExists ==
  ASSUME NEW R, Timed(R), R # {}
  PROVE  LastRow(R) \in R /\ \A s \in R : ~RowBefore(LastRow(R), s)
<1> DEFINE IsLast(m, S) == m \in S /\ \A s \in S : ~RowBefore(m, s)
           Bad == {S \in SUBSET R : S # {} /\ \A m \in S : ~IsLast(m, S)}
<1>1. Bad = {}
  <2> SUFFICES ASSUME Bad # {} PROVE FALSE
    OBVIOUS
  <2>1. \A S \in Bad : IsFiniteSet(S) /\ Timed(S)
    BY TimedParts, FS_Subset DEF Timed
  <2>2. PICK S \in Bad : \A T \in Bad : Cardinality(S) <= Cardinality(T)
    BY <2>1, SmallestSet
  <2>3. PICK x \in S : TRUE
    BY <2>2
  <2>4. S \ {x} \notin Bad /\ x.at \in Int /\ x.id \in Int
    BY <2>1, <2>2, OneLess DEF Timed
  <2>5. CASE S \ {x} = {}
    <3>1. IsLast(x, S)
      BY <2>4, <2>5 DEF RowBefore
    <3> QED BY <2>2, <3>1
  <2>6. CASE S \ {x} # {}
    <3>1. PICK m \in S \ {x} : IsLast(m, S \ {x})
      BY <2>2, <2>4, <2>6
    <3>2. m \in S /\ m.at \in Int /\ m.id \in Int
      BY <2>1, <3>1 DEF Timed
    <3>3. CASE RowBefore(m, x)
      <4>1. ASSUME NEW s \in S, RowBefore(x, s)
            PROVE  FALSE
        <5>1. s.at \in Int /\ s.id \in Int
          BY <2>1 DEF Timed
        <5>2. RowBefore(m, s) /\ s # x
          BY <2>4, <3>2, <3>3, <4>1, <5>1 DEF RowBefore
        <5> QED BY <3>1, <5>2
      <4>2. IsLast(x, S)
        BY <2>3, <4>1
      <4> QED BY <2>2, <4>2
    <3>4. CASE ~RowBefore(m, x)
      <4>1. IsLast(m, S)
        BY <3>1, <3>4
      <4> QED BY <2>2, <3>2, <4>1
    <3> QED BY <3>3, <3>4
  <2> QED BY <2>5, <2>6
<1>2. \E m \in R : IsLast(m, R)
  BY <1>1
<1> QED BY <1>2 DEF LastRow

-------------------------------------------------------------------------------
(* The fold *)

(* The function apply_pending is defined by.                                *)
Applies(f, text, R) ==
  f = [S \in SUBSET R |->
         IF S = {} THEN text
         ELSE rewrite_wiki_link(f[S \ {LastRow(S)}], LastRow(S))]

LEMMA ApplyIs ==
  ASSUME NEW text, NEW R
  PROVE  apply_pending(text, R) = (CHOOSE f : Applies(f, text, R))[R]
BY Zenon DEF apply_pending, MapThenFoldSet, Applies

LEMMA ApplyExists ==
  ASSUME NEW text, NEW R, Timed(R)
  PROVE  \E f : Applies(f, text, R)
<1> DEFINE Small(n) == {S \in SUBSET R : Cardinality(S) <= n}
           UpTo(f, n) == f = [S \in Small(n) |->
                                IF S = {} THEN text
                                ELSE rewrite_wiki_link(f[S \ {LastRow(S)}], LastRow(S))]
           Bad == {n \in Nat : ~ \E f : UpTo(f, n)}
<1>1. \A S \in SUBSET R : /\ IsFiniteSet(S) /\ Timed(S) /\ Cardinality(S) \in Nat
                          /\ Cardinality(S) <= Cardinality(R)
  BY TimedParts, FS_Subset, FS_CardinalityType DEF Timed
<1>2. Bad = {}
  <2> SUFFICES ASSUME Bad # {} PROVE FALSE
    OBVIOUS
  <2>1. PICK n \in Bad : \A k \in Bad : n <= k
    BY LeastNumber
  <2>2. n \in Nat /\ ~ \E f : UpTo(f, n)
    BY <2>1
  <2>3. CASE n = 0
    <3>1. \A S \in Small(0) : S = {}
      BY <1>1, FS_EmptySet
    <3>2. PICK f : f = [S \in Small(0) |-> text]
      OBVIOUS
    <3>3. UpTo(f, 0)
      BY <3>1, <3>2
    <3> QED BY <2>2, <2>3, <3>3
  <2>4. CASE n # 0
    <3>1. n - 1 \in Nat /\ n - 1 \notin Bad
      <4> HIDE DEF Bad
      <4> QED BY <2>1, <2>2, <2>4
    <3>2. PICK f : UpTo(f, n - 1)
      BY <3>1
    <3>3. PICK g : g = [S \in Small(n) |->
                          IF S = {} THEN text
                          ELSE rewrite_wiki_link(f[S \ {LastRow(S)}], LastRow(S))]
      OBVIOUS
    <3>4. \A S \in Small(n - 1) : S \in Small(n) /\ g[S] = f[S]
      <4>1. \A S \in Small(n - 1) : S \in Small(n)
        BY <1>1, <2>2
      <4>2. \A S \in Small(n - 1) :
              f[S] = IF S = {} THEN text
                     ELSE rewrite_wiki_link(f[S \ {LastRow(S)}], LastRow(S))
        BY <3>2
      <4> QED BY <3>3, <4>1, <4>2
    <3>5. ASSUME NEW S \in Small(n), S # {}
          PROVE  S \ {LastRow(S)} \in Small(n - 1)
      <4>1. S \in SUBSET R /\ Cardinality(S) <= n /\ LastRow(S) \in S
        BY <1>1, <3>5, LastExists
      <4>2. Cardinality(S \ {LastRow(S)}) = Cardinality(S) - 1
        BY <1>1, <4>1, FS_RemoveElement
      <4> QED BY <1>1, <2>2, <4>1, <4>2
    <3>6. UpTo(g, n)
      <4> HIDE DEF Small
      <4>1. \A S \in Small(n) :
              g[S] = IF S = {} THEN text
                     ELSE rewrite_wiki_link(g[S \ {LastRow(S)}], LastRow(S))
        BY <3>3, <3>4, <3>5
      <4>2. g = [S \in Small(n) |-> g[S]]
        BY <3>3
      <4> QED BY <4>1, <4>2
    <3> QED BY <2>2, <3>6
  <2> QED BY <2>3, <2>4
<1>3. PICK f : UpTo(f, Cardinality(R))
  BY <1>1, <1>2
<1>4. Small(Cardinality(R)) = SUBSET R
  BY <1>1
<1>5. Applies(f, text, R)
  <2> HIDE DEF Small
  <2> QED BY <1>3, <1>4 DEF Applies
<1> QED BY <1>5

(* A part of the rows gives one result, alone or on the way to another.     *)
LEMMA AppliesAgree ==
  ASSUME NEW text, NEW R, Timed(R), NEW S \in SUBSET R, NEW f, NEW g,
         Applies(f, text, R), Applies(g, text, S)
  PROVE  f[S] = g[S]
<1> DEFINE Bad == {U \in SUBSET S : f[U] # g[U]}
<1>1. SUFFICES ASSUME Bad # {} PROVE FALSE
  OBVIOUS
<1>2. \A U \in Bad : Timed(U) /\ IsFiniteSet(U)
  BY TimedParts, FS_Subset DEF Timed
<1>3. PICK U \in Bad : \A T \in Bad : Cardinality(U) <= Cardinality(T)
  BY <1>1, <1>2, SmallestSet
<1>4. U \in SUBSET R /\ U \in SUBSET S /\ f[U] # g[U]
  BY <1>3
<1>5. /\ f[U] = IF U = {} THEN text ELSE rewrite_wiki_link(f[U \ {LastRow(U)}], LastRow(U))
      /\ g[U] = IF U = {} THEN text ELSE rewrite_wiki_link(g[U \ {LastRow(U)}], LastRow(U))
  BY <1>4 DEF Applies
<1>6. U # {} /\ LastRow(U) \in U
  BY <1>2, <1>3, <1>4, <1>5, LastExists
<1>7. U \ {LastRow(U)} \notin Bad
  BY <1>2, <1>3, <1>6, OneLess
<1>8. f[U \ {LastRow(U)}] = g[U \ {LastRow(U)}]
  BY <1>4, <1>7
<1> QED BY <1>4, <1>5, <1>8

(* Without rows the text is what it is.                                     *)
LEMMA ApplyNone ==
  ASSUME NEW text
  PROVE  apply_pending(text, {}) = text
<1>1. Timed({})
  BY FS_EmptySet DEF Timed
<1>2. PICK f : f = (CHOOSE g : Applies(g, text, {}))
  OBVIOUS
<1>3. Applies(f, text, {})
  BY <1>1, <1>2, ApplyExists
<1> QED BY <1>2, <1>3, ApplyIs DEF Applies

(* The last row is applied to what the others give.                         *)
LEMMA ApplyLast ==
  ASSUME NEW text, NEW R, Timed(R), R # {}
  PROVE  apply_pending(text, R)
           = rewrite_wiki_link(apply_pending(text, R \ {LastRow(R)}), LastRow(R))
<1>1. PICK S : S = R \ {LastRow(R)}
  OBVIOUS
<1>2. S \in SUBSET R /\ Timed(S)
  BY <1>1, TimedParts
<1>3. PICK f : f = (CHOOSE h : Applies(h, text, R))
  OBVIOUS
<1>4. PICK g : g = (CHOOSE h : Applies(h, text, S))
  OBVIOUS
<1>5. Applies(f, text, R) /\ Applies(g, text, S)
  BY <1>2, <1>3, <1>4, ApplyExists
<1>6. f[S] = g[S]
  BY <1>2, <1>5, AppliesAgree
<1>7. f[R] = rewrite_wiki_link(f[S], LastRow(R))
  BY <1>1, <1>5 DEF Applies
<1> QED BY <1>1, <1>3, <1>4, <1>6, <1>7, ApplyIs

-------------------------------------------------------------------------------
(* What a fold does *)

(* What every row leaves so, all of them do.                                *)
LEMMA ApplyStays ==
  ASSUME NEW text, NEW R, Timed(R), NEW A, text \in A,
         \A t \in A : \A r \in R : rewrite_wiki_link(t, r) \in A
  PROVE  apply_pending(text, R) \in A
<1> DEFINE Bad == {S \in SUBSET R : apply_pending(text, S) \notin A}
<1>1. SUFFICES ASSUME Bad # {} PROVE FALSE
  OBVIOUS
<1>2. \A S \in Bad : Timed(S) /\ IsFiniteSet(S)
  BY TimedParts, FS_Subset DEF Timed
<1>3. PICK S \in Bad : \A T \in Bad : Cardinality(S) <= Cardinality(T)
  BY <1>1, <1>2, SmallestSet
<1>4. S # {}
  BY <1>3, ApplyNone
<1>5. LastRow(S) \in S /\ LastRow(S) \in R
  BY <1>2, <1>3, <1>4, LastExists
<1>6. S \ {LastRow(S)} \notin Bad
  BY <1>2, <1>3, <1>5, OneLess
<1>7. apply_pending(text, S \ {LastRow(S)}) \in A
  BY <1>3, <1>6
<1>8. apply_pending(text, S) \in A
  BY <1>2, <1>3, <1>4, <1>5, <1>7, ApplyLast
<1> QED BY <1>3, <1>8

(* Tokens are exchanged for tokens.                                         *)
THEOREM ApplyTyped ==
  ASSUME NEW Tokens, NEW text \in SUBSET Tokens, NEW R, Timed(R),
         \A r \in R : r.new \in Tokens
  PROVE  apply_pending(text, R) \in SUBSET Tokens
<1>1. \A t \in SUBSET Tokens : \A r \in R : rewrite_wiki_link(t, r) \in SUBSET Tokens
  BY DEF rewrite_wiki_link
<1> QED BY <1>1, ApplyStays

(* Rows of which none undoes or repeats what another does.                  *)
Separate(R) ==
  \A r, s \in R : r.old # s.new /\ (r.old = s.old => r = s)

AllAtOnce(text, R) ==
  {k \in text : \A r \in R : r.old # k} \union {r.new : r \in {s \in R : s.old \in text}}

(* Such rows could all be applied at once.                                  *)
THEOREM ApplyAtOnce ==
  ASSUME NEW text, NEW R, Timed(R), Separate(R)
  PROVE  apply_pending(text, R) = AllAtOnce(text, R)
<1> DEFINE Bad == {S \in SUBSET R : apply_pending(text, S) # AllAtOnce(text, S)}
<1>1. SUFFICES ASSUME Bad # {} PROVE FALSE
  OBVIOUS
<1>2. \A S \in Bad : Timed(S) /\ IsFiniteSet(S)
  BY TimedParts, FS_Subset DEF Timed
<1>3. PICK S \in Bad : \A T \in Bad : Cardinality(S) <= Cardinality(T)
  BY <1>1, <1>2, SmallestSet
<1>4. S # {}
  <2>1. AllAtOnce(text, {}) = text
    BY DEF AllAtOnce
  <2> QED BY <1>3, <2>1, ApplyNone
<1>5. PICK m : m = LastRow(S)
  OBVIOUS
<1>6. m \in S /\ m \in R
  BY <1>2, <1>3, <1>4, <1>5, LastExists
<1>7. S \ {m} \notin Bad
  BY <1>2, <1>3, <1>6, OneLess
<1>8. apply_pending(text, S \ {m}) = AllAtOnce(text, S \ {m})
  BY <1>3, <1>7
<1>9. apply_pending(text, S) = rewrite_wiki_link(AllAtOnce(text, S \ {m}), m)
  BY <1>2, <1>3, <1>4, <1>5, <1>8, ApplyLast
<1>10. \A s \in S : m.old # s.new /\ (s.old = m.old => s = m) /\ s.old # m.new
  BY <1>3, <1>6 DEF Separate
<1>11. m.old \in AllAtOnce(text, S \ {m}) <=> m.old \in text
  BY <1>6, <1>10 DEF AllAtOnce
<1>12. rewrite_wiki_link(AllAtOnce(text, S \ {m}), m) = AllAtOnce(text, S)
  <2>1. CASE m.old \in text
    <3>1. rewrite_wiki_link(AllAtOnce(text, S \ {m}), m)
            = (AllAtOnce(text, S \ {m}) \ {m.old}) \union {m.new}
      BY <1>11, <2>1 DEF rewrite_wiki_link
    <3>2. \A k : k \in (AllAtOnce(text, S \ {m}) \ {m.old}) \union {m.new}
                   <=> k \in AllAtOnce(text, S)
      BY <1>6, <1>10, <2>1 DEF AllAtOnce
    <3> QED BY <3>1, <3>2
  <2>2. CASE m.old \notin text
    <3>1. rewrite_wiki_link(AllAtOnce(text, S \ {m}), m) = AllAtOnce(text, S \ {m})
      BY <1>11, <2>2 DEF rewrite_wiki_link
    <3>2. \A k : k \in AllAtOnce(text, S \ {m}) <=> k \in AllAtOnce(text, S)
      BY <1>6, <1>10, <2>2 DEF AllAtOnce
    <3> QED BY <3>1, <3>2
  <2> QED BY <2>1, <2>2
<1> QED BY <1>3, <1>9, <1>12

===============================================================================
