------------------------- MODULE NoteRewriteProofs -------------------------
(***************************************************************************)
(* What the rewrites queued for a note do to it, whoever applies them and  *)
(* however often.                                                          *)
(*                                                                         *)
(* Tags and blocks that are renamed, for any notes, any renames and any    *)
(* number of saves, flushes, changes by others and crashes in between: a   *)
(* note shows what was meant, and the tables come to say what is in the     *)
(* notes.  Names are new when they are given, renames wait for the index,   *)
(* and who undoes does so before anything is written.  No row that is queued *)
(* has anything left to do in what its note shows, because the old name is *)
(* gone from it.                                                           *)
(*                                                                         *)
(* Links that lead nowhere and are repaired, for any notes, any names and  *)
(* any number of repairs: a repaired link leads where the user chose.  No  *)
(* row is queued for the token of a repair that counts.                    *)
(***************************************************************************)
EXTENDS TagsAndBlocks, LinkIntegrity, PendingRewritesProofs, SequenceTheorems

-------------------------------------------------------------------------------
(* Tags and blocks: the invariant *)

(* The id i is in the note, as one of the block of h. *)
NamesBlock(note, g, h, i) == (g = h /\ i \in note.ids) \/ <<h, i>> \in note.refs

RowsIn(Q, f) == {r \in Q : r.file = f}

(* What a note shows with some of the rows. *)
ShownBy(T, Q, f) == Rewritten(T[f], RowsIn(Q, f))

(* D has the tags that were renamed so far, if the notes are T and the queue is Q:
   no note shows one, and only those names were given that were given to them. *)
TagsUsed(D, T, Q) ==
  /\ \A f \in Note : \A t \in ShownBy(T, Q, f).tags : \A m \in TagMoves :
       /\ m \in D => ~ InTag(m[1], t)
       /\ InTag(m[2], t) => m \in D
  /\ \A f \in Note : \A t \in T[f].tags : \A m \in TagMoves : InTag(m[2], t) => m \in D
  /\ \A r \in Q : r.kind = "tag" => <<r.old, r.new>> \in D
  /\ \A m \in D : \A k \in TagMoves : InTag(k[2], m[1]) => k \in D

(* The same of the blocks, and no two notes have come to share an id. *)
IdsUsed(D, T, Q) ==
  /\ \A g, h \in Note : \A m \in BlockMoves :
       /\ m \in D => ~ NamesBlock(ShownBy(T, Q, g), g, h, m[2])
       /\ NamesBlock(ShownBy(T, Q, g), g, h, m[3]) \/ NamesBlock(T[g], g, h, m[3]) => m \in D
  /\ \A r \in Q : r.kind = "block_ref" => \E m \in D : r.old = m[2] /\ r.new = m[3]
  /\ \A m \in D : \A k \in BlockMoves : m[2] = k[3] => k \in D
  /\ \A f, g, h, k \in Note : \A i \in BlockId :
       NamesBlock(ShownBy(T, Q, f), f, h, i) /\ NamesBlock(ShownBy(T, Q, g), g, k, i) => h = k

NamesUsed(T, Q) ==
  /\ \E D \in SUBSET TagMoves : TagsUsed(D, T, Q)
  /\ \E D \in SUBSET BlockMoves : IdsUsed(D, T, Q)

RowTyped(r) ==
  /\ r.file \in Note /\ r.at \in Nat /\ r.id \in Nat
  /\ \/ r.kind = "tag" /\ r.old \in Tag /\ r.new \in Tag
     \/ r.kind = "block_ref" /\ r.old \in BlockId /\ r.new \in BlockId

TagTypes ==
  /\ text \in [Note -> Content]
  /\ lastOp \in Nat
  /\ \A r \in queue : RowTyped(r) /\ r.at <= lastOp
  /\ \A f \in Note : IsFiniteSet(RowsOf(f))
  /\ \A f \in Note : text[f].joined = InitText[f].joined
  /\ DOMAIN tables = Note /\ intact \in BOOLEAN

(* The rows of before the last rename. *)
EarlierRows == {r \in queue : r.at < lastOp}

(* While nothing was written or indexed since the last rename, its undoing leads
   back to what the notes showed before it, which the tables have. *)
SinceRename ==
  intact => /\ flushed = {}
            /\ \A f \in Note : /\ tables[f] = before[f]
                               /\ Extracted(ShownBy(text, EarlierRows, f)) = before[f]
            /\ NamesUsed(text, EarlierRows)

FlushedIsShown == flushed \subseteq Note /\ \A f \in flushed : Shown(f) = text[f]

(* A note that needs no rewriting and that no event is under way for is what the
   tables say. *)
TablesTrue ==
  \A f \in Note \ modified : Shown(f) = text[f] => tables[f] = Extracted(text[f])

TagInv ==
  TagTypes /\ NamesUsed(text, queue) /\ SinceRename /\ FlushedIsShown /\ TablesTrue
    /\ ShownAsMeant

-------------------------------------------------------------------------------
(* The rows of a note, one after the other *)

(* The function Rewritten is defined by.                                *)
Rewrites(f, note, R) ==
  f = [S \in SUBSET R |->
         IF S = {} THEN note
         ELSE rewrite(f[S \ {LastRow(S)}], LastRow(S))]

LEMMA RewrittenIs ==
  ASSUME NEW note, NEW R
  PROVE  Rewritten(note, R) = (CHOOSE f : Rewrites(f, note, R))[R]
BY Zenon DEF Rewritten, MapThenFoldSet, Rewrites

LEMMA RewrittenExists ==
  ASSUME NEW note, NEW R, Timed(R)
  PROVE  \E f : Rewrites(f, note, R)
<1> DEFINE Small(n) == {S \in SUBSET R : Cardinality(S) <= n}
           UpTo(f, n) == f = [S \in Small(n) |->
                                IF S = {} THEN note
                                ELSE rewrite(f[S \ {LastRow(S)}], LastRow(S))]
           Bad == {n \in Nat : ~ \E f : UpTo(f, n)}
<1>1. \A S \in SUBSET R : /\ IsFiniteSet(S) /\ Timed(S) /\ Cardinality(S) \in Nat
                          /\ Cardinality(S) <= Cardinality(R)
  BY TimedParts, FS_Subset, FS_CardinalityType DEF Timed
<1>2. Bad = {}
  <2> SUFFICES ASSUME Bad # {} PROVE FALSE
    OBVIOUS
  <2>1. PICK n \in Bad : \A k \in Bad : n <= k
    BY LeastNumber
  <2>2. n \in Nat /\ ~ \E f : UpTo(f, n)
    BY <2>1
  <2>3. CASE n = 0
    <3>1. \A S \in Small(0) : S = {}
      BY <1>1, FS_EmptySet
    <3>2. PICK f : f = [S \in Small(0) |-> note]
      OBVIOUS
    <3>3. UpTo(f, 0)
      BY <3>1, <3>2
    <3> QED BY <2>2, <2>3, <3>3
  <2>4. CASE n # 0
    <3>1. n - 1 \in Nat /\ n - 1 \notin Bad
      <4> HIDE DEF Bad
      <4> QED BY <2>1, <2>2, <2>4
    <3>2. PICK f : UpTo(f, n - 1)
      BY <3>1
    <3>3. PICK g : g = [S \in Small(n) |->
                          IF S = {} THEN note
                          ELSE rewrite(f[S \ {LastRow(S)}], LastRow(S))]
      OBVIOUS
    <3>4. \A S \in Small(n - 1) : S \in Small(n) /\ g[S] = f[S]
      <4>1. \A S \in Small(n - 1) : S \in Small(n)
        BY <1>1, <2>2
      <4>2. \A S \in Small(n - 1) :
              f[S] = IF S = {} THEN note
                     ELSE rewrite(f[S \ {LastRow(S)}], LastRow(S))
        BY <3>2
      <4> QED BY <3>3, <4>1, <4>2
    <3>5. ASSUME NEW S \in Small(n), S # {}
          PROVE  S \ {LastRow(S)} \in Small(n - 1)
      <4>1. S \in SUBSET R /\ Cardinality(S) <= n /\ LastRow(S) \in S
        BY <1>1, <3>5, LastExists
      <4>2. Cardinality(S \ {LastRow(S)}) = Cardinality(S) - 1
        BY <1>1, <4>1, FS_RemoveElement
      <4> QED BY <1>1, <2>2, <4>1, <4>2
    <3>6. UpTo(g, n)
      <4> HIDE DEF Small
      <4>1. \A S \in Small(n) :
              g[S] = IF S = {} THEN note
                     ELSE rewrite(g[S \ {LastRow(S)}], LastRow(S))
        BY <3>3, <3>4, <3>5
      <4>2. g = [S \in Small(n) |-> g[S]]
        BY <3>3
      <4> QED BY <4>1, <4>2
    <3> QED BY <2>2, <3>6
  <2> QED BY <2>3, <2>4
<1>3. PICK f : UpTo(f, Cardinality(R))
  BY <1>1, <1>2
<1>4. Small(Cardinality(R)) = SUBSET R
  BY <1>1
<1>5. Rewrites(f, note, R)
  <2> HIDE DEF Small
  <2> QED BY <1>3, <1>4 DEF Rewrites
<1> QED BY <1>5

(* A part of the rows gives one result, alone or on the way to another.     *)
LEMMA RewrittenAgree ==
  ASSUME NEW note, NEW R, Timed(R), NEW S \in SUBSET R, NEW f, NEW g,
         Rewrites(f, note, R), Rewrites(g, note, S)
  PROVE  f[S] = g[S]
<1> DEFINE Bad == {U \in SUBSET S : f[U] # g[U]}
<1>1. SUFFICES ASSUME Bad # {} PROVE FALSE
  OBVIOUS
<1>2. \A U \in Bad : Timed(U) /\ IsFiniteSet(U)
  BY TimedParts, FS_Subset DEF Timed
<1>3. PICK U \in Bad : \A T \in Bad : Cardinality(U) <= Cardinality(T)
  BY <1>1, <1>2, SmallestSet
<1>4. U \in SUBSET R /\ U \in SUBSET S /\ f[U] # g[U]
  BY <1>3
<1>5. /\ f[U] = IF U = {} THEN note ELSE rewrite(f[U \ {LastRow(U)}], LastRow(U))
      /\ g[U] = IF U = {} THEN note ELSE rewrite(g[U \ {LastRow(U)}], LastRow(U))
  BY <1>4 DEF Rewrites
<1>6. U # {} /\ LastRow(U) \in U
  BY <1>2, <1>3, <1>4, <1>5, LastExists
<1>7. U \ {LastRow(U)} \notin Bad
  BY <1>2, <1>3, <1>6, OneLess
<1>8. f[U \ {LastRow(U)}] = g[U \ {LastRow(U)}]
  BY <1>4, <1>7
<1> QED BY <1>4, <1>5, <1>8

(* Without rows the note is what it is.                                     *)
LEMMA RewrittenNone ==
  ASSUME NEW note
  PROVE  Rewritten(note, {}) = note
<1>1. Timed({})
  BY FS_EmptySet DEF Timed
<1>2. PICK f : f = (CHOOSE g : Rewrites(g, note, {}))
  OBVIOUS
<1>3. Rewrites(f, note, {})
  BY <1>1, <1>2, RewrittenExists
<1> QED BY <1>2, <1>3, RewrittenIs DEF Rewrites

(* The last row is applied to what the others give.                         *)
LEMMA RewrittenLast ==
  ASSUME NEW note, NEW R, Timed(R), R # {}
  PROVE  Rewritten(note, R)
           = rewrite(Rewritten(note, R \ {LastRow(R)}), LastRow(R))
<1>1. PICK S : S = R \ {LastRow(R)}
  OBVIOUS
<1>2. S \in SUBSET R /\ Timed(S)
  BY <1>1, TimedParts
<1>3. PICK f : f = (CHOOSE h : Rewrites(h, note, R))
  OBVIOUS
<1>4. PICK g : g = (CHOOSE h : Rewrites(h, note, S))
  OBVIOUS
<1>5. Rewrites(f, note, R) /\ Rewrites(g, note, S)
  BY <1>2, <1>3, <1>4, RewrittenExists
<1>6. f[S] = g[S]
  BY <1>2, <1>5, RewrittenAgree
<1>7. f[R] = rewrite(f[S], LastRow(R))
  BY <1>1, <1>5 DEF Rewrites
<1> QED BY <1>1, <1>3, <1>4, <1>6, <1>7, RewrittenIs

(* What every row leaves so, all of them do.                                *)
LEMMA RewrittenStays ==
  ASSUME NEW note, NEW R, Timed(R), NEW A, note \in A,
         \A t \in A : \A r \in R : rewrite(t, r) \in A
  PROVE  Rewritten(note, R) \in A
<1> DEFINE Bad == {S \in SUBSET R : Rewritten(note, S) \notin A}
<1>1. SUFFICES ASSUME Bad # {} PROVE FALSE
  OBVIOUS
<1>2. \A S \in Bad : Timed(S) /\ IsFiniteSet(S)
  BY TimedParts, FS_Subset DEF Timed
<1>3. PICK S \in Bad : \A T \in Bad : Cardinality(S) <= Cardinality(T)
  BY <1>1, <1>2, SmallestSet
<1>4. S # {}
  BY <1>3, RewrittenNone
<1>5. LastRow(S) \in S /\ LastRow(S) \in R
  BY <1>2, <1>3, <1>4, LastExists
<1>6. S \ {LastRow(S)} \notin Bad
  BY <1>2, <1>3, <1>5, OneLess
<1>7. Rewritten(note, S \ {LastRow(S)}) \in A
  BY <1>3, <1>6
<1>8. Rewritten(note, S) \in A
  BY <1>2, <1>3, <1>4, <1>5, <1>7, RewrittenLast
<1> QED BY <1>3, <1>8

(* A row later than all others is applied to what these give.               *)
LEMMA RewrittenNext ==
  ASSUME NEW note, NEW R, Timed(R), NEW r, r.at \in Int, r.id \in Int,
         \A s \in R : s.at < r.at
  PROVE  /\ Timed(R \union {r})
         /\ Rewritten(note, R \union {r}) = rewrite(Rewritten(note, R), r)
<1>1. PICK S : S = R \union {r}
  OBVIOUS
<1>2. Timed(S) /\ S # {}
  <2>1. IsFiniteSet(S)
    BY <1>1, FS_AddElement DEF Timed
  <2> QED BY <1>1, <2>1 DEF Timed
<1>3. LastRow(S) \in S /\ \A s \in S : ~RowBefore(LastRow(S), s)
  BY <1>2, LastExists
<1>4. LastRow(S) = r
  <2>1. ASSUME LastRow(S) \in R PROVE FALSE
    <3>1. RowBefore(LastRow(S), r)
      BY <2>1 DEF RowBefore
    <3> QED BY <1>1, <1>3, <3>1
  <2> QED BY <1>1, <1>3, <2>1
<1>5. r \notin R
  <2> SUFFICES ASSUME r \in R PROVE FALSE
    OBVIOUS
  <2>1. r.at < r.at
    OBVIOUS
  <2> QED BY <2>1
<1>6. S \ {r} = R
  BY <1>1, <1>5
<1>7. Rewritten(note, S) = rewrite(Rewritten(note, S \ {LastRow(S)}), LastRow(S))
  BY <1>2, RewrittenLast
<1>8. Rewritten(note, S) = rewrite(Rewritten(note, R), r)
  BY <1>4, <1>6, <1>7
<1> QED BY <1>1, <1>2, <1>8

(* Rows that leave a note as it is do so one after the other.               *)
LEMMA RewrittenSame ==
  ASSUME NEW note, NEW R, Timed(R), \A r \in R : rewrite(note, r) = note
  PROVE  Rewritten(note, R) = note
<1>1. \A t \in {note} : \A r \in R : rewrite(t, r) \in {note}
  OBVIOUS
<1>2. Rewritten(note, R) \in {note}
  BY <1>1, RewrittenStays
<1> QED BY <1>2

-------------------------------------------------------------------------------
(* Tags, one under another *)

LEMMA InTagIs ==
  ASSUME NEW s \in Tag, NEW t \in Tag
  PROVE  InTag(s, t) <=> Len(s) <= Len(t) /\ \A i \in 1..Len(s) : s[i] = t[i]
<1>1. Len(s) \in Nat /\ Len(t) \in Nat
  BY LenProperties DEF Tag
<1>2. ASSUME Len(s) <= Len(t)
      PROVE  SubSeq(s, 1, Len(s)) = SubSeq(t, 1, Len(s))
               <=> \A i \in 1..Len(s) : s[i] = t[i]
  <2>1. /\ SubSeq(s, 1, Len(s)) = [i \in 1..Len(s) |-> s[i]]
        /\ SubSeq(t, 1, Len(s)) = [i \in 1..Len(s) |-> t[i]]
    BY <1>1, <1>2 DEF Tag
  <2> QED BY <2>1
<1> QED BY <1>2 DEF InTag, IsPrefix

LEMMA InTagOfItself == \A t \in Tag : InTag(t, t)
<1> SUFFICES ASSUME NEW t \in Tag PROVE InTag(t, t)
  OBVIOUS
<1>1. Len(t) \in Nat
  BY LenProperties DEF Tag
<1> QED BY <1>1, InTagIs

LEMMA InTagFurther ==
  ASSUME NEW s \in Tag, NEW t \in Tag, NEW u \in Tag, InTag(s, t), InTag(t, u)
  PROVE  InTag(s, u)
<1>1. Len(s) \in Nat /\ Len(t) \in Nat /\ Len(u) \in Nat
  BY LenProperties DEF Tag
<1>2. Len(s) <= Len(t) /\ \A i \in 1..Len(s) : s[i] = t[i]
  BY InTagIs
<1>3. Len(t) <= Len(u) /\ \A i \in 1..Len(t) : t[i] = u[i]
  BY InTagIs
<1>4. Len(s) <= Len(u) /\ \A i \in 1..Len(s) : s[i] = u[i]
  BY <1>1, <1>2, <1>3
<1> QED BY <1>4, InTagIs

(* Of two tags above one, one is above the other.                           *)
LEMMA InOneLine ==
  ASSUME NEW s \in Tag, NEW t \in Tag, NEW u \in Tag, InTag(s, u), InTag(t, u)
  PROVE  InTag(s, t) \/ InTag(t, s)
<1>1. Len(s) \in Nat /\ Len(t) \in Nat /\ Len(u) \in Nat
  BY LenProperties DEF Tag
<1>2. Len(s) <= Len(u) /\ \A i \in 1..Len(s) : s[i] = u[i]
  BY InTagIs
<1>3. Len(t) <= Len(u) /\ \A i \in 1..Len(t) : t[i] = u[i]
  BY InTagIs
<1>4. CASE Len(s) <= Len(t)
  <2>1. \A i \in 1..Len(s) : s[i] = t[i]
    BY <1>1, <1>2, <1>3, <1>4
  <2> QED BY <1>4, <2>1, InTagIs
<1>5. CASE Len(t) <= Len(s)
  <2>1. \A i \in 1..Len(t) : t[i] = s[i]
    BY <1>1, <1>2, <1>3, <1>5
  <2> QED BY <1>5, <2>1, InTagIs
<1> QED BY <1>1, <1>4, <1>5

(* What was under the old name is under the new one.                        *)
LEMMA RetaggedUnder ==
  ASSUME NEW t \in Tag, NEW old \in Tag, NEW new \in Tag
  PROVE  /\ Retagged(t, old, new) \in Tag
         /\ InTag(old, t) => InTag(new, Retagged(t, old, new))
         /\ ~ InTag(old, t) => Retagged(t, old, new) = t
<1>1. CASE InTag(old, t)
  <2>1. Len(old) \in Nat /\ Len(t) \in Nat /\ Len(new) \in Nat
    BY LenProperties DEF Tag
  <2>2. PICK r : r = SubSeq(t, Len(old) + 1, Len(t))
    OBVIOUS
  <2>3. r \in Tag /\ Len(r) \in Nat
    BY <2>1, <2>2, LenProperties DEF Tag
  <2>4. PICK u : u = new \o r
    OBVIOUS
  <2>5. u \in Tag /\ Len(u) = Len(new) + Len(r) /\ \A i \in 1..Len(new) : u[i] = new[i]
    BY <2>1, <2>3, <2>4, ConcatProperties DEF Tag
  <2>6. InTag(new, u)
    BY <2>1, <2>3, <2>5, InTagIs
  <2> QED BY <1>1, <2>2, <2>4, <2>5, <2>6 DEF Retagged
<1> QED BY <1>1 DEF Retagged

-------------------------------------------------------------------------------
(* One row *)

LEMMA RetagGives ==
  ASSUME NEW note \in Content, NEW old \in Tag, NEW new \in Tag,
         NEW after, after = rewrite_tag(note, old, new)
  PROVE  /\ after \in Content
         /\ after.tags = {Retagged(t, old, new) : t \in note.tags}
         /\ after.joined = note.joined /\ after.ids = note.ids /\ after.refs = note.refs
<1>1. PICK T : T = {Retagged(t, old, new) : t \in note.tags}
  OBVIOUS
<1>2. T \in SUBSET Tag
  BY <1>1, RetaggedUnder DEF Content
<1>3. after = [note EXCEPT !.tags = T]
  BY <1>1 DEF rewrite_tag
<1> QED BY <1>1, <1>2, <1>3 DEF Content

LEMMA RetagSame ==
  ASSUME NEW note \in Content, NEW old \in Tag, NEW new \in Tag,
         \A t \in note.tags : ~ InTag(old, t)
  PROVE  rewrite_tag(note, old, new) = note
<1>1. {Retagged(t, old, new) : t \in note.tags} = note.tags
  BY RetaggedUnder DEF Content
<1>2. [note EXCEPT !.tags = note.tags] = note
  BY DEF Content
<1> QED BY <1>1, <1>2 DEF rewrite_tag

LEMMA RenumberGives ==
  ASSUME NEW note \in Content, NEW old \in BlockId, NEW new \in BlockId,
         NEW after, after = rewrite_block_ref(note, old, new)
  PROVE  /\ after.ids = {Renamed(i, old, new) : i \in note.ids}
         /\ after.refs = {<<r[1], Renamed(r[2], old, new)>> : r \in note.refs}
<1>1. PICK I : I = {Renamed(i, old, new) : i \in note.ids}
  OBVIOUS
<1>2. PICK R : R = {<<r[1], Renamed(r[2], old, new)>> : r \in note.refs}
  OBVIOUS
<1>3. I \in SUBSET BlockId
  BY <1>1 DEF Content, Renamed
<1>4. R \in SUBSET (Note \X BlockId)
  <2>1. \A r \in note.refs : r[1] \in Note /\ Renamed(r[2], old, new) \in BlockId
    BY DEF Content, Renamed
  <2> QED BY <1>2, <2>1
<1>5. PICK half : half = [note EXCEPT !.ids = I]
  OBVIOUS
<1>6. after = [half EXCEPT !.refs = R]
  BY <1>1, <1>2, <1>5 DEF rewrite_block_ref
<1>7. /\ half \in Content /\ half.ids = I
      /\ half.joined = note.joined /\ half.tags = note.tags
  BY <1>3, <1>5 DEF Content
<1>8. after.ids = I /\ after.refs = R
  BY <1>4, <1>6, <1>7 DEF Content
<1> QED BY <1>1, <1>2, <1>8

LEMMA RenumberKeeps ==
  ASSUME NEW note \in Content, NEW old \in BlockId, NEW new \in BlockId,
         NEW after, after = rewrite_block_ref(note, old, new)
  PROVE  after \in Content /\ after.joined = note.joined /\ after.tags = note.tags
<1>1. PICK I : I = {Renamed(i, old, new) : i \in note.ids}
  OBVIOUS
<1>2. PICK R : R = {<<r[1], Renamed(r[2], old, new)>> : r \in note.refs}
  OBVIOUS
<1>3. I \in SUBSET BlockId
  BY <1>1 DEF Content, Renamed
<1>4. R \in SUBSET (Note \X BlockId)
  <2>1. \A r \in note.refs : r[1] \in Note /\ Renamed(r[2], old, new) \in BlockId
    BY DEF Content, Renamed
  <2> QED BY <1>2, <2>1
<1>5. PICK half : half = [note EXCEPT !.ids = I]
  OBVIOUS
<1>6. after = [half EXCEPT !.refs = R]
  BY <1>1, <1>2, <1>5 DEF rewrite_block_ref
<1>7. /\ half \in Content /\ half.ids = I
      /\ half.joined = note.joined /\ half.tags = note.tags
  BY <1>3, <1>5 DEF Content
<1>8. after \in Content /\ after.joined = half.joined /\ after.tags = half.tags
  BY <1>4, <1>6, <1>7 DEF Content
<1> QED BY <1>7, <1>8

LEMMA RenumberSame ==
  ASSUME NEW note \in Content, NEW old \in BlockId, NEW new \in BlockId,
         old \notin note.ids, \A r \in note.refs : r[2] # old
  PROVE  rewrite_block_ref(note, old, new) = note
<1>1. {Renamed(i, old, new) : i \in note.ids} = note.ids
  BY DEF Renamed
<1>2. {<<r[1], Renamed(r[2], old, new)>> : r \in note.refs} = note.refs
  <2>1. \A r \in note.refs : <<r[1], Renamed(r[2], old, new)>> = r
    BY DEF Content, Renamed
  <2> QED BY <2>1
<1>3. PICK half : half = [note EXCEPT !.ids = note.ids]
  OBVIOUS
<1>4. half = note
  BY <1>3 DEF Content
<1>5. [half EXCEPT !.refs = note.refs] = note
  BY <1>4 DEF Content
<1>6. rewrite_block_ref(note, old, new) = [half EXCEPT !.refs = note.refs]
  BY <1>1, <1>2, <1>3 DEF rewrite_block_ref
<1> QED BY <1>5, <1>6

LEMMA RenumberNames ==
  ASSUME NEW note \in Content, NEW old \in BlockId, NEW new \in BlockId,
         NEW g \in Note, NEW h \in Note, NEW i,
         NEW after, after = rewrite_block_ref(note, old, new)
  PROVE  NamesBlock(after, g, h, i)
           <=> \/ i # old /\ NamesBlock(note, g, h, i)
               \/ i = new /\ NamesBlock(note, g, h, old)
<1>1. after.ids = {Renamed(j, old, new) : j \in note.ids}
  BY RenumberGives
<1>2. after.refs = {<<r[1], Renamed(r[2], old, new)>> : r \in note.refs}
  BY RenumberGives
<1>3. i \in after.ids <=> (i # old /\ i \in note.ids) \/ (i = new /\ old \in note.ids)
  BY <1>1 DEF Renamed
<1>4. <<h, i>> \in after.refs
        <=> (i # old /\ <<h, i>> \in note.refs) \/ (i = new /\ <<h, old>> \in note.refs)
  <2>1. ASSUME <<h, i>> \in after.refs
        PROVE  (i # old /\ <<h, i>> \in note.refs) \/ (i = new /\ <<h, old>> \in note.refs)
    <3>1. PICK r \in note.refs : <<h, i>> = <<r[1], Renamed(r[2], old, new)>>
      BY <1>2, <2>1
    <3>2. r = <<r[1], r[2]>>
      BY DEF Content
    <3>3. h = r[1] /\ i = Renamed(r[2], old, new)
      BY <3>1
    <3>4. r = <<h, r[2]>>
      BY <3>2, <3>3
    <3>5. CASE r[2] = old
      <4>1. r = <<h, old>> /\ i = new
        BY <3>3, <3>4, <3>5 DEF Renamed
      <4> QED BY <4>1
    <3>6. CASE r[2] # old
      <4>1. i = r[2]
        BY <3>3, <3>6 DEF Renamed
      <4>2. r = <<h, i>> /\ i # old
        BY <3>4, <3>6, <4>1
      <4> QED BY <4>2
    <3> QED BY <3>5, <3>6
  <2>2. ASSUME i # old, <<h, i>> \in note.refs PROVE <<h, i>> \in after.refs
    <3>1. PICK r \in note.refs : r = <<h, i>>
      BY <2>2
    <3>2. r[1] = h /\ Renamed(r[2], old, new) = i
      BY <2>2, <3>1 DEF Renamed
    <3> QED BY <1>2, <3>1, <3>2
  <2>3. ASSUME i = new, <<h, old>> \in note.refs PROVE <<h, i>> \in after.refs
    <3>1. PICK r \in note.refs : r = <<h, old>>
      BY <2>3
    <3>2. r[1] = h /\ Renamed(r[2], old, new) = i
      BY <2>3, <3>1 DEF Renamed
    <3> QED BY <1>2, <3>1, <3>2
  <2> QED BY <2>1, <2>2, <2>3
<1> QED BY <1>3, <1>4 DEF NamesBlock

-------------------------------------------------------------------------------
(* What the notes show *)

LEMMA ShownIs == \A f \in Note : Shown(f) = ShownBy(text, queue, f)
BY DEF Shown, ShownBy, RowsOf, RowsIn

LEMMA ShownNext == \A f \in Note : Shown(f)' = ShownBy(text', queue', f)
BY DEF Shown, ShownBy, RowsOf, RowsIn

LEMMA ShownTyped ==
  ASSUME TagTypes, NEW Q \in SUBSET queue, NEW f \in Note
  PROVE  /\ Timed(RowsIn(Q, f))
         /\ ShownBy(text, Q, f) \in Content
         /\ ShownBy(text, Q, f).joined = InitText[f].joined
<1>1. Timed(RowsIn(Q, f))
  <2>1. Timed(RowsOf(f))
    BY DEF TagTypes, RowTyped, Timed, RowsOf
  <2>2. RowsIn(Q, f) \in SUBSET RowsOf(f)
    BY DEF RowsIn, RowsOf
  <2> QED BY <2>1, <2>2, TimedParts
<1>2. PICK A : A = {t \in Content : t.joined = InitText[f].joined}
  OBVIOUS
<1>3. \A t \in A : \A r \in RowsIn(Q, f) : rewrite(t, r) \in A
  <2> SUFFICES ASSUME NEW t \in A, NEW r \in RowsIn(Q, f) PROVE rewrite(t, r) \in A
    OBVIOUS
  <2>1. RowTyped(r) /\ t \in Content /\ t.joined = InitText[f].joined
    BY <1>2 DEF TagTypes, RowsIn
  <2>2. CASE r.kind = "tag"
    <3>1. r.old \in Tag /\ r.new \in Tag
      BY <2>1, <2>2 DEF RowTyped
    <3>2. PICK u : u = rewrite_tag(t, r.old, r.new)
      OBVIOUS
    <3>3. u \in Content /\ u.joined = t.joined
      BY <2>1, <3>1, <3>2, RetagGives
    <3> QED BY <1>2, <2>1, <2>2, <3>2, <3>3 DEF rewrite
  <2>3. CASE r.kind = "block_ref"
    <3>1. r.old \in BlockId /\ r.new \in BlockId
      BY <2>1, <2>3 DEF RowTyped
    <3>2. PICK u : u = rewrite_block_ref(t, r.old, r.new)
      OBVIOUS
    <3>3. u \in Content /\ u.joined = t.joined
      BY <2>1, <3>1, <3>2, RenumberKeeps
    <3> QED BY <1>2, <2>1, <2>3, <3>2, <3>3 DEF rewrite
  <2> QED BY <2>1, <2>2, <2>3 DEF RowTyped
<1>4. text[f] \in A
  BY <1>2 DEF TagTypes
<1>5. ShownBy(text, Q, f) \in A
  BY <1>1, <1>3, <1>4, RewrittenStays DEF ShownBy
<1> QED BY <1>1, <1>2, <1>5

(* A note shows what it would show if what it shows were written into it.   *)
LEMMA ShownTwice ==
  ASSUME TagTypes, NamesUsed(text, queue), NEW f \in Note
  PROVE  Rewritten(Shown(f), RowsOf(f)) = Shown(f)
<1>1. PICK s : s = Shown(f)
  OBVIOUS
<1>2. s = ShownBy(text, queue, f)
  BY <1>1, ShownIs
<1>3. Timed(RowsOf(f)) /\ s \in Content
  <2>1. queue \in SUBSET queue
    OBVIOUS
  <2> QED BY <1>2, <2>1, ShownTyped DEF RowsIn, RowsOf
<1>4. ASSUME NEW r \in RowsOf(f) PROVE rewrite(s, r) = s
  <2>1. RowTyped(r) /\ r \in queue
    BY DEF TagTypes, RowsOf
  <2>2. CASE r.kind = "tag"
    <3>1. PICK D \in SUBSET TagMoves : TagsUsed(D, text, queue)
      BY DEF NamesUsed
    <3>2. PICK m \in D : m = <<r.old, r.new>>
      BY <2>1, <2>2, <3>1 DEF TagsUsed
    <3>3. \A t \in s.tags : ~ InTag(m[1], t)
      BY <1>2, <3>1 DEF TagsUsed
    <3>4. \A t \in s.tags : ~ InTag(r.old, t)
      BY <3>2, <3>3
    <3>5. r.old \in Tag /\ r.new \in Tag
      BY <2>1, <2>2 DEF RowTyped
    <3> QED BY <1>3, <2>2, <3>4, <3>5, RetagSame DEF rewrite
  <2>3. CASE r.kind = "block_ref"
    <3>1. PICK D \in SUBSET BlockMoves : IdsUsed(D, text, queue)
      BY DEF NamesUsed
    <3>2. PICK m \in D : r.old = m[2] /\ r.new = m[3]
      BY <2>1, <2>3, <3>1 DEF IdsUsed
    <3>3. \A h \in Note : ~ NamesBlock(s, f, h, m[2])
      BY <1>2, <3>1 DEF IdsUsed
    <3>4. \A h \in Note : <<h, r.old>> \notin s.refs
      BY <3>2, <3>3 DEF NamesBlock
    <3>5. r.old \notin s.ids
      BY <3>2, <3>3 DEF NamesBlock
    <3>6. \A p \in s.refs : p[2] # r.old
      <4>1. \A p \in s.refs : p = <<p[1], p[2]>> /\ p[1] \in Note
        BY <1>3 DEF Content
      <4> QED BY <3>4, <4>1
    <3>7. r.old \in BlockId /\ r.new \in BlockId
      BY <2>1, <2>3 DEF RowTyped
    <3>8. r.kind # "tag"
      BY <2>3
    <3> QED BY <1>3, <3>5, <3>6, <3>7, <3>8, RenumberSame DEF rewrite
  <2> QED BY <2>1, <2>2, <2>3 DEF RowTyped
<1>5. Rewritten(s, RowsOf(f)) = s
  BY <1>3, <1>4, RewrittenSame
<1> QED BY <1>1, <1>5

LEMMA TagsStill ==
  ASSUME NEW D, NEW T, NEW Q, NEW T2, NEW Q2, TagsUsed(D, T, Q),
         \A f \in Note : /\ ShownBy(T2, Q2, f).tags = ShownBy(T, Q, f).tags
                         /\ T2[f] = T[f] \/ T2[f] = ShownBy(T, Q, f),
         \A r \in Q2 : r.kind = "tag" => r \in Q
  PROVE  TagsUsed(D, T2, Q2)
BY DEF TagsUsed

LEMMA IdsStill ==
  ASSUME NEW D, NEW T, NEW Q, NEW T2, NEW Q2, IdsUsed(D, T, Q),
         \A g \in Note : /\ ShownBy(T2, Q2, g).ids = ShownBy(T, Q, g).ids
                         /\ ShownBy(T2, Q2, g).refs = ShownBy(T, Q, g).refs
                         /\ T2[g] = T[g] \/ T2[g] = ShownBy(T, Q, g),
         \A r \in Q2 : r.kind = "block_ref" => r \in Q
  PROVE  IdsUsed(D, T2, Q2)
<1>1. \A g, h \in Note : \A i : NamesBlock(ShownBy(T2, Q2, g), g, h, i)
                                  <=> NamesBlock(ShownBy(T, Q, g), g, h, i)
  BY DEF NamesBlock
<1>2. \A g, h \in Note : \A m \in BlockMoves :
        /\ m \in D => ~ NamesBlock(ShownBy(T2, Q2, g), g, h, m[2])
        /\ NamesBlock(ShownBy(T2, Q2, g), g, h, m[3]) \/ NamesBlock(T2[g], g, h, m[3]) => m \in D
  BY <1>1 DEF IdsUsed
<1>3. \A f, g, h, k \in Note : \A i \in BlockId :
        NamesBlock(ShownBy(T2, Q2, f), f, h, i) /\ NamesBlock(ShownBy(T2, Q2, g), g, k, i) => h = k
  BY <1>1 DEF IdsUsed
<1>4. /\ \A r \in Q2 : r.kind = "block_ref" => \E m \in D : r.old = m[2] /\ r.new = m[3]
      /\ \A m \in D : \A k \in BlockMoves : m[2] = k[3] => k \in D
  BY DEF IdsUsed
<1> QED BY <1>2, <1>3, <1>4 DEF IdsUsed

LEMMA NamesStill ==
  ASSUME NEW T, NEW Q, NEW T2, NEW Q2, NamesUsed(T, Q), Q2 \subseteq Q,
         \A f \in Note : /\ ShownBy(T2, Q2, f) = ShownBy(T, Q, f)
                         /\ T2[f] = T[f] \/ T2[f] = ShownBy(T, Q, f)
  PROVE  NamesUsed(T2, Q2)
<1>1. PICK D \in SUBSET TagMoves : TagsUsed(D, T, Q)
  BY DEF NamesUsed
<1>2. PICK E \in SUBSET BlockMoves : IdsUsed(E, T, Q)
  BY DEF NamesUsed
<1>3. TagsUsed(D, T2, Q2)
  BY <1>1, TagsStill
<1>4. IdsUsed(E, T2, Q2)
  BY <1>2, IdsStill
<1> QED BY <1>3, <1>4 DEF NamesUsed

(* Writing a note as it is or as it is shown changes nothing of what is shown. *)
LEMMA WrittenAsShown ==
  ASSUME TagTypes, NamesUsed(text, queue), NEW f \in Note,
         NEW w \in {text[f], Shown(f)}, text' = [text EXCEPT ![f] = w], queue' = queue
  PROVE  /\ text' \in [Note -> Content]
         /\ \A g \in Note : /\ text'[g].joined = InitText[g].joined
                            /\ text'[g] = text[g] \/ text'[g] = Shown(g)
                            /\ Shown(g)' = Shown(g)
         /\ \A g \in Note \ {f} : text'[g] = text[g]
         /\ text'[f] = w
<1>0. queue \in SUBSET queue
  OBVIOUS
<1>1. /\ \A g \in Note : Shown(g) \in Content /\ Shown(g).joined = InitText[g].joined
      /\ text \in [Note -> Content]
      /\ \A g \in Note : text[g].joined = InitText[g].joined
  BY <1>0, ShownTyped, ShownIs DEF TagTypes
<1>2. /\ text' \in [Note -> Content] /\ text'[f] = w
      /\ \A g \in Note \ {f} : text'[g] = text[g]
  BY <1>1
<1>3. ASSUME NEW g \in Note PROVE Shown(g)' = Shown(g)
  <2>1. Shown(g)' = Rewritten(text'[g], RowsOf(g))
    BY DEF Shown, RowsOf
  <2>2. CASE text'[g] = text[g]
    BY <2>1, <2>2 DEF Shown
  <2>3. CASE text'[g] = Shown(g)
    BY <2>1, <2>3, ShownTwice
  <2> QED BY <1>2, <2>2, <2>3
<1> QED BY <1>1, <1>2, <1>3

(* What notes show and what is queued being as before, so is what was meant. *)
LEMMA ShownStill ==
  ASSUME TagInv, queue' \subseteq queue, UNCHANGED meant,
         \A g \in Note : /\ text'[g] = text[g] \/ text'[g] = Shown(g)
                         /\ Shown(g)' = Shown(g)
  PROVE  NamesUsed(text, queue)' /\ ShownAsMeant'
<1>1. \A g \in Note : /\ ShownBy(text', queue', g) = ShownBy(text, queue, g)
                      /\ text'[g] = text[g] \/ text'[g] = ShownBy(text, queue, g)
  BY ShownIs, ShownNext
<1>2. PICK T : T = text'
  OBVIOUS
<1>3. PICK Q : Q = queue'
  OBVIOUS
<1>4. NamesUsed(T, Q)
  BY <1>1, <1>2, <1>3, NamesStill DEF TagInv
<1>5. NamesUsed(text', queue')
  BY <1>2, <1>3, <1>4
<1>6. NamesUsed(text, queue)'
  BY <1>5
<1>7. \A g \in Note : Extracted(Shown(g)') = meant'[g]
  BY DEF TagInv, ShownAsMeant
<1>8. ShownAsMeant'
  BY <1>7 DEF ShownAsMeant
<1> QED BY <1>6, <1>8

-------------------------------------------------------------------------------
(* The rows of a rename *)

RowFor(f, kind, old, new, op) ==
  [file |-> f, kind |-> kind, old |-> old, new |-> new, at |-> op, id |-> op]

LEMMA NewRows ==
  ASSUME TagInv, NEW files \in SUBSET Note, NEW kind, NEW old, NEW new,
         Renames(files, kind, old, new),
         \/ kind = "tag" /\ old \in Tag /\ new \in Tag
         \/ kind = "block_ref" /\ old \in BlockId /\ new \in BlockId,
         \A r \in queue : ~ (r.kind = kind /\ r.old = old)
  PROVE  /\ queue' = queue \union {RowFor(f, kind, old, new, lastOp + 1) : f \in files}
         /\ \A f \in files :
              Shown(f)' = rewrite(Shown(f), RowFor(f, kind, old, new, lastOp + 1))
         /\ \A f \in Note \ files : Shown(f)' = Shown(f)
         /\ TagTypes' /\ EarlierRows' = queue
<1>1. PICK op : op = lastOp + 1
  OBVIOUS
<1>2. op \in Nat /\ lastOp' = op /\ text' = text /\ tables' = tables
  BY <1>1 DEF Renames, TagInv, TagTypes
<1>3. queue' = queue \union {RowFor(f, kind, old, new, op) : f \in files}
  BY <1>1, <1>2 DEF Renames, Enqueued, RowFor
<1>4. \A r \in queue : RowTyped(r) /\ r.at <= lastOp /\ r.at \in Nat /\ r.id \in Nat
  BY DEF TagInv, TagTypes, RowTyped
<1>5. \A r \in queue : r.at < op /\ r.at <= op
  BY <1>1, <1>4 DEF TagInv, TagTypes
<1>6. \A f \in files : /\ RowFor(f, kind, old, new, op).at = op
                       /\ RowFor(f, kind, old, new, op).id = op
                       /\ RowFor(f, kind, old, new, op).file = f
                       /\ RowTyped(RowFor(f, kind, old, new, op))
  BY <1>2 DEF RowFor, RowTyped
<1>7. \A f \in Note : Timed(RowsOf(f))
  BY <1>4 DEF TagInv, TagTypes, Timed, RowsOf
<1>8. ASSUME NEW f \in files
      PROVE  /\ IsFiniteSet(RowsOf(f)')
             /\ Shown(f)' = rewrite(Shown(f), RowFor(f, kind, old, new, op))
  <2>1. PICK r : r = RowFor(f, kind, old, new, op)
    OBVIOUS
  <2>2. RowsOf(f)' = RowsOf(f) \union {r}
    BY <1>3, <1>6, <2>1 DEF RowsOf
  <2>3. r.at \in Int /\ r.id \in Int /\ \A s \in RowsOf(f) : s.at < r.at
    BY <1>2, <1>5, <1>6, <2>1 DEF RowsOf
  <2>4. PICK note : note = text[f]
    OBVIOUS
  <2>5. /\ Timed(RowsOf(f) \union {r})
        /\ Rewritten(note, RowsOf(f) \union {r}) = rewrite(Rewritten(note, RowsOf(f)), r)
    BY <1>7, <2>3, RewrittenNext
  <2>6. Shown(f)' = Rewritten(note, RowsOf(f)')
    BY <1>2, <2>4 DEF Shown
  <2> QED BY <2>1, <2>2, <2>4, <2>5, <2>6 DEF Shown, Timed
<1>9. ASSUME NEW f \in Note \ files
      PROVE  RowsOf(f)' = RowsOf(f) /\ Shown(f)' = Shown(f)
  <2>1. RowsOf(f)' = RowsOf(f)
    BY <1>3, <1>6 DEF RowsOf
  <2> QED BY <1>2, <2>1 DEF Shown
<1>10. TagTypes'
  <2>1. \A r \in queue' : RowTyped(r) /\ r.at <= op
    BY <1>2, <1>3, <1>4, <1>5, <1>6
  <2>2. \A f \in Note : IsFiniteSet(RowsOf(f)')
    <3>1. \A f \in Note : IsFiniteSet(RowsOf(f))
      BY <1>7 DEF Timed
    <3> QED BY <1>8, <1>9, <3>1
  <2>3. /\ text' \in [Note -> Content] /\ lastOp' \in Nat /\ DOMAIN tables' = Note
        /\ intact' \in BOOLEAN
        /\ \A f \in Note : text'[f].joined = InitText[f].joined
    BY <1>2 DEF TagInv, TagTypes, Renames
  <2> QED BY <1>2, <2>1, <2>2, <2>3 DEF TagTypes
<1>11. EarlierRows' = queue
  <2>1. EarlierRows' = {r \in queue' : r.at < op}
    BY <1>2 DEF EarlierRows
  <2>2. \A f \in files : ~ (RowFor(f, kind, old, new, op).at < op)
    BY <1>2, <1>6
  <2> QED BY <1>3, <1>5, <2>1, <2>2
<1> QED BY <1>1, <1>3, <1>8, <1>9, <1>10, <1>11

(* The parts of the invariant that look back.                               *)
LEMMA RenameLooksBack ==
  ASSUME TagInv, Patient, NEW files, NEW kind, NEW old, NEW new,
         Renames(files, kind, old, new), EarlierRows' = queue
  PROVE  SinceRename' /\ FlushedIsShown'
<1>1. flushed = {} /\ flushed' = {} /\ Settled /\ before' = meant /\ text' = text
      /\ tables' = tables
  BY DEF Renames, MutexFree, Patient
<1>2. \A f \in Note : tables[f] = meant[f] /\ Extracted(ShownBy(text, queue, f)) = meant[f]
  BY <1>1, ShownIs DEF TagInv, ShownAsMeant, Settled
<1>3. \A f \in Note : /\ tables'[f] = before'[f]
                      /\ Extracted(ShownBy(text', EarlierRows', f)) = before'[f]
  BY <1>1, <1>2
<1>4. NamesUsed(text', EarlierRows')
  BY <1>1 DEF TagInv
<1>5. SinceRename'
  BY <1>1, <1>3, <1>4 DEF SinceRename
<1>6. FlushedIsShown'
  BY <1>1 DEF FlushedIsShown
<1> QED BY <1>5, <1>6

LEMMA TagMoveTyped ==
  ASSUME NEW m \in TagMoves
  PROVE  /\ m[1] \in Tag /\ m[2] \in Tag /\ m = <<m[1], m[2]>>
BY MoveAssumption

LEMMA BlockMoveTyped ==
  ASSUME NEW m \in BlockMoves
  PROVE  /\ m[1] \in Note /\ m[2] \in BlockId /\ m[3] \in BlockId /\ m[2] # m[3]
         /\ m = <<m[1], m[2], m[3]>>
BY MoveAssumption

(* A tag that is renamed has not been before.                               *)
LEMMA TagUnused ==
  ASSUME TagInv, NewTags, Settled, NEW m \in TagMoves, FilesOfTag(m[1]) # {},
         NEW D \in SUBSET TagMoves, TagsUsed(D, text, queue)
  PROVE  /\ \E f \in Note : \E t \in Shown(f).tags : InTag(m[1], t)
         /\ m \notin D
         /\ \A r \in queue : ~ (r.kind = "tag" /\ r.old = m[1])
<1>1. PICK f \in Note : \E t \in tables[f].tags : InTag(m[1], t)
  BY DEF FilesOfTag
<1>2. PICK s : s = Shown(f)
  OBVIOUS
<1>3. s = ShownBy(text, queue, f)
  BY <1>2, ShownIs
<1>4. s.joined = InitText[f].joined
  <2>1. queue \in SUBSET queue
    OBVIOUS
  <2> QED BY <1>3, <2>1, ShownTyped DEF TagInv
<1>5. tables[f].tags = s.tags \union UNION s.joined
  <2>1. tables[f] = Extracted(s)
    BY <1>2 DEF Settled
  <2> QED BY <2>1 DEF Extracted, extract_tags
<1>6. PICK t \in s.tags : InTag(m[1], t)
  <2>1. \A t \in UNION s.joined : ~ InTag(m[1], t)
    BY <1>4 DEF NewTags
  <2> QED BY <1>1, <1>5, <2>1
<1>7. \A k \in TagMoves : k \in D => ~ InTag(k[1], t)
  BY <1>3, <1>6 DEF TagsUsed
<1>8. m \notin D
  BY <1>6, <1>7
<1>9. ASSUME NEW r \in queue, r.kind = "tag", r.old = m[1] PROVE FALSE
  <2>1. PICK k : k = <<r.old, r.new>>
    OBVIOUS
  <2>2. k \in D
    BY <1>9, <2>1 DEF TagsUsed
  <2>3. \A u \in s.tags : \A j \in TagMoves : j \in D => ~ InTag(j[1], u)
    BY <1>3 DEF TagsUsed
  <2>4. k[1] = m[1]
    BY <1>9, <2>1
  <2>5. k \in TagMoves
    BY <2>2
  <2> QED BY <1>6, <2>2, <2>3, <2>4, <2>5
<1> QED BY <1>2, <1>6, <1>8, <1>9

LEMMA ExtractedParts ==
  ASSUME NEW note
  PROVE  /\ Extracted(note).tags = note.tags \union UNION note.joined
         /\ Extracted(note).ids = note.ids /\ Extracted(note).refs = note.refs
         /\ Extracted(note) = [tags |-> note.tags \union UNION note.joined,
                              ids |-> note.ids, refs |-> note.refs]
BY DEF Extracted, extract_tags

(* What the notes show after a tag was renamed.                             *)
LEMMA TagRenamed ==
  ASSUME TagInv, Patient, NewTags, NEW m \in TagMoves, rename_tag(m[1], m[2])
  PROVE  /\ TagTypes' /\ SinceRename' /\ FlushedIsShown'
         /\ queue' = queue \union
              {RowFor(f, "tag", m[1], m[2], lastOp + 1) : f \in FilesOfTag(m[1])}
         /\ \A f \in Note : Shown(f)' = rewrite_tag(Shown(f), m[1], m[2])
<1>1. m[1] \in Tag /\ m[2] \in Tag
  BY TagMoveTyped
<1>2. PICK files : files = FilesOfTag(m[1])
  OBVIOUS
<1>3. files \in SUBSET Note /\ Renames(files, "tag", m[1], m[2]) /\ FilesOfTag(m[1]) # {}
  BY <1>2 DEF rename_tag, FilesOfTag
<1>4. Settled
  BY <1>3 DEF Renames, Patient
<1>5. PICK D \in SUBSET TagMoves : TagsUsed(D, text, queue)
  BY DEF TagInv, NamesUsed
<1>6. \A r \in queue : ~ (r.kind = "tag" /\ r.old = m[1])
  BY <1>3, <1>4, <1>5, TagUnused
<1>7. /\ queue' = queue \union {RowFor(f, "tag", m[1], m[2], lastOp + 1) : f \in files}
      /\ \A f \in files :
           Shown(f)' = rewrite(Shown(f), RowFor(f, "tag", m[1], m[2], lastOp + 1))
      /\ \A f \in Note \ files : Shown(f)' = Shown(f)
      /\ TagTypes' /\ EarlierRows' = queue
  <2>1. PICK kind : kind = "tag"
    OBVIOUS
  <2>2. \/ kind = "tag" /\ m[1] \in Tag /\ m[2] \in Tag
        \/ kind = "block_ref" /\ m[1] \in BlockId /\ m[2] \in BlockId
    BY <1>1, <2>1
  <2>3. \A r \in queue : ~ (r.kind = kind /\ r.old = m[1])
    BY <1>6, <2>1
  <2>4. Renames(files, kind, m[1], m[2])
    BY <1>3, <2>1
  <2>5. /\ queue' = queue \union {RowFor(f, kind, m[1], m[2], lastOp + 1) : f \in files}
        /\ \A f \in files :
             Shown(f)' = rewrite(Shown(f), RowFor(f, kind, m[1], m[2], lastOp + 1))
        /\ \A f \in Note \ files : Shown(f)' = Shown(f)
        /\ TagTypes' /\ EarlierRows' = queue
    BY <1>3, <2>2, <2>3, <2>4, NewRows, Zenon
  <2> QED BY <2>1, <2>5
<1>8. SinceRename' /\ FlushedIsShown'
  BY <1>3, <1>7, RenameLooksBack
<1>9. ASSUME NEW f \in Note
      PROVE  Shown(f)' = rewrite_tag(Shown(f), m[1], m[2])
  <2>1. CASE f \in files
    BY <1>7, <2>1 DEF rewrite, RowFor
  <2>2. CASE f \notin files
    <3>1. PICK s : s = Shown(f)
      OBVIOUS
    <3>2. s \in Content
      <4>1. queue \in SUBSET queue
        OBVIOUS
      <4> QED BY <3>1, <4>1, ShownIs, ShownTyped DEF TagInv
    <3>3. tables[f] = Extracted(s)
      BY <1>4, <3>1 DEF Settled
    <3>4. \A t \in s.tags : ~ InTag(m[1], t)
      BY <1>2, <2>2, <3>3, ExtractedParts DEF FilesOfTag
    <3>5. rewrite_tag(s, m[1], m[2]) = s
      BY <1>1, <3>2, <3>4, RetagSame
    <3> QED BY <1>7, <2>2, <3>1, <3>5
  <2> QED BY <2>1, <2>2
<1> QED BY <1>2, <1>7, <1>8, <1>9

(* The new name joins those that were given.                                *)
LEMMA TagJoins ==
  ASSUME TagInv, Patient, NewTags, NEW m \in TagMoves, rename_tag(m[1], m[2]),
         NEW D \in SUBSET TagMoves, TagsUsed(D, text, queue)
  PROVE  TagsUsed(D \union {m}, text', queue')
<1>1. m[1] \in Tag /\ m[2] \in Tag /\ m = <<m[1], m[2]>>
  BY TagMoveTyped
<1>2. Settled /\ FilesOfTag(m[1]) # {} /\ text' = text
  BY DEF rename_tag, Renames, Patient
<1>3. /\ \E f \in Note : \E t \in Shown(f).tags : InTag(m[1], t)
      /\ m \notin D
  BY <1>2, TagUnused
<1>4. PICK E : E = D \union {m}
  OBVIOUS
<1>5. \A k \in TagMoves : k[1] \in Tag /\ k[2] \in Tag
  BY TagMoveTyped
<1>6. ASSUME NEW k \in TagMoves, InTag(k[2], m[1]) PROVE k \in D
  <2>1. PICK f \in Note : \E t \in Shown(f).tags : InTag(m[1], t)
    BY <1>3
  <2>2. PICK s : s = Shown(f)
    OBVIOUS
  <2>3. s = ShownBy(text, queue, f) /\ s \in Content
    <3>1. queue \in SUBSET queue
      OBVIOUS
    <3> QED BY <2>2, <3>1, ShownIs, ShownTyped DEF TagInv
  <2>4. PICK t \in s.tags : InTag(m[1], t)
    BY <2>1, <2>2
  <2>5. t \in Tag
    BY <2>3 DEF Content
  <2>6. InTag(k[2], t)
    BY <1>1, <1>5, <1>6, <2>4, <2>5, InTagFurther
  <2> QED BY <2>3, <2>4, <2>6 DEF TagsUsed
<1>7. \A j \in E : \A k \in TagMoves : InTag(k[2], j[1]) => k \in E
  BY <1>4, <1>6 DEF TagsUsed
<1>8. \A r \in queue' : r.kind = "tag" => <<r.old, r.new>> \in E
  <2>1. \A f : LET r == RowFor(f, "tag", m[1], m[2], lastOp + 1) IN <<r.old, r.new>> = m
    BY <1>1 DEF RowFor
  <2> QED BY <1>4, <2>1, TagRenamed DEF TagsUsed
<1>9. \A f \in Note : \A t \in text'[f].tags : \A k \in TagMoves : InTag(k[2], t) => k \in E
  BY <1>2, <1>4 DEF TagsUsed
<1>10. ASSUME NEW f \in Note, NEW u \in ShownBy(text', queue', f).tags, NEW k \in TagMoves
       PROVE  /\ k \in E => ~ InTag(k[1], u)
              /\ InTag(k[2], u) => k \in E
  <2>1. PICK s : s = ShownBy(text, queue, f)
    OBVIOUS
  <2>2. s \in Content
    <3>1. queue \in SUBSET queue
      OBVIOUS
    <3> QED BY <2>1, <3>1, ShownTyped DEF TagInv
  <2>3. ShownBy(text', queue', f) = rewrite_tag(s, m[1], m[2])
    BY <2>1, TagRenamed, ShownIs, ShownNext
  <2>4. ShownBy(text', queue', f).tags = {Retagged(t, m[1], m[2]) : t \in s.tags}
    BY <1>1, <2>2, <2>3, RetagGives
  <2>5. PICK t \in s.tags : u = Retagged(t, m[1], m[2])
    BY <2>4
  <2>6. t \in Tag /\ u \in Tag
    BY <1>1, <2>2, <2>5, RetaggedUnder DEF Content
  <2>7. /\ \A j \in TagMoves : j \in D => ~ InTag(j[1], t)
        /\ \A j \in TagMoves : InTag(j[2], t) => j \in D
    BY <2>1 DEF TagsUsed
  <2>8. CASE InTag(m[1], t)
    <3>1. InTag(m[2], u)
      BY <1>1, <2>5, <2>6, <2>8, RetaggedUnder
    <3>2. ASSUME k \in E, InTag(k[1], u) PROVE FALSE
      <4>1. InTag(k[1], m[2]) \/ InTag(m[2], k[1])
        BY <1>1, <1>5, <2>6, <3>1, <3>2, InOneLine
      <4>2. CASE InTag(m[2], k[1])
        <5>1. k # m
          BY <4>2 DEF NewTags
        <5>2. k \in D
          BY <1>4, <3>2, <5>1
        <5>3. m \in D
          BY <4>2, <5>2 DEF TagsUsed
        <5> QED BY <1>3, <5>3
      <4>3. CASE InTag(k[1], m[2])
        <5>1. k[1] = m[2]
          BY <4>3 DEF NewTags
        <5>2. InTag(m[2], k[1])
          BY <1>1, <5>1, InTagOfItself
        <5> QED BY <4>2, <5>2
      <4> QED BY <4>1, <4>2, <4>3
    <3>3. ASSUME InTag(k[2], u) PROVE k \in E
      <4>1. InTag(k[2], m[2]) \/ InTag(m[2], k[2])
        BY <1>1, <1>5, <2>6, <3>1, <3>3, InOneLine
      <4>2. k = m
        BY <4>1 DEF NewTags
      <4> QED BY <1>4, <4>2
    <3> QED BY <3>2, <3>3
  <2>9. CASE ~ InTag(m[1], t)
    <3>1. u = t
      BY <1>1, <2>5, <2>6, <2>9, RetaggedUnder
    <3> QED BY <1>4, <2>7, <2>9, <3>1
  <2> QED BY <2>8, <2>9
<1>11. TagsUsed(E, text', queue')
  BY <1>7, <1>8, <1>9, <1>10 DEF TagsUsed
<1> QED BY <1>4, <1>11

(* A block that is renamed has not been before, and its id is its own.      *)
LEMMA BlockUnused ==
  ASSUME TagInv, Settled, NEW m \in BlockMoves, m[2] \in tables[m[1]].ids,
         NEW D \in SUBSET BlockMoves, IdsUsed(D, text, queue)
  PROVE  /\ NamesBlock(ShownBy(text, queue, m[1]), m[1], m[1], m[2])
         /\ m \notin D
         /\ \A r \in queue : ~ (r.kind = "block_ref" /\ r.old = m[2])
         /\ \A g, h \in Note : NamesBlock(ShownBy(text, queue, g), g, h, m[2]) => h = m[1]
<1>1. m[1] \in Note /\ m[2] \in BlockId
  BY BlockMoveTyped
<1>2. PICK f \in Note : f = m[1]
  BY <1>1
<1>3. PICK s : s = ShownBy(text, queue, f)
  OBVIOUS
<1>4. tables[f] = Extracted(s)
  BY <1>3, ShownIs DEF Settled
<1>5. m[2] \in s.ids
  BY <1>2, <1>4, ExtractedParts
<1>6. NamesBlock(s, f, f, m[2])
  BY <1>5 DEF NamesBlock
<1>7. \A j \in BlockMoves : j \in D => ~ NamesBlock(s, f, f, j[2])
  BY <1>3 DEF IdsUsed
<1>8. m \notin D
  BY <1>6, <1>7
<1>9. ASSUME NEW r \in queue, r.kind = "block_ref", r.old = m[2] PROVE FALSE
  <2>1. PICK j \in D : r.old = j[2]
    BY <1>9 DEF IdsUsed
  <2> QED BY <1>6, <1>7, <1>9, <2>1
<1>10. ASSUME NEW g \in Note, NEW h \in Note, NamesBlock(ShownBy(text, queue, g), g, h, m[2])
       PROVE  h = f
  BY <1>1, <1>3, <1>6, <1>10 DEF IdsUsed
<1> QED BY <1>2, <1>3, <1>6, <1>8, <1>9, <1>10

(* What the notes show after a block was renamed.                           *)
LEMMA BlockRenamed ==
  ASSUME TagInv, Patient, NEW m \in BlockMoves, rename_block_id(m[1], m[2], m[3])
  PROVE  /\ TagTypes' /\ SinceRename' /\ FlushedIsShown'
         /\ queue' = queue \union
              {RowFor(f, "block_ref", m[2], m[3], lastOp + 1) : f \in FilesOfBlock(m[1], m[2])}
         /\ \A g \in Note : Shown(g)' = rewrite_block_ref(Shown(g), m[2], m[3])
<1>1. m[1] \in Note /\ m[2] \in BlockId /\ m[3] \in BlockId
  BY BlockMoveTyped
<1>2. PICK files : files = FilesOfBlock(m[1], m[2])
  OBVIOUS
<1>3. /\ files \in SUBSET Note /\ Renames(files, "block_ref", m[2], m[3])
      /\ m[2] \in tables[m[1]].ids
  BY <1>1, <1>2 DEF rename_block_id, FilesOfBlock
<1>4. Settled
  BY <1>3 DEF Renames, Patient
<1>5. PICK D \in SUBSET BlockMoves : IdsUsed(D, text, queue)
  BY DEF TagInv, NamesUsed
<1>6. /\ \A r \in queue : ~ (r.kind = "block_ref" /\ r.old = m[2])
      /\ \A g, h \in Note : NamesBlock(ShownBy(text, queue, g), g, h, m[2]) => h = m[1]
  BY <1>3, <1>4, <1>5, BlockUnused
<1>7. /\ queue' = queue \union {RowFor(f, "block_ref", m[2], m[3], lastOp + 1) : f \in files}
      /\ \A f \in files :
           Shown(f)' = rewrite(Shown(f), RowFor(f, "block_ref", m[2], m[3], lastOp + 1))
      /\ \A f \in Note \ files : Shown(f)' = Shown(f)
      /\ TagTypes' /\ EarlierRows' = queue
  <2>1. PICK kind : kind = "block_ref"
    OBVIOUS
  <2>2. \/ kind = "tag" /\ m[2] \in Tag /\ m[3] \in Tag
        \/ kind = "block_ref" /\ m[2] \in BlockId /\ m[3] \in BlockId
    BY <1>1, <2>1
  <2>3. \A r \in queue : ~ (r.kind = kind /\ r.old = m[2])
    BY <1>6, <2>1
  <2>4. Renames(files, kind, m[2], m[3])
    BY <1>3, <2>1
  <2>5. /\ queue' = queue \union {RowFor(f, kind, m[2], m[3], lastOp + 1) : f \in files}
        /\ \A f \in files :
             Shown(f)' = rewrite(Shown(f), RowFor(f, kind, m[2], m[3], lastOp + 1))
        /\ \A f \in Note \ files : Shown(f)' = Shown(f)
        /\ TagTypes' /\ EarlierRows' = queue
    BY <1>3, <2>2, <2>3, <2>4, NewRows, Zenon
  <2> QED BY <2>1, <2>5
<1>8. SinceRename' /\ FlushedIsShown'
  BY <1>3, <1>7, RenameLooksBack
<1>9. ASSUME NEW g \in Note
      PROVE  Shown(g)' = rewrite_block_ref(Shown(g), m[2], m[3])
  <2>1. CASE g \in files
    <3>1. "block_ref" # "tag"
      OBVIOUS
    <3> QED BY <1>7, <2>1, <3>1 DEF rewrite, RowFor
  <2>2. CASE g \notin files
    <3>1. PICK s : s = Shown(g)
      OBVIOUS
    <3>2. s \in Content /\ s = ShownBy(text, queue, g)
      <4>1. queue \in SUBSET queue
        OBVIOUS
      <4> QED BY <3>1, <4>1, ShownIs, ShownTyped DEF TagInv
    <3>3. tables[g] = Extracted(s)
      BY <1>4, <3>1 DEF Settled
    <3>4. g # m[1] /\ <<m[1], m[2]>> \notin s.refs
      BY <1>2, <2>2, <3>3, ExtractedParts DEF FilesOfBlock
    <3>5. \A h \in Note : NamesBlock(s, g, h, m[2]) => h = m[1]
      BY <1>6, <3>2
    <3>6. m[2] \notin s.ids
      BY <3>4, <3>5 DEF NamesBlock
    <3>7. \A r \in s.refs : r[2] # m[2]
      <4>1. \A r \in s.refs : r = <<r[1], r[2]>> /\ r[1] \in Note
        BY <3>2 DEF Content
      <4> QED BY <3>4, <3>5, <4>1 DEF NamesBlock
    <3>8. rewrite_block_ref(s, m[2], m[3]) = s
      BY <1>1, <3>2, <3>6, <3>7, RenumberSame
    <3> QED BY <1>7, <2>2, <3>1, <3>8
  <2> QED BY <2>1, <2>2
<1> QED BY <1>2, <1>7, <1>8, <1>9

LEMMA BlockJoins ==
  ASSUME TagInv, Patient, NewIds, NEW m \in BlockMoves, rename_block_id(m[1], m[2], m[3]),
         NEW D \in SUBSET BlockMoves, IdsUsed(D, text, queue)
  PROVE  IdsUsed(D \union {m}, text', queue')
<1>1. m[1] \in Note /\ m[2] \in BlockId /\ m[3] \in BlockId /\ m[2] # m[3]
  BY BlockMoveTyped
<1>2. Settled /\ m[2] \in tables[m[1]].ids /\ text' = text
  BY DEF rename_block_id, Renames, Patient
<1>3. PICK E : E = D \union {m}
  OBVIOUS
<1>4. /\ NamesBlock(ShownBy(text, queue, m[1]), m[1], m[1], m[2]) /\ m \notin D
      /\ \A g, h \in Note : NamesBlock(ShownBy(text, queue, g), g, h, m[2]) => h = m[1]
  BY <1>2, BlockUnused
<1>5. ASSUME NEW g \in Note, NEW h \in Note, NEW i
      PROVE  NamesBlock(ShownBy(text', queue', g), g, h, i)
               <=> \/ i # m[2] /\ NamesBlock(ShownBy(text, queue, g), g, h, i)
                   \/ i = m[3] /\ NamesBlock(ShownBy(text, queue, g), g, h, m[2])
  <2>1. PICK s : s = ShownBy(text, queue, g)
    OBVIOUS
  <2>2. s \in Content
    <3>1. queue \in SUBSET queue
      OBVIOUS
    <3> QED BY <2>1, <3>1, ShownTyped DEF TagInv
  <2>3. PICK u : u = rewrite_block_ref(s, m[2], m[3])
    OBVIOUS
  <2>4. ShownBy(text', queue', g) = u
    BY <2>1, <2>3, BlockRenamed, ShownIs, ShownNext
  <2>5. NamesBlock(u, g, h, i)
           <=> \/ i # m[2] /\ NamesBlock(s, g, h, i)
               \/ i = m[3] /\ NamesBlock(s, g, h, m[2])
    BY <1>1, <2>2, <2>3, RenumberNames
  <2> QED BY <2>1, <2>4, <2>5
<1>6. ASSUME NEW k \in BlockMoves, m[2] = k[3] PROVE k \in D
  BY <1>1, <1>4, <1>6 DEF IdsUsed
<1>7. \A j \in E : \A k \in BlockMoves : j[2] = k[3] => k \in E
  BY <1>3, <1>6 DEF IdsUsed
<1>8. \A r \in queue' : r.kind = "block_ref" => \E j \in E : r.old = j[2] /\ r.new = j[3]
  <2>1. ASSUME NEW r \in queue', r.kind = "block_ref"
        PROVE  \E j \in E : r.old = j[2] /\ r.new = j[3]
    <3>1. r \in queue \/ (r.old = m[2] /\ r.new = m[3])
      BY BlockRenamed DEF RowFor
    <3>2. CASE r \in queue
      BY <1>3, <2>1, <3>2 DEF IdsUsed
    <3> QED BY <1>3, <3>1, <3>2
  <2> QED BY <2>1
<1>9. \A g, h \in Note : \A k \in BlockMoves :
        NamesBlock(ShownBy(text, queue, g), g, h, k[3]) \/ NamesBlock(text[g], g, h, k[3]) => k \in D
  BY DEF IdsUsed
<1>10. ASSUME NEW g \in Note, NEW h \in Note, NEW k \in BlockMoves
       PROVE  /\ k \in E => ~ NamesBlock(ShownBy(text', queue', g), g, h, k[2])
              /\ NamesBlock(ShownBy(text', queue', g), g, h, k[3])
                   \/ NamesBlock(text'[g], g, h, k[3]) => k \in E
  <2>1. ASSUME k \in E, NamesBlock(ShownBy(text', queue', g), g, h, k[2]) PROVE FALSE
    <3>1. CASE k[2] # m[2] /\ NamesBlock(ShownBy(text, queue, g), g, h, k[2])
      <4>1. k \in D
        BY <1>3, <2>1, <3>1
      <4> QED BY <3>1, <4>1 DEF IdsUsed
    <3>2. CASE k[2] = m[3]
      <4>1. k \in D
        BY <1>1, <1>3, <2>1, <3>2
      <4>2. m \in D
        BY <3>2, <4>1 DEF IdsUsed
      <4> QED BY <1>4, <4>2
    <3> QED BY <1>5, <2>1, <3>1, <3>2
  <2>2. ASSUME NamesBlock(ShownBy(text', queue', g), g, h, k[3]) PROVE k \in E
    <3>1. CASE NamesBlock(ShownBy(text, queue, g), g, h, k[3])
      BY <1>3, <1>9, <3>1
    <3>2. CASE k[3] = m[3]
      BY <1>3, <3>2 DEF NewIds
    <3> QED BY <1>5, <2>2, <3>1, <3>2
  <2>3. ASSUME NamesBlock(text'[g], g, h, k[3]) PROVE k \in E
    BY <1>2, <1>3, <1>9, <2>3
  <2> QED BY <2>1, <2>2, <2>3
<1>11. ASSUME NEW f \in Note, NEW g \in Note, NEW h \in Note, NEW k \in Note, NEW i \in BlockId,
              NamesBlock(ShownBy(text', queue', f), f, h, i),
              NamesBlock(ShownBy(text', queue', g), g, k, i)
       PROVE  h = k
  <2>1. \A e, l \in Note : ~ NamesBlock(ShownBy(text, queue, e), e, l, m[3])
    BY <1>4, <1>9
  <2>2. CASE i = m[3]
    <3>1. NamesBlock(ShownBy(text, queue, f), f, h, m[2])
      BY <1>5, <1>11, <2>1, <2>2
    <3>2. NamesBlock(ShownBy(text, queue, g), g, k, m[2])
      BY <1>5, <1>11, <2>1, <2>2
    <3> QED BY <1>4, <3>1, <3>2
  <2>3. CASE i # m[3]
    <3>1. NamesBlock(ShownBy(text, queue, f), f, h, i)
      BY <1>5, <1>11, <2>3
    <3>2. NamesBlock(ShownBy(text, queue, g), g, k, i)
      BY <1>5, <1>11, <2>3
    <3> QED BY <3>1, <3>2 DEF IdsUsed
  <2> QED BY <2>2, <2>3
<1>12. IdsUsed(E, text', queue')
  BY <1>7, <1>8, <1>10, <1>11 DEF IdsUsed
<1> QED BY <1>3, <1>12

LEMMA ShownInContent ==
  ASSUME TagInv, NEW f \in Note
  PROVE  Shown(f) \in Content /\ Shown(f).joined = InitText[f].joined
<1>1. queue \in SUBSET queue
  OBVIOUS
<1> QED BY <1>1, ShownIs, ShownTyped DEF TagInv

LEMMA RenameTagKeeps ==
  ASSUME TagInv, Patient, NewTags, NEW m \in TagMoves, rename_tag(m[1], m[2])
  PROVE  TagInv'
<1>1. m[1] \in Tag /\ m[2] \in Tag
  BY TagMoveTyped
<1>2. /\ Settled /\ FilesOfTag(m[1]) # {} /\ text' = text /\ tables' = tables
      /\ modified' = modified
      /\ meant' = [f \in Note |->
                     [meant[f] EXCEPT !.tags = {Retagged(t, m[1], m[2]) : t \in @}]]
  BY DEF rename_tag, Renames, Patient
<1>3. PICK D \in SUBSET TagMoves : TagsUsed(D, text, queue)
  BY DEF TagInv, NamesUsed
<1>4. PICK E \in SUBSET BlockMoves : IdsUsed(E, text, queue)
  BY DEF TagInv, NamesUsed
<1>5. m \notin D
  BY <1>2, <1>3, TagUnused
<1>6. /\ TagTypes' /\ SinceRename' /\ FlushedIsShown'
      /\ queue' = queue \union
           {RowFor(f, "tag", m[1], m[2], lastOp + 1) : f \in FilesOfTag(m[1])}
      /\ \A f \in Note : Shown(f)' = rewrite_tag(Shown(f), m[1], m[2])
  BY TagRenamed
<1>7. NamesUsed(text, queue)'
  <2>1. TagsUsed(D \union {m}, text', queue')
    BY <1>3, TagJoins
  <2>2. \A r \in queue' : r.kind = "block_ref" => r \in queue
    BY <1>6 DEF RowFor
  <2>3. ASSUME NEW f \in Note
        PROVE  /\ ShownBy(text', queue', f).ids = ShownBy(text, queue, f).ids
               /\ ShownBy(text', queue', f).refs = ShownBy(text, queue, f).refs
               /\ text'[f] = text[f]
    <3>1. PICK s : s = Shown(f)
      OBVIOUS
    <3>2. PICK u : u = rewrite_tag(s, m[1], m[2])
      OBVIOUS
    <3>3. s \in Content
      BY <3>1, ShownInContent
    <3>4. u.ids = s.ids /\ u.refs = s.refs
      BY <1>1, <3>2, <3>3, RetagGives
    <3> QED BY <1>2, <1>6, <3>1, <3>2, <3>4, ShownIs, ShownNext
  <2>4. PICK T : T = text'
    OBVIOUS
  <2>5. PICK Q : Q = queue'
    OBVIOUS
  <2>6. IdsUsed(E, T, Q)
    BY <1>4, <2>2, <2>3, <2>4, <2>5, IdsStill
  <2>7. NamesUsed(text', queue')
    BY <2>1, <2>4, <2>5, <2>6 DEF NamesUsed
  <2> QED BY <2>7
<1>8. ShownAsMeant'
  <2>1. ASSUME NEW f \in Note PROVE Extracted(Shown(f)') = meant'[f]
    <3>1. PICK s : s = Shown(f)
      OBVIOUS
    <3>2. PICK u : u = rewrite_tag(s, m[1], m[2])
      OBVIOUS
    <3>3. s \in Content /\ s.joined = InitText[f].joined
      BY <3>1, ShownInContent
    <3>4. /\ u.tags = {Retagged(t, m[1], m[2]) : t \in s.tags}
          /\ u.joined = s.joined /\ u.ids = s.ids /\ u.refs = s.refs
      BY <1>1, <3>2, <3>3, RetagGives
    <3>5. \A t \in UNION s.joined : Retagged(t, m[1], m[2]) = t
      <4>1. \A t \in UNION s.joined : ~ InTag(m[1], t)
        BY <3>3 DEF NewTags
      <4> QED BY <4>1 DEF Retagged
    <3>6. u.tags \union UNION u.joined
            = {Retagged(t, m[1], m[2]) : t \in s.tags \union UNION s.joined}
      BY <3>4, <3>5
    <3>7. PICK X : X = s.tags \union UNION s.joined
      OBVIOUS
    <3>8. PICK Y : Y = {Retagged(t, m[1], m[2]) : t \in X}
      OBVIOUS
    <3>9. PICK was : was = meant[f]
      OBVIOUS
    <3>10. was = [tags |-> X, ids |-> s.ids, refs |-> s.refs]
      BY <3>1, <3>7, <3>9, ExtractedParts DEF TagInv, ShownAsMeant
    <3>11. was.tags = X
      BY <3>10
    <3>12. meant'[f] = [was EXCEPT !.tags = {Retagged(t, m[1], m[2]) : t \in was.tags}]
      BY <1>2, <3>9
    <3>13. meant'[f] = [was EXCEPT !.tags = Y]
      BY <3>8, <3>11, <3>12
    <3>14. meant'[f] = [tags |-> Y, ids |-> s.ids, refs |-> s.refs]
      BY <3>10, <3>13
    <3>15. Extracted(u) = [tags |-> Y, ids |-> s.ids, refs |-> s.refs]
      <4>1. u.tags \union UNION u.joined = Y
        BY <3>6, <3>7, <3>8
      <4>2. Extracted(u) = [tags |-> u.tags \union UNION u.joined, ids |-> u.ids, refs |-> u.refs]
        BY ExtractedParts
      <4> QED BY <3>4, <4>1, <4>2
    <3> QED BY <1>6, <3>1, <3>2, <3>14, <3>15
  <2> QED BY <2>1 DEF ShownAsMeant
<1>9. TablesTrue'
  <2>1. ASSUME NEW f \in Note, Shown(f)' = text'[f]
        PROVE  tables'[f] = Extracted(text'[f])
    <3>1. PICK s : s = Shown(f)
      OBVIOUS
    <3>2. PICK u : u = rewrite_tag(s, m[1], m[2])
      OBVIOUS
    <3>3. s \in Content
      BY <3>1, ShownInContent
    <3>4. u.tags = {Retagged(t, m[1], m[2]) : t \in s.tags} /\ u = text[f]
      BY <1>1, <1>2, <1>6, <2>1, <3>1, <3>2, <3>3, RetagGives
    <3>5. ASSUME NEW t \in s.tags, InTag(m[1], t) PROVE FALSE
      <4>1. t \in Tag
        BY <3>3 DEF Content
      <4>2. InTag(m[2], Retagged(t, m[1], m[2]))
        BY <1>1, <3>5, <4>1, RetaggedUnder
      <4>3. Retagged(t, m[1], m[2]) \in text[f].tags
        BY <3>4
      <4> QED BY <1>3, <1>5, <4>2, <4>3 DEF TagsUsed
    <3>6. u = s
      BY <1>1, <3>2, <3>3, <3>5, RetagSame
    <3>7. tables[f] = Extracted(s)
      BY <1>2, <3>1 DEF Settled
    <3> QED BY <1>2, <3>4, <3>6, <3>7
  <2> QED BY <2>1 DEF TablesTrue
<1> QED BY <1>6, <1>7, <1>8, <1>9 DEF TagInv

LEMMA RenameBlockKeeps ==
  ASSUME TagInv, Patient, NewIds, NEW m \in BlockMoves, rename_block_id(m[1], m[2], m[3])
  PROVE  TagInv'
<1>1. m[1] \in Note /\ m[2] \in BlockId /\ m[3] \in BlockId
  BY BlockMoveTyped
<1>2. /\ Settled /\ m[2] \in tables[m[1]].ids /\ text' = text /\ tables' = tables
      /\ modified' = modified
      /\ meant' = [g \in Note |->
           [meant[g] EXCEPT
              !.ids = IF g = m[1] THEN {Renamed(i, m[2], m[3]) : i \in @} ELSE @,
              !.refs = {IF r = <<m[1], m[2]>> THEN <<m[1], m[3]>> ELSE r : r \in @}]]
  BY DEF rename_block_id, Renames, Patient
<1>3. PICK D \in SUBSET TagMoves : TagsUsed(D, text, queue)
  BY DEF TagInv, NamesUsed
<1>4. PICK E \in SUBSET BlockMoves : IdsUsed(E, text, queue)
  BY DEF TagInv, NamesUsed
<1>5. /\ m \notin E
      /\ \A g, h \in Note : NamesBlock(ShownBy(text, queue, g), g, h, m[2]) => h = m[1]
  BY <1>2, <1>4, BlockUnused
<1>6. /\ TagTypes' /\ SinceRename' /\ FlushedIsShown'
      /\ queue' = queue \union
           {RowFor(f, "block_ref", m[2], m[3], lastOp + 1) : f \in FilesOfBlock(m[1], m[2])}
      /\ \A g \in Note : Shown(g)' = rewrite_block_ref(Shown(g), m[2], m[3])
  BY BlockRenamed
<1>7. NamesUsed(text, queue)'
  <2>1. IdsUsed(E \union {m}, text', queue')
    BY <1>4, BlockJoins
  <2>2. \A r \in queue' : r.kind = "tag" => r \in queue
    BY <1>6 DEF RowFor
  <2>3. ASSUME NEW f \in Note
        PROVE  /\ ShownBy(text', queue', f).tags = ShownBy(text, queue, f).tags
               /\ text'[f] = text[f]
    <3>1. PICK s : s = Shown(f)
      OBVIOUS
    <3>2. PICK u : u = rewrite_block_ref(s, m[2], m[3])
      OBVIOUS
    <3>3. s \in Content
      BY <3>1, ShownInContent
    <3>4. u.tags = s.tags
      BY <1>1, <3>2, <3>3, RenumberKeeps
    <3> QED BY <1>2, <1>6, <3>1, <3>2, <3>4, ShownIs, ShownNext
  <2>4. PICK T : T = text'
    OBVIOUS
  <2>5. PICK Q : Q = queue'
    OBVIOUS
  <2>6. TagsUsed(D, T, Q)
    BY <1>3, <2>2, <2>3, <2>4, <2>5, TagsStill
  <2>7. NamesUsed(text', queue')
    BY <2>1, <2>4, <2>5, <2>6 DEF NamesUsed
  <2> QED BY <2>7
<1>8. ASSUME NEW g \in Note
      PROVE  /\ g # m[1] => m[2] \notin Shown(g).ids
             /\ \A r \in Shown(g).refs :
                  r \in Note \X BlockId /\ (r[2] = m[2] <=> r = <<m[1], m[2]>>)
  <2>1. PICK s : s = Shown(g)
    OBVIOUS
  <2>2. s \in Content
    BY <2>1, ShownInContent
  <2>3. \A h \in Note : NamesBlock(s, g, h, m[2]) => h = m[1]
    BY <1>5, <2>1, ShownIs
  <2>4. g # m[1] => m[2] \notin s.ids
    BY <2>3 DEF NamesBlock
  <2>5. \A r \in s.refs : r \in Note \X BlockId
    BY <2>2 DEF Content
  <2>6. \A r \in s.refs : r[2] = m[2] <=> r = <<m[1], m[2]>>
    BY <2>3, <2>5 DEF NamesBlock
  <2> QED BY <2>1, <2>4, <2>5, <2>6
<1>9. ShownAsMeant'
  <2>1. ASSUME NEW g \in Note PROVE Extracted(Shown(g)') = meant'[g]
    <3>1. PICK s : s = Shown(g)
      OBVIOUS
    <3>2. PICK u : u = rewrite_block_ref(s, m[2], m[3])
      OBVIOUS
    <3>3. s \in Content
      BY <3>1, ShownInContent
    <3>4. /\ u.tags = s.tags /\ u.joined = s.joined
          /\ u.ids = {Renamed(i, m[2], m[3]) : i \in s.ids}
          /\ u.refs = {<<r[1], Renamed(r[2], m[2], m[3])>> : r \in s.refs}
      <4>1. u.tags = s.tags /\ u.joined = s.joined
        BY <1>1, <3>2, <3>3, RenumberKeeps
      <4>2. u.ids = {Renamed(i, m[2], m[3]) : i \in s.ids}
        BY <1>1, <3>2, <3>3, RenumberGives
      <4>3. u.refs = {<<r[1], Renamed(r[2], m[2], m[3])>> : r \in s.refs}
        BY <1>1, <3>2, <3>3, RenumberGives
      <4> QED BY <4>1, <4>2, <4>3
    <3>5. PICK I : I = IF g = m[1] THEN {Renamed(i, m[2], m[3]) : i \in s.ids} ELSE s.ids
      OBVIOUS
    <3>6. PICK R : R = {IF r = <<m[1], m[2]>> THEN <<m[1], m[3]>> ELSE r : r \in s.refs}
      OBVIOUS
    <3>7. u.ids = I
      <4>1. g # m[1] => m[2] \notin s.ids
        BY <1>8, <3>1
      <4>2. g # m[1] => {Renamed(i, m[2], m[3]) : i \in s.ids} = s.ids
        BY <4>1 DEF Renamed
      <4> QED BY <3>4, <3>5, <4>2
    <3>8. u.refs = R
      <4>1. \A r \in s.refs :
              <<r[1], Renamed(r[2], m[2], m[3])>>
                = IF r = <<m[1], m[2]>> THEN <<m[1], m[3]>> ELSE r
        <5>1. \A r \in s.refs :
                r \in Note \X BlockId /\ (r[2] = m[2] <=> r = <<m[1], m[2]>>)
          BY <1>8, <3>1
        <5> QED BY <5>1 DEF Renamed
      <4> QED BY <3>4, <3>6, <4>1
    <3>9. meant[g] = [tags |-> s.tags \union UNION s.joined, ids |-> s.ids, refs |-> s.refs]
      BY <3>1, ExtractedParts DEF TagInv, ShownAsMeant
    <3>10. PICK was : was = meant[g]
      OBVIOUS
    <3>11. was.ids = s.ids /\ was.refs = s.refs
      BY <3>9, <3>10
    <3>12. meant'[g] =
             [was EXCEPT
                !.ids = IF g = m[1] THEN {Renamed(i, m[2], m[3]) : i \in was.ids} ELSE was.ids,
                !.refs = {IF r = <<m[1], m[2]>> THEN <<m[1], m[3]>> ELSE r : r \in was.refs}]
      BY <1>2, <3>10
    <3>13. meant'[g] = [was EXCEPT !.ids = I, !.refs = R]
      BY <3>5, <3>6, <3>11, <3>12
    <3>14. meant'[g] = [tags |-> s.tags \union UNION s.joined, ids |-> I, refs |-> R]
      <4>1. PICK half : half = [was EXCEPT !.ids = I]
        OBVIOUS
      <4>2. PICK X : X = s.tags \union UNION s.joined
        OBVIOUS
      <4>3. was = [tags |-> X, ids |-> s.ids, refs |-> s.refs]
        BY <3>9, <3>10, <4>2
      <4>4. half = [tags |-> X, ids |-> I, refs |-> s.refs]
        BY <4>1, <4>3
      <4>5. meant'[g] = [half EXCEPT !.refs = R]
        BY <3>13, <4>1
      <4> QED BY <4>2, <4>4, <4>5
    <3>15. Extracted(u) = meant'[g]
      BY <3>4, <3>7, <3>8, <3>14, ExtractedParts
    <3> QED BY <1>6, <3>1, <3>2, <3>15
  <2> QED BY <2>1 DEF ShownAsMeant
<1>10. TablesTrue'
  <2>1. ASSUME NEW g \in Note, Shown(g)' = text'[g]
        PROVE  tables'[g] = Extracted(text'[g])
    <3>1. PICK s : s = Shown(g)
      OBVIOUS
    <3>2. PICK u : u = rewrite_block_ref(s, m[2], m[3])
      OBVIOUS
    <3>3. s \in Content
      BY <3>1, ShownInContent
    <3>4. u = text[g]
      BY <1>2, <1>6, <2>1, <3>1, <3>2
    <3>5. ASSUME NEW h \in Note, NamesBlock(s, g, h, m[2]) PROVE FALSE
      <4>1. NamesBlock(u, g, h, m[3])
        BY <1>1, <3>2, <3>3, <3>5, RenumberNames
      <4> QED BY <1>4, <1>5, <3>4, <4>1 DEF IdsUsed
    <3>6. m[2] \notin s.ids
      BY <3>5 DEF NamesBlock
    <3>7. \A r \in s.refs : r[2] # m[2]
      <4>1. \A r \in s.refs : r = <<r[1], r[2]>> /\ r[1] \in Note
        BY <3>3 DEF Content
      <4> QED BY <3>5, <4>1 DEF NamesBlock
    <3>8. u = s
      BY <1>1, <3>2, <3>3, <3>6, <3>7, RenumberSame
    <3>9. tables[g] = Extracted(s)
      BY <1>2, <3>1 DEF Settled
    <3> QED BY <1>2, <3>4, <3>8, <3>9
  <2> QED BY <2>1 DEF TablesTrue
<1> QED BY <1>6, <1>7, <1>9, <1>10 DEF TagInv

-------------------------------------------------------------------------------
(* The other steps *)

LEMMA TagInvStarts == TagInit /\ NewTags /\ NewIds => TagInv
<1> SUFFICES ASSUME TagInit, NewTags, NewIds PROVE TagInv
  OBVIOUS
<1>1. /\ text = InitText /\ queue = {} /\ lastOp = 0 /\ intact = FALSE /\ flushed = {}
      /\ tables = [f \in Note |-> Extracted(InitText[f])] /\ meant = tables
  BY DEF TagInit
<1>2. \A f \in Note : RowsOf(f) = {} /\ IsFiniteSet(RowsOf(f))
  BY <1>1, FS_EmptySet DEF RowsOf
<1>3. \A f \in Note : Shown(f) = InitText[f] /\ ShownBy(text, queue, f) = InitText[f]
  BY <1>1, <1>2, RewrittenNone, ShownIs DEF Shown
<1>4. TagTypes
  <2>1. text \in [Note -> Content] /\ DOMAIN tables = Note /\ lastOp \in Nat
    BY <1>1, TextAssumption
  <2> QED BY <1>1, <1>2, <2>1 DEF TagTypes
<1>5. TagsUsed({}, text, queue)
  <2>1. \A f \in Note : \A t \in InitText[f].tags : \A m \in TagMoves : ~ InTag(m[2], t)
    BY DEF NewTags, extract_tags
  <2> QED BY <1>1, <1>3, <2>1 DEF TagsUsed
<1>6. IdsUsed({}, text, queue)
  <2>1. \A g, h \in Note : \A m \in BlockMoves :
          NamesBlock(ShownBy(text, queue, g), g, h, m[3]) \/ NamesBlock(text[g], g, h, m[3])
            => FALSE
    BY <1>1, <1>3 DEF NewIds, BlocksIn, NamesBlock
  <2>2. \A f, g, h, k \in Note : \A i \in BlockId :
          NamesBlock(ShownBy(text, queue, f), f, h, i) /\ NamesBlock(ShownBy(text, queue, g), g, k, i)
            => h = k
    BY <1>3 DEF NewIds, BlocksIn, NamesBlock
  <2> QED BY <1>1, <2>1, <2>2 DEF IdsUsed
<1>7. NamesUsed(text, queue)
  BY <1>5, <1>6 DEF NamesUsed
<1>8. SinceRename /\ FlushedIsShown
  BY <1>1 DEF SinceRename, FlushedIsShown
<1>9. TablesTrue /\ ShownAsMeant
  BY <1>1, <1>3 DEF TablesTrue, ShownAsMeant
<1> QED BY <1>4, <1>7, <1>8, <1>9 DEF TagInv

(* The rows that an undoing takes are those of the last rename.             *)
LEMMA UndoneRows ==
  ASSUME TagInv, Patient, undo_rename
  PROVE  /\ queue' = EarlierRows /\ text' = text /\ intact
         /\ \A f \in Note : /\ Shown(f)' = ShownBy(text, EarlierRows, f)
                            /\ Extracted(Shown(f))' = before[f]
<1>1. queue' = {r \in queue : r.at # lastOp} /\ text' = text /\ intact
  BY DEF undo_rename, Patient
<1>2. \A r \in queue : r.at \in Nat /\ r.at <= lastOp
  BY DEF TagInv, TagTypes, RowTyped
<1>3. lastOp \in Nat
  BY DEF TagInv, TagTypes
<1>4. queue' = EarlierRows
  BY <1>1, <1>2, <1>3 DEF EarlierRows
<1>5. \A f \in Note : Shown(f)' = ShownBy(text, EarlierRows, f)
  BY <1>1, <1>4, ShownNext
<1>6. \A f \in Note : Extracted(ShownBy(text, EarlierRows, f)) = before[f]
  BY <1>1 DEF TagInv, SinceRename
<1>7. \A f \in Note : Extracted(Shown(f))' = Extracted(Shown(f)')
  BY DEF Extracted, extract_tags
<1> QED BY <1>1, <1>4, <1>5, <1>6, <1>7

LEMMA UndoKeeps ==
  ASSUME TagInv, Patient, undo_rename
  PROVE  TagInv'
<1>1. /\ intact' = FALSE /\ meant' = before
      /\ UNCHANGED <<text, tables, modified, flushed, lastOp>>
  BY DEF undo_rename
<1>2. /\ queue' = EarlierRows /\ intact
      /\ \A f \in Note : /\ Shown(f)' = ShownBy(text, EarlierRows, f)
                         /\ Extracted(Shown(f)') = before[f]
  <2>1. \A f \in Note : Extracted(Shown(f))' = Extracted(Shown(f)')
    BY DEF Extracted, extract_tags
  <2> QED BY <2>1, UndoneRows
<1>3. /\ flushed = {} /\ NamesUsed(text, EarlierRows)
      /\ \A f \in Note : tables[f] = before[f]
  BY <1>2 DEF TagInv, SinceRename
<1>4. NamesUsed(text, queue)'
  <2>1. NamesUsed(text', queue')
    BY <1>1, <1>2, <1>3
  <2> QED BY <2>1
<1>5. TagTypes'
  <2>1. queue' \subseteq queue
    BY <1>2 DEF EarlierRows
  <2>2. \A f \in Note : IsFiniteSet(RowsOf(f)')
    <3>1. \A f \in Note : RowsOf(f)' \subseteq RowsOf(f)
      BY <2>1 DEF RowsOf
    <3> QED BY <3>1, FS_Subset DEF TagInv, TagTypes
  <2>3. \A r \in queue' : RowTyped(r) /\ r.at <= lastOp
    BY <2>1 DEF TagInv, TagTypes
  <2> QED BY <1>1, <2>2, <2>3 DEF TagInv, TagTypes
<1>6. SinceRename' /\ FlushedIsShown'
  BY <1>1, <1>3 DEF SinceRename, FlushedIsShown
<1>7. ShownAsMeant'
  BY <1>1, <1>2 DEF ShownAsMeant
<1>8. TablesTrue'
  <2>1. ASSUME NEW f \in Note, Shown(f)' = text'[f]
        PROVE  tables'[f] = Extracted(text'[f])
    BY <1>1, <1>2, <1>3, <2>1
  <2> QED BY <2>1 DEF TablesTrue
<1> QED BY <1>4, <1>5, <1>6, <1>7, <1>8 DEF TagInv

(* A step that writes a note as it is or as it is shown.                    *)
LEMMA WriteKeeps ==
  ASSUME TagInv, NEW f \in Note, NEW w \in {text[f], Shown(f)},
         text' = [text EXCEPT ![f] = w],
         UNCHANGED <<tables, queue, lastOp, meant>>, intact' = FALSE,
         \/ flushed' = flushed
         \/ flushed' = {f} /\ w = Shown(f),
         \/ modified' = modified /\ text' = text
         \/ modified' = modified \union {f}
  PROVE  TagInv'
<1>1. /\ text' \in [Note -> Content]
      /\ \A g \in Note : /\ text'[g].joined = InitText[g].joined
                         /\ text'[g] = text[g] \/ text'[g] = Shown(g)
                         /\ Shown(g)' = Shown(g)
      /\ \A g \in Note \ {f} : text'[g] = text[g]
      /\ text'[f] = w
  BY WrittenAsShown DEF TagInv
<1>2. NamesUsed(text, queue)' /\ ShownAsMeant'
  <2>1. queue' \subseteq queue
    OBVIOUS
  <2> QED BY <1>1, <2>1, ShownStill
<1>3. TagTypes'
  <2>1. \A g \in Note : RowsOf(g)' = RowsOf(g)
    BY DEF RowsOf
  <2>2. \A g \in Note : IsFiniteSet(RowsOf(g)')
    BY <2>1 DEF TagInv, TagTypes
  <2> QED BY <1>1, <2>2 DEF TagInv, TagTypes
<1>4. SinceRename'
  BY DEF SinceRename
<1>5. FlushedIsShown'
  <2>1. flushed' \subseteq Note
    BY DEF TagInv, FlushedIsShown
  <2>2. ASSUME NEW g \in flushed' PROVE Shown(g)' = text'[g]
    <3>1. CASE g = f /\ w = Shown(f)
      BY <1>1, <3>1
    <3>2. CASE g \in flushed
      <4>1. g \in Note /\ Shown(g) = text[g]
        BY <3>2 DEF TagInv, FlushedIsShown
      <4> QED BY <1>1, <4>1
    <3> QED BY <2>2, <3>1, <3>2
  <2> QED BY <2>1, <2>2 DEF FlushedIsShown
<1>6. TablesTrue'
  <2>1. ASSUME NEW g \in Note, g \notin modified', Shown(g)' = text'[g]
        PROVE  tables'[g] = Extracted(text'[g])
    <3>1. g \notin modified /\ text'[g] = text[g]
      BY <1>1, <2>1
    <3>2. Shown(g) = text[g]
      BY <1>1, <2>1, <3>1
    <3> QED BY <3>1, <3>2 DEF TagInv, TablesTrue
  <2> QED BY <2>1 DEF TablesTrue
<1> QED BY <1>2, <1>3, <1>4, <1>5, <1>6 DEF TagInv

(* A step that leaves the notes and the queue.                              *)
LEMMA NotesAlone ==
  ASSUME TagInv, UNCHANGED <<text, queue, lastOp, meant>>, DOMAIN tables' = Note,
         intact' \in BOOLEAN
  PROVE  /\ TagTypes' /\ NamesUsed(text, queue)' /\ ShownAsMeant'
         /\ \A f \in Note : Shown(f)' = Shown(f)
<1>1. \A f \in Note : RowsOf(f)' = RowsOf(f) /\ Shown(f)' = Shown(f)
  BY DEF RowsOf, Shown
<1>2. NamesUsed(text, queue)' /\ ShownAsMeant'
  <2>1. queue' \subseteq queue
    OBVIOUS
  <2> QED BY <1>1, <2>1, ShownStill
<1>3. TagTypes'
  <2>1. \A f \in Note : IsFiniteSet(RowsOf(f)')
    BY <1>1 DEF TagInv, TagTypes
  <2> QED BY <2>1 DEF TagInv, TagTypes
<1> QED BY <1>1, <1>2, <1>3

LEMMA FlushDeletesKeeps ==
  ASSUME TagInv, FlushDeletes
  PROVE  TagInv'
<1>1. /\ queue' = {r \in queue : r.file \notin flushed} /\ flushed # {} /\ flushed' = {}
      /\ UNCHANGED <<text, tables, modified, lastOp, meant, before, intact>>
  BY DEF FlushDeletes
<1>2. flushed \subseteq Note /\ \A f \in flushed : Shown(f) = text[f]
  BY DEF TagInv, FlushedIsShown
<1>3. ASSUME NEW f \in Note
      PROVE  Shown(f)' = Shown(f) /\ RowsOf(f)' \subseteq RowsOf(f)
  <2>1. CASE f \in flushed
    <3>1. RowsOf(f)' = {}
      BY <1>1, <2>1 DEF RowsOf
    <3>2. Shown(f)' = Rewritten(text[f], {})
      BY <1>1, <3>1 DEF Shown
    <3> QED BY <1>2, <2>1, <3>1, <3>2, RewrittenNone
  <2>2. CASE f \notin flushed
    <3>1. RowsOf(f)' = RowsOf(f)
      BY <1>1, <2>2 DEF RowsOf
    <3> QED BY <1>1, <3>1 DEF Shown
  <2> QED BY <2>1, <2>2
<1>4. NamesUsed(text, queue)' /\ ShownAsMeant'
  <2>1. queue' \subseteq queue /\ \A f \in Note : text'[f] = text[f]
    BY <1>1
  <2> QED BY <1>1, <1>3, <2>1, ShownStill
<1>5. TagTypes'
  <2>1. \A f \in Note : IsFiniteSet(RowsOf(f)')
    BY <1>3, FS_Subset DEF TagInv, TagTypes
  <2> QED BY <1>1, <2>1 DEF TagInv, TagTypes
<1>6. SinceRename' /\ FlushedIsShown'
  <2>1. intact' = FALSE
    BY <1>1 DEF TagInv, SinceRename, TagTypes
  <2> QED BY <1>1, <2>1 DEF SinceRename, FlushedIsShown
<1>7. TablesTrue'
  <2>1. ASSUME NEW f \in Note, f \notin modified', Shown(f)' = text'[f]
        PROVE  tables'[f] = Extracted(text'[f])
    BY <1>1, <1>3, <2>1 DEF TagInv, TablesTrue
  <2> QED BY <2>1 DEF TablesTrue
<1> QED BY <1>4, <1>5, <1>6, <1>7 DEF TagInv

LEMMA RefreshKeeps ==
  ASSUME TagInv, NEW f \in Note, refresh_watched_markdown(f)
  PROVE  TagInv'
<1>1. /\ modified' = modified \ {f} /\ intact' = FALSE
      /\ tables' = [tables EXCEPT ![f] = Extracted(Shown(f))]
      /\ UNCHANGED <<text, queue, flushed, lastOp, meant>>
  BY DEF refresh_watched_markdown
<1>2. DOMAIN tables' = Note
  BY <1>1 DEF TagInv, TagTypes
<1>3. /\ TagTypes' /\ NamesUsed(text, queue)' /\ ShownAsMeant'
      /\ \A g \in Note : Shown(g)' = Shown(g)
  BY <1>1, <1>2, NotesAlone
<1>4. SinceRename'
  BY <1>1 DEF SinceRename
<1>5. FlushedIsShown'
  BY <1>1, <1>3 DEF TagInv, FlushedIsShown
<1>6. TablesTrue'
  <2>1. ASSUME NEW g \in Note, g \notin modified', Shown(g)' = text'[g]
        PROVE  tables'[g] = Extracted(text'[g])
    <3>1. Shown(g) = text[g] /\ text' = text
      BY <1>1, <1>3, <2>1
    <3>2. CASE g = f
      <4>1. tables'[f] = Extracted(Shown(f))
        BY <1>1 DEF TagInv, TagTypes
      <4> QED BY <3>1, <3>2, <4>1
    <3>3. CASE g # f
      <4>1. tables'[g] = tables[g] /\ g \notin modified
        BY <1>1, <2>1, <3>3 DEF TagInv, TagTypes
      <4> QED BY <3>1, <4>1 DEF TagInv, TablesTrue
    <3> QED BY <3>2, <3>3
  <2> QED BY <2>1 DEF TablesTrue
<1> QED BY <1>3, <1>4, <1>5, <1>6 DEF TagInv

LEMMA CrashKeeps ==
  ASSUME TagInv, CrashAndScan
  PROVE  TagInv'
<1>1. /\ flushed' = {} /\ intact' = FALSE
      /\ tables' = [f \in Note |-> Extracted(Shown(f))]
      /\ UNCHANGED <<text, queue, lastOp, meant>>
  BY DEF CrashAndScan
<1>2. /\ TagTypes' /\ NamesUsed(text, queue)' /\ ShownAsMeant'
      /\ \A g \in Note : Shown(g)' = Shown(g)
  BY <1>1, NotesAlone
<1>3. SinceRename' /\ FlushedIsShown'
  BY <1>1 DEF SinceRename, FlushedIsShown
<1>4. TablesTrue'
  <2>1. ASSUME NEW g \in Note, Shown(g)' = text'[g]
        PROVE  tables'[g] = Extracted(text'[g])
    <3>1. tables'[g] = Extracted(Shown(g))
      BY <1>1
    <3> QED BY <1>1, <1>2, <2>1, <3>1
  <2> QED BY <2>1 DEF TablesTrue
<1> QED BY <1>2, <1>3, <1>4 DEF TagInv

(* The timer starts, or nothing happens.                                    *)
LEMMA QuietKeeps ==
  ASSUME TagInv,
         UNCHANGED <<text, tables, queue, modified, flushed, lastOp, meant, before, intact>>
  PROVE  TagInv'
<1>1. /\ TagTypes' /\ NamesUsed(text, queue)' /\ ShownAsMeant'
      /\ \A g \in Note : Shown(g)' = Shown(g)
  BY NotesAlone DEF TagInv, TagTypes
<1>2. FlushedIsShown' /\ TablesTrue'
  BY <1>1 DEF TagInv, FlushedIsShown, TablesTrue
<1>3. SinceRename'
  <2>1. ASSUME intact
        PROVE  /\ flushed' = {}
               /\ \A f \in Note : /\ tables'[f] = before'[f]
                                  /\ Extracted(ShownBy(text', EarlierRows', f)) = before'[f]
               /\ NamesUsed(text', EarlierRows')
    <3>1. /\ flushed = {}
          /\ \A f \in Note : /\ tables[f] = before[f]
                             /\ Extracted(ShownBy(text, EarlierRows, f)) = before[f]
          /\ NamesUsed(text, EarlierRows)
      BY <2>1 DEF TagInv, SinceRename
    <3>2. EarlierRows' = EarlierRows
      BY DEF EarlierRows
    <3> QED BY <3>1, <3>2
  <2> QED BY <2>1 DEF SinceRename
<1> QED BY <1>1, <1>2, <1>3 DEF TagInv

LEMMA FlushWritesKeeps ==
  ASSUME TagInv, NEW f \in Note, FlushWrites(f)
  PROVE  TagInv'
<1>1. /\ text' = [text EXCEPT ![f] = Shown(f)]
      /\ UNCHANGED <<tables, queue, lastOp, meant>> /\ intact' = FALSE
      /\ flushed' = {f}
  BY DEF FlushWrites
<1>2. (modified' = modified /\ text' = text) \/ modified' = modified \union {f}
  BY DEF FlushWrites, Announced
<1>3. PICK w : w = Shown(f)
  OBVIOUS
<1>4. w \in {text[f], Shown(f)} /\ text' = [text EXCEPT ![f] = w]
  BY <1>1, <1>3
<1> QED BY <1>1, <1>2, <1>3, <1>4, WriteKeeps

LEMMA WritesKeep ==
  ASSUME TagInv, NEW f \in Note, NEW w \in {text[f], Shown(f)}, Writes(f, w)
  PROVE  TagInv'
<1>1. /\ text' = [text EXCEPT ![f] = w]
      /\ UNCHANGED <<tables, queue, lastOp, meant, flushed>> /\ intact' = FALSE
      /\ modified' = modified \union {f}
  BY DEF Writes
<1> QED BY <1>1, WriteKeeps

(* No step of users, of the timer, of the editor, of other programs or of the
   watcher, and no crash, leaves what the invariant says. *)
LEMMA TagInvKept ==
  ASSUME TagInv, Patient, NewTags, NewIds, [TagNext]_tagVars
  PROVE  TagInv'
<1>1. ASSUME NEW m \in TagMoves, rename_tag(m[1], m[2]) PROVE TagInv'
  BY <1>1, RenameTagKeeps
<1>2. ASSUME NEW m \in BlockMoves, rename_block_id(m[1], m[2], m[3]) PROVE TagInv'
  BY <1>2, RenameBlockKeeps
<1>3. CASE undo_rename
  BY <1>3, UndoKeeps
<1>4. CASE flush_all_for_vault
  BY <1>4, QuietKeeps DEF flush_all_for_vault
<1>5. CASE FlushDeletes
  BY <1>5, FlushDeletesKeeps
<1>6. ASSUME NEW f \in Note, FlushWrites(f) PROVE TagInv'
  BY <1>6, FlushWritesKeeps
<1>7. ASSUME NEW f \in Note, write_file_text(f) PROVE TagInv'
  BY <1>7, WritesKeep DEF write_file_text
<1>8. ASSUME NEW f \in Note, ChangedByOthers(f) PROVE TagInv'
  BY <1>8, WritesKeep DEF ChangedByOthers
<1>9. ASSUME NEW f \in Note, refresh_watched_markdown(f) PROVE TagInv'
  BY <1>9, RefreshKeeps
<1>10. CASE CrashAndScan
  BY <1>10, CrashKeeps
<1>11. CASE UNCHANGED tagVars
  BY <1>11, QuietKeeps DEF tagVars
<1> QED
  BY <1>1, <1>2, <1>3, <1>4, <1>5, <1>6, <1>7, <1>8, <1>9, <1>10, <1>11 DEF TagNext

LEMMA TagInvAlways ==
  ASSUME Patient, NewTags, NewIds
  PROVE  TagSpec => []TagInv
<1>1. TagInit => TagInv
  BY TagInvStarts
<1>2. TagInv /\ [TagNext]_tagVars => TagInv'
  BY TagInvKept
<1> QED BY <1>1, <1>2, PTL DEF TagSpec

(* As ShownAsMeant says, ... *)
THEOREM NotesShowWhatWasMeant ==
  ASSUME Patient, NewTags, NewIds
  PROVE  TagSpec => []ShownAsMeant
<1>1. TagInv => ShownAsMeant
  BY DEF TagInv
<1> QED BY <1>1, TagInvAlways, PTL

THEOREM TablesAreTrue ==
  ASSUME Patient, NewTags, NewIds
  PROVE  TagSpec => []TablesFollow
<1>1. TagInv => TablesFollow
  <2> SUFFICES ASSUME TagInv, queue = {}, modified = {}, NEW f \in Note
               PROVE  tables[f] = Extracted(text[f])
    BY DEF TablesFollow
  <2>1. RowsOf(f) = {}
    BY DEF RowsOf
  <2>2. Shown(f) = text[f]
    BY <2>1, RewrittenNone DEF Shown
  <2> QED BY <2>2 DEF TagInv, TablesTrue
<1> QED BY <1>1, TagInvAlways, PTL

-------------------------------------------------------------------------------
(* Repairs: what the rows do *)

(* Of two rows of a note one came before the other.                         *)
InTurn(R) == Timed(R) /\ \A r, s \in R : r.at = s.at => r = s

LEMMA TokenStays ==
  ASSUME NEW toks, NEW R, Timed(R), NEW k, k \in toks, \A r \in R : r.old # k
  PROVE  k \in apply_pending(toks, R)
<1>1. PICK All : All = toks \union {r.new : r \in R}
  OBVIOUS
<1>2. PICK A : A = {t \in SUBSET All : k \in t}
  OBVIOUS
<1>3. toks \in A
  BY <1>1, <1>2
<1>4. \A t \in A : \A r \in R : rewrite_wiki_link(t, r) \in A
  BY <1>1, <1>2 DEF rewrite_wiki_link
<1>5. apply_pending(toks, R) \in A
  BY <1>3, <1>4, ApplyStays
<1> QED BY <1>2, <1>5

(* A token that is there when all is done is there without the rows that
   would replace it.                                                        *)
LEMMA TokenWithout ==
  ASSUME NEW toks, NEW R, InTurn(R), NEW k, k \in apply_pending(toks, R)
  PROVE  k \in apply_pending(toks, {r \in R : r.old # k})
<1> DEFINE Rest(S) == {r \in S : r.old # k}
           Bad == {S \in SUBSET R : /\ k \notin apply_pending(toks, Rest(S))
                                    /\ apply_pending(toks, S) # apply_pending(toks, Rest(S))}
<1>1. SUFFICES ASSUME Bad # {} PROVE FALSE
  OBVIOUS
<1>2. \A S \in SUBSET R : Timed(S) /\ IsFiniteSet(S)
  BY TimedParts, FS_Subset DEF Timed, InTurn
<1>3. PICK S \in Bad : \A T \in Bad : Cardinality(S) <= Cardinality(T)
  BY <1>1, <1>2, SmallestSet
<1>4. S # {}
  BY <1>3
<1>5. PICK m : m = LastRow(S)
  OBVIOUS
<1>6. m \in S /\ \A s \in S : ~RowBefore(m, s)
  BY <1>2, <1>3, <1>4, <1>5, LastExists
<1>7. PICK T : T = S \ {m}
  OBVIOUS
<1>8. T \in SUBSET R /\ T \notin Bad
  BY <1>2, <1>3, <1>6, <1>7, OneLess
<1>9. apply_pending(toks, S) = rewrite_wiki_link(apply_pending(toks, T), m)
  BY <1>2, <1>3, <1>4, <1>5, <1>7, ApplyLast
<1>10. CASE m.old = k
  <2>1. Rest(S) = Rest(T)
    BY <1>7, <1>10
  <2>2. k \notin apply_pending(toks, T) /\ apply_pending(toks, T) = apply_pending(toks, Rest(T))
    BY <1>3, <1>8, <2>1
  <2>3. apply_pending(toks, S) = apply_pending(toks, T)
    BY <1>9, <1>10, <2>2 DEF rewrite_wiki_link
  <2> QED BY <1>3, <2>1, <2>2, <2>3
<1>11. CASE m.old # k
  <2>1. PICK U : U = Rest(S)
    OBVIOUS
  <2>2. m \in U /\ U \ {m} = Rest(T) /\ U \in SUBSET S /\ U \in SUBSET R
    BY <1>3, <1>6, <1>7, <1>11, <2>1
  <2>3. LastRow(U) = m
    <3>1. LastRow(U) \in U /\ ~RowBefore(LastRow(U), m)
      BY <1>2, <2>2, LastExists
    <3>2. PICK z : z = LastRow(U)
      OBVIOUS
    <3>3. z \in R /\ m \in R /\ ~RowBefore(m, z) /\ ~RowBefore(z, m)
      BY <1>6, <2>2, <3>1, <3>2
    <3>4. z.at \in Int /\ m.at \in Int /\ z.id \in Int /\ m.id \in Int
      BY <3>3 DEF InTurn, Timed
    <3>5. z.at = m.at
      BY <3>3, <3>4 DEF RowBefore
    <3> QED BY <3>2, <3>3, <3>5 DEF InTurn
  <2>4. apply_pending(toks, U) = rewrite_wiki_link(apply_pending(toks, U \ {m}), m)
    BY <1>2, <2>2, <2>3, ApplyLast
  <2>5. k \notin apply_pending(toks, U \ {m})
    BY <1>3, <1>11, <2>1, <2>4 DEF rewrite_wiki_link
  <2>6. apply_pending(toks, T) = apply_pending(toks, U \ {m})
    BY <1>8, <2>2, <2>5
  <2> QED BY <1>3, <1>9, <2>1, <2>4, <2>6
<1> QED BY <1>10, <1>11

(* A row that is newer than the others is the last to be applied.           *)
LEMMA NewestLast ==
  ASSUME NEW toks, NEW R, NEW n, Timed(R), n.at \in Int, n.id \in Int,
         \A r \in R : r.at < n.at
  PROVE  apply_pending(toks, R \union {n}) = rewrite_wiki_link(apply_pending(toks, R), n)
<1>1. PICK S : S = R \union {n}
  OBVIOUS
<1>2. Timed(S)
  <2>1. IsFiniteSet(S)
    BY <1>1, FS_AddElement DEF Timed
  <2> QED BY <1>1, <2>1 DEF Timed
<1>3. n \notin R
  OBVIOUS
<1>4. LastRow(S) \in S /\ ~RowBefore(LastRow(S), n)
  BY <1>1, <1>2, LastExists
<1>5. LastRow(S) = n
  BY <1>1, <1>4 DEF RowBefore
<1>6. S \ {n} = R
  BY <1>1, <1>3
<1> QED BY <1>1, <1>2, <1>5, <1>6, ApplyLast

-------------------------------------------------------------------------------
(* Repairs: the invariant *)

(* Two calls never put their rows at one time, and the one that has yet to
   commit comes after them all.                                             *)
RowsInTurn ==
  /\ \A r \in pending : /\ r.at \in Nat /\ r.id \in Nat /\ r.at <= counts.repairs
                        /\ repair.pc \in {"asked", "found"} => r.at < counts.repairs
  /\ \A s \in Referrer : InTurn(PendingFor(s))

(* Records have their fields. *)
Shapes ==
  /\ tracked \in SUBSET Linked
  /\ repair = [pc |-> repair.pc, raw |-> repair.raw, to |-> repair.to, todo |-> repair.todo]
  /\ repair.todo \in SUBSET Referrer
  /\ counts = [repairs |-> counts.repairs, turns |-> counts.turns]
  /\ counts.repairs \in Nat
  /\ DOMAIN written = Referrer
  /\ \A l \in links : l.src \in Referrer /\ l = [src |-> l.src, raw |-> l.raw, to |-> l.to]
  /\ \A k \in kept : k.src \in Referrer /\ k.to \in Linked

(* No rewrite is queued for the token of a repair that counts: it does not
   matter how often the rows are applied.                                   *)
Firm == \A k \in kept : \A r \in PendingFor(k.src) : r.old # k.new

RepairInv == Shapes /\ RowsInTurn /\ Firm /\ RepairHolds

LEMMA RepairInitial ==
  ASSUME RepairInit
  PROVE  RepairInv
<1>1. \A s \in Referrer : PendingFor(s) = {}
  BY DEF RepairInit, PendingFor
<1>2. RowsInTurn
  <2>1. InTurn({})
    BY FS_EmptySet DEF InTurn, Timed
  <2> QED BY <1>1, <2>1 DEF RepairInit, RowsInTurn
<1>3. Shapes
  <2>1. \A l \in links : l.src \in Referrer /\ l = [src |-> l.src, raw |-> l.raw, to |-> l.to]
    BY DEF RepairInit, LinkRows
  <2> QED BY <2>1 DEF RepairInit, Shapes, NoRepair
<1> QED BY <1>2, <1>3 DEF RepairInit, RepairInv, Firm, RepairHolds

(* When a token leads to a note, that note is tracked. *)
LEMMA LeadsToTracked ==
  ASSUME NEW k, NEW F \in SUBSET Linked, LeadsTo(k, F) \in Linked
  PROVE  LeadsTo(k, F) \in F
<1>1. PICK exact : exact = {p \in F : Notes[p].stem = k}
  OBVIOUS
<1>2. PICK named : named = {p \in F : Fold[Notes[p].base] = Fold[k]}
  OBVIOUS
<1>3. PICK best : best = IF exact # {} THEN exact ELSE named
  OBVIOUS
<1>4. LeadsTo(k, F) = IF Cardinality(best) = 1 THEN CHOOSE p \in best : TRUE ELSE Nowhere
  BY <1>1, <1>2, <1>3 DEF LeadsTo
<1>5. Cardinality(best) = 1
  <2>1. Nowhere \notin Linked
    BY DEF Nowhere, Linked
  <2> QED BY <1>4, <2>1
<1>6. best # {}
  BY <1>5, FS_EmptySet
<1>7. best \in SUBSET F
  BY <1>1, <1>2, <1>3
<1> QED BY <1>4, <1>5, <1>6, <1>7

LEMMA NamesOfNotes ==
  ASSUME NEW p \in Linked
  PROVE  /\ Notes[p].base \in Bare
         /\ Notes[p].stem \in Bare => Notes[p].base = Notes[p].stem
         /\ \A q \in Linked : Notes[q].stem = Notes[p].stem => q = p
BY NameAssumption

LEMMA LeadsToOne ==
  ASSUME NEW k, NEW F \in SUBSET Linked, NEW p \in F,
         \/ Notes[p].stem = k /\ \A q \in F : Notes[q].stem = k => q = p
         \/ /\ \A q \in F : Notes[q].stem # k
            /\ \A q \in F : Fold[Notes[q].base] = Fold[k] <=> q = p
  PROVE  LeadsTo(k, F) = p
<1>1. PICK exact : exact = {q \in F : Notes[q].stem = k}
  OBVIOUS
<1>2. PICK named : named = {q \in F : Fold[Notes[q].base] = Fold[k]}
  OBVIOUS
<1>3. PICK best : best = IF exact # {} THEN exact ELSE named
  OBVIOUS
<1>4. LeadsTo(k, F) = IF Cardinality(best) = 1 THEN CHOOSE q \in best : TRUE ELSE Nowhere
  BY <1>1, <1>2, <1>3 DEF LeadsTo
<1>5. best = {p}
  <2>1. CASE Notes[p].stem = k /\ \A q \in F : Notes[q].stem = k => q = p
    <3>1. exact = {p}
      BY <1>1, <2>1
    <3> QED BY <1>3, <3>1
  <2>2. CASE /\ \A q \in F : Notes[q].stem # k
             /\ \A q \in F : Fold[Notes[q].base] = Fold[k] <=> q = p
    <3>1. exact = {} /\ named = {p}
      BY <1>1, <1>2, <2>2
    <3> QED BY <1>3, <3>1
  <2> QED BY <2>1, <2>2
<1>6. Cardinality({p}) = 1
  BY FS_Singleton
<1> QED BY <1>4, <1>5, <1>6

(* The token a repair writes leads to the note that was chosen. *)
LEMMA RepairLeads ==
  ASSUME Unmistaken, tracked \in SUBSET Linked
  PROVE  LeadsTo(derive_reattach_token(repair.raw, repair.to), tracked) = repair.to
<1>1. PICK p : p = repair.to
  OBVIOUS
<1>2. p \in tracked /\ p \in Linked
  BY <1>1 DEF Unmistaken
<1>3. /\ \A q \in tracked : Notes[q].stem = Notes[p].stem => q = p
      /\ \A q \in tracked : Notes[q].stem \in Bare => Notes[q].base = Notes[q].stem
      /\ Notes[p].base \in Bare
  BY <1>2, NamesOfNotes
<1>4. CASE repair.raw \in Bare /\ Notes[p].base # repair.raw
  <2>1. derive_reattach_token(repair.raw, p) = Notes[p].base
    BY <1>4 DEF derive_reattach_token
  <2>2. \A q \in tracked \ {p} : Fold[Notes[q].base] # Fold[Notes[p].base]
    BY <1>1, <1>4 DEF Unmistaken
  <2>3. \A q \in tracked : Notes[q].stem = Notes[p].base => q = p
    BY <1>3, <2>2
  <2>4. LeadsTo(Notes[p].base, tracked) = p
    <3>1. CASE Notes[p].stem = Notes[p].base
      BY <1>2, <2>3, <3>1, LeadsToOne
    <3>2. CASE Notes[p].stem # Notes[p].base
      <4>1. \A q \in tracked : Notes[q].stem # Notes[p].base
        BY <2>3, <3>2
      <4>2. \A q \in tracked : Fold[Notes[q].base] = Fold[Notes[p].base] <=> q = p
        BY <2>2
      <4> QED BY <1>2, <4>1, <4>2, LeadsToOne
    <3> QED BY <3>1, <3>2
  <2> QED BY <1>1, <2>1, <2>4
<1>5. CASE ~ (repair.raw \in Bare /\ Notes[p].base # repair.raw)
  <2>1. derive_reattach_token(repair.raw, p) = Notes[p].stem
    BY <1>5 DEF derive_reattach_token
  <2>2. LeadsTo(Notes[p].stem, tracked) = p
    BY <1>2, <1>3, LeadsToOne
  <2> QED BY <1>1, <2>1, <2>2
<1> QED BY <1>4, <1>5

-------------------------------------------------------------------------------
(* Repairs: the steps *)

LEMMA InTurnParts ==
  ASSUME NEW R, InTurn(R), NEW S \in SUBSET R
  PROVE  InTurn(S)
BY TimedParts DEF InTurn

LEMMA ShownSame ==
  ASSUME pending' = pending, written' = written
  PROVE  \A s \in Referrer : /\ PendingFor(s)' = PendingFor(s)
                             /\ MaterializedOf(s)' = MaterializedOf(s)
BY DEF PendingFor, MaterializedOf

(* A step that neither writes, queues nor indexes. *)
LEMMA OnlyCalls ==
  ASSUME RepairInv, Shapes', UNCHANGED <<tracked, written, pending, links, kept>>,
         counts.repairs <= counts'.repairs, counts'.repairs \in Nat,
         repair'.pc \in {"asked", "found"} =>
           repair.pc \in {"asked", "found"} \/ counts.repairs < counts'.repairs
  PROVE  RepairInv'
<1>1. \A s \in Referrer : PendingFor(s)' = PendingFor(s) /\ MaterializedOf(s)' = MaterializedOf(s)
  BY ShownSame
<1>2. \A k \in kept : k.src \in Referrer
  BY DEF RepairInv, Shapes
<1>3. RowsInTurn'
  <2>1. \A s \in Referrer : InTurn(PendingFor(s))'
    BY <1>1 DEF RepairInv, RowsInTurn, InTurn, Timed
  <2>2. ASSUME NEW r \in pending
        PROVE  /\ r.at \in Nat /\ r.id \in Nat /\ r.at <= counts'.repairs
               /\ repair'.pc \in {"asked", "found"} => r.at < counts'.repairs
    <3>1. r.at \in Nat /\ r.id \in Nat /\ r.at <= counts.repairs /\ counts.repairs \in Nat
      BY DEF RepairInv, RowsInTurn, Shapes
    <3>2. repair.pc \in {"asked", "found"} => r.at < counts.repairs
      BY DEF RepairInv, RowsInTurn
    <3> QED BY <3>1, <3>2
  <2> QED BY <2>1, <2>2 DEF RowsInTurn
<1>4. Firm'
  BY <1>1, <1>2 DEF RepairInv, Firm
<1>5. RepairHolds'
  BY <1>1, <1>2 DEF RepairInv, RepairHolds
<1> QED BY <1>3, <1>4, <1>5 DEF RepairInv

LEMMA ReattachKeeps ==
  ASSUME RepairInv, reattach
  PROVE  RepairInv'
<1>1. /\ counts'.repairs = counts.repairs + 1
      /\ counts' = [repairs |-> counts'.repairs, turns |-> counts'.turns]
  BY DEF RepairInv, Shapes, reattach
<1>2. /\ repair' = [pc |-> repair'.pc, raw |-> repair'.raw, to |-> repair'.to,
                    todo |-> repair'.todo]
      /\ repair'.todo = {}
  <2>1. PICK g, p : repair' = [NoRepair EXCEPT !.pc = "asked", !.raw = g.raw, !.to = p]
    BY DEF reattach
  <2> QED BY <2>1 DEF NoRepair
<1>3. counts.repairs \in Nat
  BY DEF RepairInv, Shapes
<1>4. Shapes'
  BY <1>1, <1>2, <1>3 DEF RepairInv, Shapes, reattach
<1> QED BY <1>1, <1>3, <1>4, OnlyCalls DEF reattach

LEMMA FoundKeeps ==
  ASSUME RepairInv, dangling_referrers
  PROVE  RepairInv'
<1>1. PICK S : S = {l.src : l \in {d \in Dangling : d.raw = repair.raw}}
  OBVIOUS
<1>2. S \in SUBSET Referrer
  BY <1>1 DEF RepairInv, Shapes, Dangling
<1>3. /\ repair.pc = "asked"
      /\ repair' = NoRepair \/ repair' = [repair EXCEPT !.pc = "found", !.todo = S]
  BY <1>1 DEF dangling_referrers
<1>4. /\ repair' = [pc |-> repair'.pc, raw |-> repair'.raw, to |-> repair'.to,
                    todo |-> repair'.todo]
      /\ repair'.todo \in SUBSET Referrer
  <2>1. CASE repair' = NoRepair
    BY <2>1 DEF NoRepair
  <2>2. CASE repair' = [repair EXCEPT !.pc = "found", !.todo = S]
    BY <1>2, <2>2 DEF RepairInv, Shapes
  <2> QED BY <1>3, <2>1, <2>2
<1>5. Shapes' /\ counts.repairs \in Nat /\ counts' = counts
  BY <1>4 DEF RepairInv, Shapes, dangling_referrers
<1> QED BY <1>3, <1>5, OnlyCalls DEF dangling_referrers

LEMMA CallEnds ==
  ASSUME RepairInv, RepairRefused \/ RepairEnds
  PROVE  RepairInv'
<1>1. /\ repair' = NoRepair /\ counts' = counts
      /\ UNCHANGED <<tracked, written, pending, links, kept>>
  BY DEF RepairRefused, RepairEnds
<1>2. Shapes' /\ counts.repairs \in Nat /\ repair'.pc = "idle"
  BY <1>1 DEF RepairInv, Shapes, NoRepair
<1> QED BY <1>1, <1>2, OnlyCalls

(* The rows of a note go into it, or it is written and they stay. *)
LEMMA FlushKeeps ==
  ASSUME RepairInv, Shapes', NEW s \in Referrer,
         written' \in {written, [written EXCEPT ![s] = MaterializedOf(s)]},
         pending' = pending \/ FlushPending(s),
         UNCHANGED <<tracked, links, kept, counts>>,
         repair'.pc \in {"asked", "found"} => repair.pc \in {"asked", "found"}
  PROVE  RepairInv'
<1>1. pending' \in SUBSET pending /\ \A t \in Referrer : PendingFor(t)' \in SUBSET PendingFor(t)
  BY DEF FlushPending, PendingFor
<1>2. RowsInTurn'
  <2>1. \A t \in Referrer : InTurn(PendingFor(t))'
    <3> SUFFICES ASSUME NEW t \in Referrer PROVE InTurn(PendingFor(t))'
      OBVIOUS
    <3>1. PICK R : R = PendingFor(t)'
      OBVIOUS
    <3>2. InTurn(R)
      BY <1>1, <3>1, InTurnParts DEF RepairInv, RowsInTurn
    <3> QED BY <3>1, <3>2 DEF InTurn, Timed
  <2> QED BY <1>1, <2>1 DEF RepairInv, RowsInTurn
<1>3. Firm'
  BY <1>1 DEF RepairInv, Firm, Shapes
<1>4. ASSUME NEW k \in kept PROVE k.new \in MaterializedOf(k.src)'
  <2>1. k.src \in Referrer /\ k.new \in MaterializedOf(k.src)
    BY DEF RepairInv, Shapes, RepairHolds
  <2>2. PICK R : R = PendingFor(k.src)'
    OBVIOUS
  <2>3. R \in SUBSET PendingFor(k.src) /\ Timed(R) /\ \A r \in R : r.old # k.new
    BY <1>1, <2>1, <2>2, TimedParts DEF RepairInv, RowsInTurn, InTurn, Firm
  <2>4. PICK toks : toks = written'[k.src]
    OBVIOUS
  <2>5. CASE toks = MaterializedOf(k.src)
    <3>1. k.new \in apply_pending(toks, R)
      BY <2>1, <2>3, <2>5, TokenStays
    <3> QED BY <2>2, <2>4, <3>1 DEF MaterializedOf
  <2>6. CASE toks # MaterializedOf(k.src)
    <3>1. k.src # s \/ written' = written
      BY <2>4, <2>6 DEF RepairInv, Shapes
    <3>2. toks = written[k.src]
      BY <2>1, <2>4, <3>1 DEF RepairInv, Shapes
    <3>3. R = PendingFor(k.src)
      <4>1. CASE k.src # s
        BY <2>2, <4>1 DEF FlushPending, PendingFor
      <4>2. CASE k.src = s
        <5>1. written' = written
          BY <3>1, <4>2
        <5>2. ~ FlushPending(s)
          BY <2>4, <2>6, <4>2 DEF FlushPending, RepairInv, Shapes
        <5>3. pending' = pending
          BY <5>1, <5>2
        <5> QED BY <2>2, <5>3 DEF PendingFor
      <4> QED BY <4>1, <4>2
    <3>4. apply_pending(toks, R) = MaterializedOf(k.src)
      BY <3>2, <3>3 DEF MaterializedOf
    <3> QED BY <2>1, <2>2, <2>4, <3>4 DEF MaterializedOf
  <2> QED BY <2>5, <2>6
<1>5. RepairHolds'
  BY <1>4 DEF RepairInv, RepairHolds
<1> QED BY <1>2, <1>3, <1>5 DEF RepairInv

(* The repair itself. *)

LEMMA CommitRows ==
  ASSUME RepairInv, CommitRepair, NEW s \in Referrer
  PROVE  /\ s \notin repair.todo => PendingFor(s)' = PendingFor(s)
         /\ s \in repair.todo =>
              LET new == derive_reattach_token(repair.raw, repair.to)
              IN PendingFor(s)' = OtherRows(s) \union
                   (IF repair.raw = new THEN {}
                    ELSE {[target |-> s, old |-> repair.raw, new |-> new,
                           at |-> counts.repairs, id |-> counts.repairs]})
<1>1. PICK new : new = derive_reattach_token(repair.raw, repair.to)
  OBVIOUS
<1>2. pending' = Coalesced(repair.todo, repair.raw, new, counts.repairs)
  BY <1>1 DEF CommitRepair
<1>3. PICK N : N = IF repair.raw = new THEN {}
                   ELSE {[target |-> t, old |-> repair.raw, new |-> new,
                          at |-> counts.repairs, id |-> counts.repairs] : t \in repair.todo}
  OBVIOUS
<1>4. pending' = {r \in pending : ~ (r.target \in repair.todo /\ r.old = repair.raw)} \union N
  BY <1>2, <1>3 DEF Coalesced
<1>5. PendingFor(s)' = {r \in {q \in pending : ~ (q.target \in repair.todo /\ q.old = repair.raw)} :
                          r.target = s} \union {r \in N : r.target = s}
  BY <1>4 DEF PendingFor
<1>6. CASE s \notin repair.todo
  <2>1. {r \in N : r.target = s} = {}
    BY <1>3, <1>6
  <2>2. PendingFor(s)' = PendingFor(s)
    BY <1>5, <1>6, <2>1 DEF PendingFor
  <2> QED BY <1>6, <2>2
<1>7. CASE s \in repair.todo
  <2>1. PICK M : M = IF repair.raw = new THEN {}
                     ELSE {[target |-> s, old |-> repair.raw, new |-> new,
                            at |-> counts.repairs, id |-> counts.repairs]}
    OBVIOUS
  <2>2. {r \in N : r.target = s} = M
    BY <1>3, <1>7, <2>1
  <2>3. {r \in {q \in pending : ~ (q.target \in repair.todo /\ q.old = repair.raw)} : r.target = s}
          = OtherRows(s)
    BY <1>7 DEF OtherRows, PendingFor
  <2>4. PendingFor(s)' = OtherRows(s) \union M
    BY <1>5, <2>2, <2>3
  <2> QED BY <1>1, <1>7, <2>1, <2>4
<1> QED BY <1>6, <1>7

(* A note of the repair shows what the other rows give, with the token replaced. *)
LEMMA CommitShows ==
  ASSUME RepairInv, CommitRepair, NEW s \in repair.todo, NEW new, NEW others,
         new = derive_reattach_token(repair.raw, repair.to),
         others = apply_pending(written[s], OtherRows(s))
  PROVE  /\ InTurn(PendingFor(s)')
         /\ repair.raw \in others => new \in MaterializedOf(s)'
         /\ \A k \in others : k # repair.raw => k \in MaterializedOf(s)'
         /\ \A r \in PendingFor(s)' : r \in OtherRows(s) \/ (r.old = repair.raw /\ new # repair.raw)
<1>1. s \in Referrer /\ counts.repairs \in Nat /\ repair.pc = "found" /\ written' = written
  BY DEF RepairInv, Shapes, CommitRepair
<1>2. PICK n : n = [target |-> s, old |-> repair.raw, new |-> new,
                    at |-> counts.repairs, id |-> counts.repairs]
  OBVIOUS
<1>3. n.old = repair.raw /\ n.new = new /\ n.at = counts.repairs /\ n.id = counts.repairs
  BY <1>2
<1>4. PICK R : R = PendingFor(s)'
  OBVIOUS
<1>5. R = OtherRows(s) \union (IF repair.raw = new THEN {} ELSE {n})
  BY <1>1, <1>2, <1>4, CommitRows
<1>6. OtherRows(s) \in SUBSET PendingFor(s) /\ PendingFor(s) \in SUBSET pending
  BY DEF OtherRows, PendingFor
<1>7. InTurn(OtherRows(s)) /\ Timed(OtherRows(s))
  <2>1. InTurn(PendingFor(s))
    BY <1>1 DEF RepairInv, RowsInTurn
  <2>2. InTurn(OtherRows(s))
    BY <1>6, <2>1, InTurnParts
  <2> QED BY <2>2 DEF InTurn
<1>8. \A r \in OtherRows(s) : r.at \in Nat /\ r.at < counts.repairs
  BY <1>1, <1>6 DEF RepairInv, RowsInTurn
<1>9. MaterializedOf(s)' = apply_pending(written[s], R)
  BY <1>1, <1>4 DEF MaterializedOf
<1>10. CASE repair.raw = new
  <2>1. R = OtherRows(s)
    BY <1>5, <1>10
  <2>2. MaterializedOf(s)' = others
    BY <1>9, <2>1
  <2> QED BY <1>4, <1>7, <1>10, <2>1, <2>2
<1>11. CASE repair.raw # new
  <2>1. R = OtherRows(s) \union {n}
    BY <1>5, <1>11
  <2>2. InTurn(R)
    <3>1. IsFiniteSet(R)
      BY <1>7, <2>1, FS_AddElement DEF Timed
    <3>2. Timed(R)
      BY <1>1, <1>3, <1>7, <2>1, <3>1 DEF Timed
    <3> QED BY <1>1, <1>3, <1>7, <1>8, <2>1, <3>2 DEF InTurn
  <2>3. apply_pending(written[s], R) = rewrite_wiki_link(others, n)
    BY <1>1, <1>3, <1>7, <1>8, <2>1, NewestLast
  <2>4. MaterializedOf(s)' = rewrite_wiki_link(others, n)
    BY <1>9, <2>3
  <2>5. /\ repair.raw \in others => new \in MaterializedOf(s)'
        /\ \A k \in others : k # repair.raw => k \in MaterializedOf(s)'
    BY <1>3, <2>4 DEF rewrite_wiki_link
  <2>6. \A r \in R : r \in OtherRows(s) \/ (r.old = repair.raw /\ new # repair.raw)
    BY <1>3, <1>11, <2>1
  <2> QED BY <1>4, <2>2, <2>5, <2>6
<1> QED BY <1>10, <1>11

LEMMA CommitLinks ==
  ASSUME RepairInv, CommitRepair, NEW mine, mine = {l \in Dangling : l.raw = repair.raw}
  PROVE  /\ links' = (links \ mine) \union {[l EXCEPT !.to = repair.to] : l \in mine}
         /\ \A l \in links' : l.src \in Referrer /\ l = [src |-> l.src, raw |-> l.raw, to |-> l.to]
         /\ \A l \in mine : \E n \in links' : n.src = l.src /\ n.to = repair.to
         /\ \A l \in links : l.to \in tracked => l \in links'
<1>1. links' = (links \ mine) \union {[l EXCEPT !.to = repair.to] : l \in mine}
  BY DEF CommitRepair
<1>2. mine \in SUBSET links /\ \A l \in mine : l.to \notin tracked
  BY DEF Dangling
<1>3. ASSUME NEW l \in mine
      PROVE  /\ [l EXCEPT !.to = repair.to]
                  = [src |-> l.src, raw |-> l.raw, to |-> repair.to]
             /\ l.src \in Referrer
  BY <1>2 DEF RepairInv, Shapes
<1>4. \A l \in links \ mine : l.src \in Referrer /\ l = [src |-> l.src, raw |-> l.raw, to |-> l.to]
  BY DEF RepairInv, Shapes
<1>5. ASSUME NEW n \in links', n \notin links \ mine
      PROVE  n.src \in Referrer /\ n = [src |-> n.src, raw |-> n.raw, to |-> n.to]
  <2>1. PICK l \in mine : n = [l EXCEPT !.to = repair.to]
    BY <1>1, <1>5
  <2>2. n = [src |-> l.src, raw |-> l.raw, to |-> repair.to] /\ l.src \in Referrer
    BY <1>3, <2>1
  <2> QED BY <2>2
<1>6. ASSUME NEW l \in mine PROVE \E n \in links' : n.src = l.src /\ n.to = repair.to
  <2>1. PICK n : n = [l EXCEPT !.to = repair.to]
    OBVIOUS
  <2>2. n \in links'
    BY <1>1, <2>1
  <2>3. n.src = l.src /\ n.to = repair.to
    BY <1>3, <2>1
  <2> QED BY <2>2, <2>3
<1>7. \A l \in links : l.to \in tracked => l \in links'
  BY <1>1, <1>2
<1> QED BY <1>1, <1>4, <1>5, <1>6, <1>7

LEMMA CommitKeeps ==
  ASSUME RepairInv, CommitRepair
  PROVE  RepairInv'
<1>1. PICK new : new = derive_reattach_token(repair.raw, repair.to)
  OBVIOUS
<1>2. PICK mine : mine = {l \in Dangling : l.raw = repair.raw}
  OBVIOUS
<1>3. PICK had : had = {s \in repair.todo : /\ repair.raw \in MaterializedOf(s)
                                            /\ \E l \in mine : l.src = s
                                            /\ \A r \in OtherRows(s) : r.old # new}
  OBVIOUS
<1>4. /\ repair.pc = "found" /\ repair' = [repair EXCEPT !.pc = "flush"]
      /\ written' = written /\ tracked' = tracked /\ counts' = counts
      /\ kept' = Outlived \union
           {k \in [src : had, new : {new}, to : {repair.to}] : Unmistaken}
  BY <1>1, <1>2, <1>3 DEF CommitRepair
<1>5. repair.todo \in SUBSET Referrer /\ counts.repairs \in Nat /\ tracked \in SUBSET Linked
  BY DEF RepairInv, Shapes
<1>6. \A k \in kept : k.src \in Referrer /\ k.to \in Linked
  BY DEF RepairInv, Shapes
<1>7. \A k \in kept' \ Outlived :
        k.src \in had /\ k.new = new /\ k.to = repair.to /\ Unmistaken
  BY <1>4
<1>8. Outlived \in SUBSET kept
  BY DEF Outlived
<1>9. Shapes'
  <2>1. \A k \in kept' : k.src \in Referrer /\ k.to \in Linked
    BY <1>3, <1>5, <1>6, <1>7, <1>8 DEF Unmistaken
  <2>2. \A l \in links' : l.src \in Referrer /\ l = [src |-> l.src, raw |-> l.raw, to |-> l.to]
    BY <1>2, CommitLinks
  <2>3. /\ repair' = [pc |-> repair'.pc, raw |-> repair'.raw, to |-> repair'.to,
                      todo |-> repair'.todo]
        /\ repair'.todo \in SUBSET Referrer
    BY <1>4 DEF RepairInv, Shapes
  <2> QED BY <1>4, <2>1, <2>2, <2>3 DEF RepairInv, Shapes
<1>10. RowsInTurn'
  <2>1. ASSUME NEW s \in Referrer PROVE InTurn(PendingFor(s)')
    <3>1. CASE s \in repair.todo
      BY <1>1, <3>1, CommitShows
    <3>2. CASE s \notin repair.todo
      BY <3>2, CommitRows DEF RepairInv, RowsInTurn
    <3> QED BY <3>1, <3>2
  <2>2. \A s \in Referrer : InTurn(PendingFor(s))'
    <3> SUFFICES ASSUME NEW s \in Referrer PROVE InTurn(PendingFor(s))'
      OBVIOUS
    <3>1. PICK R : R = PendingFor(s)'
      OBVIOUS
    <3>2. InTurn(R)
      BY <2>1, <3>1
    <3> QED BY <3>1, <3>2 DEF InTurn, Timed
  <2>3. ASSUME NEW r \in pending'
        PROVE  r.at \in Nat /\ r.id \in Nat /\ r.at <= counts.repairs
    <3>1. CASE r \in pending
      BY <3>1 DEF RepairInv, RowsInTurn
    <3>2. CASE r \notin pending
      <4>1. PICK s \in repair.todo :
              r = [target |-> s, old |-> repair.raw, new |-> new,
                   at |-> counts.repairs, id |-> counts.repairs]
        BY <1>1, <3>2 DEF CommitRepair, Coalesced
      <4>2. r.at = counts.repairs /\ r.id = counts.repairs
        BY <4>1
      <4> QED BY <1>5, <4>2
    <3> QED BY <3>1, <3>2
  <2>4. repair'.pc = "flush"
    BY <1>4 DEF RepairInv, Shapes
  <2>5. counts' = counts
    BY <1>4
  <2> QED BY <2>2, <2>3, <2>4, <2>5 DEF RowsInTurn
<1>11. ASSUME NEW k \in Outlived
       PROVE  /\ k.new \in MaterializedOf(k.src)'
              /\ \A r \in PendingFor(k.src)' : r.old # k.new
  <2>1. /\ k \in kept /\ k.src \in Referrer /\ k.new \in MaterializedOf(k.src)
        /\ \A r \in PendingFor(k.src) : r.old # k.new
    BY <1>6, <1>8 DEF RepairInv, RepairHolds, Firm
  <2>2. CASE k.src \in repair.todo
    <3>1. PICK others : others = apply_pending(written[k.src], OtherRows(k.src))
      OBVIOUS
    <3>2. k.new # repair.raw /\ k.new \in others
      BY <2>2, <3>1 DEF Outlived
    <3>3. k.new \in MaterializedOf(k.src)'
      BY <1>1, <2>2, <3>1, <3>2, CommitShows
    <3>4. \A r \in PendingFor(k.src)' : r \in OtherRows(k.src) \/ r.old = repair.raw
      BY <1>1, <2>2, <3>1, CommitShows
    <3>5. \A r \in PendingFor(k.src)' : r.old # k.new
      BY <2>1, <3>2, <3>4 DEF OtherRows
    <3> QED BY <3>3, <3>5
  <2>3. CASE k.src \notin repair.todo
    <3>1. PendingFor(k.src)' = PendingFor(k.src)
      BY <2>1, <2>3, CommitRows
    <3>2. MaterializedOf(k.src)' = MaterializedOf(k.src)
      BY <1>4, <3>1 DEF MaterializedOf
    <3> QED BY <2>1, <3>1, <3>2
  <2> QED BY <2>2, <2>3
<1>12. ASSUME NEW s \in had
       PROVE  /\ new \in MaterializedOf(s)'
              /\ \A r \in PendingFor(s)' : r.old # new
  <2>1. /\ s \in repair.todo /\ repair.raw \in MaterializedOf(s)
        /\ \A r \in OtherRows(s) : r.old # new
    BY <1>3
  <2>2. PICK others : others = apply_pending(written[s], OtherRows(s))
    OBVIOUS
  <2>3. PICK R : R = PendingFor(s)
    OBVIOUS
  <2>4. InTurn(R) /\ repair.raw \in apply_pending(written[s], R)
    BY <1>5, <2>1, <2>3 DEF RepairInv, RowsInTurn, MaterializedOf
  <2>5. OtherRows(s) = {r \in R : r.old # repair.raw}
    BY <2>3 DEF OtherRows
  <2>6. repair.raw \in others
    BY <2>2, <2>4, <2>5, TokenWithout
  <2>7. new \in MaterializedOf(s)'
    BY <1>1, <2>1, <2>2, <2>6, CommitShows
  <2>8. \A r \in PendingFor(s)' : r \in OtherRows(s) \/ (r.old = repair.raw /\ new # repair.raw)
    BY <1>1, <2>1, <2>2, CommitShows
  <2> QED BY <2>1, <2>7, <2>8
<1>13. Firm'
  BY <1>7, <1>11, <1>12 DEF Firm
<1>14. ASSUME NEW k \in kept'
       PROVE  /\ k.new \in MaterializedOf(k.src)' /\ LeadsTo(k.new, tracked) = k.to
              /\ \E l \in links' : l.src = k.src /\ l.to = k.to
  <2>1. CASE k \in Outlived
    <3>1. /\ LeadsTo(k.new, tracked) = k.to /\ k.to \in Linked
          /\ \E l \in links : l.src = k.src /\ l.to = k.to
      BY <1>6, <1>8, <2>1 DEF RepairInv, RepairHolds
    <3>2. k.to \in tracked
      BY <1>5, <3>1, LeadsToTracked
    <3>3. \E l \in links' : l.src = k.src /\ l.to = k.to
      BY <1>2, <3>1, <3>2, CommitLinks
    <3> QED BY <1>11, <2>1, <3>1, <3>3
  <2>2. CASE k \notin Outlived
    <3>1. k.src \in had /\ k.new = new /\ k.to = repair.to /\ Unmistaken
      BY <1>7, <2>2
    <3>2. LeadsTo(k.new, tracked) = k.to
      BY <1>1, <1>5, <3>1, RepairLeads
    <3>3. PICK l \in mine : l.src = k.src
      BY <1>3, <3>1
    <3>4. \E n \in links' : n.src = k.src /\ n.to = k.to
      BY <1>2, <3>1, <3>3, CommitLinks
    <3> QED BY <1>12, <3>1, <3>2, <3>4
  <2> QED BY <2>1, <2>2
<1>15. RepairHolds'
  BY <1>4, <1>14 DEF RepairHolds
<1> QED BY <1>9, <1>10, <1>13, <1>15 DEF RepairInv

(* The watcher indexes what the note shows. *)
LEMMA ReindexKeeps ==
  ASSUME RepairInv, NEW s \in Referrer, refresh_links(s)
  PROVE  RepairInv'
<1>1. PICK L : L = LinkRows(s, MaterializedOf(s), tracked)
  OBVIOUS
<1>2. /\ links' = {l \in links : l.src # s} \union L
      /\ UNCHANGED <<tracked, written, pending, repair, kept, counts>>
  BY <1>1 DEF refresh_links
<1>3. \A l \in L : l.src \in Referrer /\ l = [src |-> l.src, raw |-> l.raw, to |-> l.to]
  BY <1>1 DEF LinkRows
<1>4. Shapes'
  <2>1. \A l \in links' : l.src \in Referrer /\ l = [src |-> l.src, raw |-> l.raw, to |-> l.to]
    BY <1>2, <1>3 DEF RepairInv, Shapes
  <2> QED BY <1>2, <2>1 DEF RepairInv, Shapes
<1>5. \A t \in Referrer : PendingFor(t)' = PendingFor(t) /\ MaterializedOf(t)' = MaterializedOf(t)
  BY <1>2, ShownSame
<1>6. RowsInTurn'
  <2>1. \A t \in Referrer : InTurn(PendingFor(t))'
    BY <1>5 DEF RepairInv, RowsInTurn, InTurn, Timed
  <2> QED BY <1>2, <2>1 DEF RepairInv, RowsInTurn
<1>7. Firm'
  BY <1>2, <1>5 DEF RepairInv, Shapes, Firm
<1>8. ASSUME NEW k \in kept
      PROVE  \E l \in links' : l.src = k.src /\ l.to = k.to
  <2>1. /\ k.new \in MaterializedOf(k.src) /\ LeadsTo(k.new, tracked) = k.to
        /\ \E l \in links : l.src = k.src /\ l.to = k.to
    BY DEF RepairInv, RepairHolds
  <2>2. CASE k.src # s
    BY <1>2, <2>1, <2>2
  <2>3. CASE k.src = s
    <3>1. PICK n : n = [src |-> s, raw |-> k.new, to |-> LeadsTo(k.new, tracked)]
      OBVIOUS
    <3>2. n \in L
      BY <1>1, <2>1, <2>3, <3>1 DEF LinkRows
    <3> QED BY <1>2, <2>1, <2>3, <3>1, <3>2
  <2> QED BY <2>2, <2>3
<1>9. RepairHolds'
  BY <1>2, <1>5, <1>8 DEF RepairInv, Shapes, RepairHolds
<1> QED BY <1>4, <1>6, <1>7, <1>9 DEF RepairInv

(* Notes come and go and are written by others: what no longer counts is dropped. *)
LEMMA TurnKeeps ==
  ASSUME RepairInv, tracked' \in SUBSET Linked, DOMAIN written' = Referrer,
         counts' = [counts EXCEPT !.turns = @ + 1],
         kept' = StillKept(tracked', written'),
         UNCHANGED <<pending, links, repair>>
  PROVE  RepairInv'
<1>1. kept' \in SUBSET kept
  BY DEF StillKept
<1>2. counts'.repairs = counts.repairs
      /\ counts' = [repairs |-> counts'.repairs, turns |-> counts'.turns]
  BY DEF RepairInv, Shapes
<1>3. Shapes'
  BY <1>1, <1>2 DEF RepairInv, Shapes
<1>4. \A t \in Referrer : PendingFor(t)' = PendingFor(t)
  BY DEF PendingFor
<1>5. RowsInTurn'
  <2>1. \A t \in Referrer : InTurn(PendingFor(t))'
    BY <1>4 DEF RepairInv, RowsInTurn, InTurn, Timed
  <2> QED BY <1>2, <2>1 DEF RepairInv, RowsInTurn
<1>6. Firm'
  BY <1>1, <1>4 DEF RepairInv, Shapes, Firm
<1>7. ASSUME NEW k \in kept'
      PROVE  /\ k.new \in MaterializedOf(k.src)' /\ LeadsTo(k.new, tracked') = k.to
             /\ \E l \in links : l.src = k.src /\ l.to = k.to
  <2>1. /\ k.new \in apply_pending(written'[k.src], PendingFor(k.src))
        /\ LeadsTo(k.new, tracked') = k.to /\ k \in kept /\ k.src \in Referrer
    BY <1>1 DEF StillKept, RepairInv, Shapes
  <2>2. k.new \in MaterializedOf(k.src)'
    BY <1>4, <2>1 DEF MaterializedOf
  <2> QED BY <2>1, <2>2 DEF RepairInv, RepairHolds
<1>8. RepairHolds'
  BY <1>7 DEF RepairHolds
<1> QED BY <1>3, <1>5, <1>6, <1>8 DEF RepairInv

LEMMA RepairStep ==
  ASSUME RepairInv, [RepairNext]_repairVars
  PROVE  RepairInv'
<1>1. CASE UNCHANGED repairVars
  <2>1. Shapes' /\ counts.repairs \in Nat
    BY <1>1 DEF repairVars, RepairInv, Shapes
  <2> QED BY <1>1, <2>1, OnlyCalls DEF repairVars
<1>2. CASE accumulate_groups \/ list_dangling_links
  <2>1. UNCHANGED <<tracked, written, pending, links, repair, kept, counts>>
    BY <1>2 DEF accumulate_groups, list_dangling_links
  <2>2. Shapes' /\ counts.repairs \in Nat
    BY <2>1 DEF RepairInv, Shapes
  <2> QED BY <2>1, <2>2, OnlyCalls
<1>3. CASE reattach
  BY <1>3, ReattachKeeps
<1>4. CASE dangling_referrers
  BY <1>4, FoundKeeps
<1>5. CASE RepairRefused \/ RepairEnds
  BY <1>5, CallEnds
<1>6. CASE CommitRepair
  BY <1>6, CommitKeeps
<1>7. ASSUME NEW s \in Referrer, FlushReferrer(s)
      PROVE  RepairInv'
  <2>1. /\ repair.pc = "flush" /\ FlushPending(s)
        /\ repair' = [repair EXCEPT !.todo = @ \ {s}]
        /\ UNCHANGED <<tracked, links, kept, counts>>
    BY <1>7 DEF FlushReferrer
  <2>2. /\ repair' = [pc |-> repair'.pc, raw |-> repair'.raw, to |-> repair'.to,
                      todo |-> repair'.todo]
        /\ repair'.todo \in SUBSET Referrer /\ repair'.pc = "flush"
    BY <2>1 DEF RepairInv, Shapes
  <2>3. Shapes'
    BY <2>1, <2>2 DEF RepairInv, Shapes, FlushPending
  <2> QED BY <2>1, <2>2, <2>3, FlushKeeps DEF FlushPending
<1>8. ASSUME NEW s \in Referrer, RepairFails(s)
      PROVE  RepairInv'
  <2>1. /\ repair' = NoRepair /\ pending' = pending
        /\ written' \in {written, [written EXCEPT ![s] = MaterializedOf(s)]}
        /\ UNCHANGED <<tracked, links, kept, counts>>
    BY <1>8 DEF RepairFails
  <2>2. Shapes' /\ repair'.pc = "idle"
    BY <2>1 DEF RepairInv, Shapes, NoRepair
  <2> QED BY <2>1, <2>2, FlushKeeps
<1>9. ASSUME NEW s \in Referrer, FlushTick(s)
      PROVE  RepairInv'
  <2>1. FlushPending(s) /\ UNCHANGED <<tracked, links, repair, kept, counts>>
    BY <1>9 DEF FlushTick
  <2>2. Shapes'
    BY <2>1 DEF RepairInv, Shapes, FlushPending
  <2> QED BY <2>1, <2>2, FlushKeeps DEF FlushPending
<1>10. ASSUME NEW s \in Referrer, refresh_links(s)
       PROVE  RepairInv'
  BY <1>10, ReindexKeeps
<1>11. ASSUME NEW s \in Referrer, SaveReferrer(s)
       PROVE  RepairInv'
  <2>1. /\ DOMAIN written' = Referrer /\ tracked' = tracked
        /\ counts' = [counts EXCEPT !.turns = @ + 1]
        /\ kept' = StillKept(tracked', written')
        /\ UNCHANGED <<pending, links, repair>>
    BY <1>11 DEF SaveReferrer, RepairInv, Shapes
  <2>2. tracked' \in SUBSET Linked
    BY <2>1 DEF RepairInv, Shapes
  <2> QED BY <2>1, <2>2, TurnKeeps
<1>12. ASSUME NEW p \in Linked, NoteComesOrGoes(p)
       PROVE  RepairInv'
  <2>1. /\ tracked' \in SUBSET Linked /\ DOMAIN written' = Referrer
        /\ counts' = [counts EXCEPT !.turns = @ + 1]
        /\ kept' = StillKept(tracked', written')
        /\ UNCHANGED <<pending, links, repair>>
    BY <1>12 DEF NoteComesOrGoes, RepairInv, Shapes
  <2> QED BY <2>1, TurnKeeps
<1>13. CASE RepairNext
  BY <1>2, <1>3, <1>4, <1>5, <1>6, <1>7, <1>8, <1>9, <1>10, <1>11, <1>12, <1>13 DEF RepairNext
<1> QED BY <1>1, <1>13

(* A repaired link leads where the user chose, in the note as it is shown and in
   the index, for any notes, any names and any number of repairs, of notes that
   come and go, of saves and of failed flushes.                              *)
THEOREM RepairedLinksHold == RepairSpec => []RepairHolds
<1>1. RepairInit => RepairInv
  BY RepairInitial
<1>2. RepairInv /\ [RepairNext]_repairVars => RepairInv'
  BY RepairStep
<1>3. RepairInv => RepairHolds
  BY DEF RepairInv
<1> QED BY <1>1, <1>2, <1>3, PTL DEF RepairSpec

============================================================================
