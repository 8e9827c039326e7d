--------------------------- MODULE QueryLanguage ---------------------------
(* The query language over notes and over data files: one query, answered  *)
(* over the index by a compiled SQL statement (plan.rs, exec_index.rs) or  *)
(* over a decoded table in memory (exec_table.rs). Records are asked for   *)
(* one key: `TABLE key WHERE key op literal SORT key dir`. Values carry    *)
(* the same declared type on both sides, and a blank text is left out: a   *)
(* YAML note can say "present but empty" and a CSV cell cannot.            *)
EXTENDS Integers, Sequences, FiniteSets, TLC

CONSTANTS
    Texts,      \* the texts that occur, in the byte order both sides use
    Nums,       \* the numbers that occur
    NumText,    \* how a number is written, a function into Texts
    Rows        \* how many records a relation has

TextSet == {Texts[i] : i \in 1..Len(Texts)}

ASSUME QueryAssumption ==
    /\ Rows \in Nat /\ Nums \subseteq Int
    /\ {"true", "false"} \subseteq TextSet /\ "" \notin TextSet
    /\ NumText \in [Nums -> TextSet]

Missing == [kind |-> "missing"]
Literal == [kind : {"str"}, text : TextSet] \cup [kind : {"num"}, num : Nums]
             \cup [kind : {"bool"}, bool : BOOLEAN]
Value   == Literal \cup {Missing}

Op      == {"=", "!=", "<", "<=", ">", ">="}
NoCond  == [op |-> "none"]
Cond    == [op : Op, value : Literal]
Query   == [cond : Cond \cup {NoCond}, sort : {"none", "asc", "desc"}]

\* Texts compare by bytes, false comes before true.
TextRank(t) == CHOOSE i \in 1..Len(Texts) : Texts[i] = t
BoolText(b) == IF b THEN "true" ELSE "false"
BoolRank(b) == IF b THEN 1 ELSE 0

\* What an operator asks of two ranks.
OpHolds(op, x, y) ==
    CASE op = "="  -> x = y    [] op = "!=" -> x # y
      [] op = "<"  -> x < y    [] op = "<=" -> x <= y
      [] op = ">"  -> x > y    [] op = ">=" -> x >= y

-----------------------------------------------------------------------------
(* Over the index. json_type gives booleans back their name; everything    *)
(* else is unwrapped to a native scalar.                                   *)
normalized(v) ==
    CASE v.kind = "missing" -> [class |-> "null"]
      [] v.kind = "num"     -> [class |-> "real", num |-> v.num]
      [] v.kind = "str"     -> [class |-> "text", text |-> v.text]
      [] v.kind = "bool"    -> [class |-> "text", text |-> BoolText(v.bool)]

\* CAST(.. AS TEXT), and what exec_index makes of a cell; "" of NULL.
CastText(x) ==
    CASE x.class = "null" -> "" [] x.class = "real" -> NumText[x.num]
      [] x.class = "text" -> x.text

\* The EXISTS of a condition: a record without the key has no row to match.
SqlMatches(v, c) ==
    /\ v.kind # "missing"
    /\ LET x == normalized(v) IN
       \/ /\ c.value.kind = "str"
          /\ OpHolds(c.op, TextRank(CastText(x)), TextRank(c.value.text))
       \/ /\ c.value.kind = "num" /\ x.class = "real"
          /\ OpHolds(c.op, x.num, c.value.num)
       \/ /\ c.value.kind = "bool" /\ v.kind = "bool"
          /\ OpHolds(c.op, BoolRank(v.bool), BoolRank(c.value.bool))

\* ORDER BY of two scalars that are not NULL: numbers come before texts.
SqlLess(x, y) ==
    \/ x.class = "real" /\ y.class = "text"
    \/ x.class = "real" /\ y.class = "real" /\ x.num < y.num
    \/ x.class = "text" /\ y.class = "text"
         /\ TextRank(x.text) < TextRank(y.text)

(* Fault: ORDER BY without IS NULL. *)
OrdersNullsFirst(r, sort, i, j) ==
    LET x == normalized(r[i])
        y == normalized(r[j])
        Less(a, b) == b.class # "null" /\ (a.class = "null" \/ SqlLess(a, b))
        Before(a, b) == IF sort = "asc" THEN Less(a, b) ELSE Less(b, a)
    IN  IF sort = "none" THEN i < j
        ELSE Before(x, y) \/ (~Before(y, x) /\ i < j)

\* ORDER BY (..) IS NULL, (..) dir, files.path: record i is listed before j.
OrderBy(r, sort, i, j) ==
    LET x == normalized(r[i])
        y == normalized(r[j])
        IsNull(z) == z.class = "null"
        Before(a, b) == IF sort = "asc" THEN SqlLess(a, b) ELSE SqlLess(b, a)
    IN  IF sort = "none" \/ (IsNull(x) /\ IsNull(y)) THEN i < j
        ELSE IF IsNull(x) \/ IsNull(y) THEN IsNull(y)
        ELSE Before(x, y) \/ (~Before(y, x) /\ i < j)

-----------------------------------------------------------------------------
(* Over a table: a cell has a text, and a number or a boolean form, or     *)
(* neither of them.                                                        *)
cell(v) ==
    CASE v.kind = "missing" -> [text |-> "", num |-> {}, boolean |-> {}]
      [] v.kind = "num"  -> [text |-> NumText[v.num], num |-> {v.num},
                             boolean |-> {}]
      [] v.kind = "bool" -> [text |-> BoolText(v.bool), num |-> {},
                             boolean |-> {v.bool}]
      [] v.kind = "str"  -> [text |-> v.text, num |-> {}, boolean |-> {}]

is_empty(c) == c.text = ""

cell_matches(c, cond) ==
    /\ ~is_empty(c)
    /\ \/ /\ cond.value.kind = "str"
          /\ OpHolds(cond.op, TextRank(c.text), TextRank(cond.value.text))
       \/ /\ cond.value.kind = "num"
          /\ \E n \in c.num : OpHolds(cond.op, n, cond.value.num)
       \/ /\ cond.value.kind = "bool"
          /\ \E b \in c.boolean :
               OpHolds(cond.op, BoolRank(b), BoolRank(cond.value.bool))

sort_rank(c) == IF is_empty(c) THEN 2 ELSE IF c.num # {} THEN 0 ELSE 1

\* Less of two cells that are not empty, in ascending order.
compare_present(a, b) ==
    \/ sort_rank(a) < sort_rank(b)
    \/ /\ sort_rank(a) = sort_rank(b)
       /\ \/ \E x \in a.num, y \in b.num : x < y
          \/ /\ a.num = {} \/ b.num = {}
             /\ TextRank(a.text) < TextRank(b.text)

(* Fault: descending reverses the place of empty cells too. *)
ReversesEverything(r, sort, i, j) ==
    LET a == cell(r[i])
        b == cell(r[j])
        Less(x, y) == \/ ~is_empty(x) /\ is_empty(y)
                      \/ ~is_empty(x) /\ ~is_empty(y) /\ compare_present(x, y)
        Before(x, y) == IF sort = "asc" THEN Less(x, y) ELSE Less(y, x)
    IN  IF sort = "none" THEN i < j
        ELSE Before(a, b) \/ (~Before(b, a) /\ i < j)

\* sort_by with compare_for_sort is stable: equal cells keep their order.
compare_for_sort(r, sort, i, j) ==
    LET a == cell(r[i])
        b == cell(r[j])
        Before(x, y) == IF sort = "asc" THEN compare_present(x, y)
                                        ELSE compare_present(y, x)
    IN  IF sort = "none" \/ (is_empty(a) /\ is_empty(b)) THEN i < j
        ELSE IF is_empty(a) \/ is_empty(b) THEN sort_rank(a) < sort_rank(b)
        ELSE Before(a, b) \/ (~Before(b, a) /\ i < j)

-----------------------------------------------------------------------------
\* The lines of an answer: the records found, <<i, j>> being in Before when i is
\* listed first, each with its projected text.
Lines(found, Before, text) ==
    LET Place(i)  == 1 + Cardinality({j \in found : <<j, i>> \in Before})
        listed(k) == CHOOSE i \in found : Place(i) = k
    IN  [k \in 1..Cardinality(found) |-> <<listed(k), text[listed(k)]>>]

\* exec_index::run.
exec_index(r, q) ==
    LET found == {i \in 1..Rows :
                    q.cond = NoCond \/ SqlMatches(r[i], q.cond)}
    IN  Lines(found,
              {p \in found \X found : OrderBy(r, q.sort, p[1], p[2])},
              [i \in 1..Rows |-> CastText(normalized(r[i]))])

\* exec_table::run.
exec_table(r, q) ==
    LET found == {i \in 1..Rows :
                    q.cond = NoCond \/ cell_matches(cell(r[i]), q.cond)}
    IN  Lines(found,
              {p \in found \X found :
                 compare_for_sort(r, q.sort, p[1], p[2])},
              [i \in 1..Rows |-> cell(r[i]).text])

-----------------------------------------------------------------------------
VARIABLES
    rel,        \* the records, in the order of their path
    query,      \* the query asked last
    index,      \* its answer over the index
    table       \* its answer over a table

queryVars == <<rel, query, index, table>>

NoQuery == [cond |-> NoCond, sort |-> "none"]

QueryInit ==
    /\ rel \in [1..Rows -> Value]
    /\ query = NoQuery
    /\ index = exec_index(rel, query)
    /\ table = exec_table(rel, query)

\* run: the same query, over either relation.
run(q) ==
    /\ query' = q
    /\ index' = exec_index(rel, q)
    /\ table' = exec_table(rel, q)
    /\ UNCHANGED rel

QueryNext == query = NoQuery /\ \E q \in Query : run(q)

QuerySpec == QueryInit /\ [][QueryNext]_queryVars

-----------------------------------------------------------------------------
(* The two executors give the same lines in the same order, with the same  *)
(* texts: `docs/implementation/search-index.md` states their semantics     *)
(* once, and the code has it twice.                                        *)
ExecutorsAgree == index = table

(* A record that lacks the key answers no comparison, `!=` included, and   *)
(* is listed last whichever way the answer is sorted.                      *)
MissingComesLast ==
    \A k \in DOMAIN index :
      rel[index[k][1]] = Missing =>
         /\ query.cond = NoCond
         /\ query.sort # "none" =>
              \A l \in k..Len(index) : rel[index[l][1]] = Missing
=============================================================================
