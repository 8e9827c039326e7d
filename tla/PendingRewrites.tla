--------------------------- MODULE PendingRewrites ---------------------------
(***************************************************************************)
(* Applying the rows of pending_rewrites to the text of a note.  A text is *)
(* the set of link tokens in it; a row exchanges one token for another.    *)
(***************************************************************************)
EXTENDS Integers, FiniteSets, SequencesExt

(* ORDER BY created_at, id.  The op that inserted a row stands for its      *)
(* AUTOINCREMENT id.                                                       *)
RowBefore(r, s) == r.at < s.at \/ (r.at = s.at /\ r.id < s.id)

rewrite_wiki_link(text, r) ==
  IF r.old \in text THEN (text \ {r.old}) \union {r.new} ELSE text

(* The last of some rows: none comes after it.                              *)
LastRow(R) == CHOOSE r \in R : \A s \in R : ~ RowBefore(r, s)

(* One row after the other, the last one last. *)
apply_pending(text, R) ==
  MapThenFoldSet(LAMBDA r, t : rewrite_wiki_link(t, r), text, LAMBDA r : r, LastRow, R)

=============================================================================
