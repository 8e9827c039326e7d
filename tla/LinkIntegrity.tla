----------------------------- MODULE LinkIntegrity -----------------------------
(***************************************************************************)
(* Links that lead nowhere.  The panel lists them by token, with the notes *)
(* each might mean; the user chooses one, and repair_dangling_link queues  *)
(* a rewrite of the token for every note that has it, connects the rows of *)
(* the index and flushes those notes.  Meanwhile notes come and go, are    *)
(* edited and indexed again, and the flush timer runs.                     *)
(***************************************************************************)
EXTENDS PendingRewrites

CONSTANTS
  Referrer,       \* notes with links
  Notes,          \* the notes links may lead to, in the order of their paths
  Fold,           \* a token as names_eq_folded compares it
  Bare,           \* tokens without a slash
  LinkTexts,      \* what users write: sets of tokens
  CandidateLimit, \* MAX_CANDIDATES
  GroupLimit,     \* groups the panel asks for
  MaxRepairs,     \* bound: repairs
  MaxTurns        \* bound: notes that come or go, and edits

(* A note has a path without .md, which is its own, a base name, which is the  *)
(* path if that has no slash, and a frontmatter title.                       *)
Linked == 1..Len(Notes)
Token == DOMAIN Fold
Nowhere == 0

ASSUME IntegrityAssumption ==
  /\ Notes \in Seq([stem : Token, base : Token, title : Token])
  /\ Bare \subseteq Token /\ LinkTexts \subseteq SUBSET Token
  /\ {CandidateLimit, GroupLimit} \subseteq Nat \ {0}
  /\ {MaxRepairs, MaxTurns} \subseteq Nat

ASSUME NameAssumption ==
  \A p \in Linked :
    /\ Notes[p].base \in Bare /\ (Notes[p].stem \in Bare => Notes[p].base = Notes[p].stem)
    /\ \A q \in Linked : Notes[q].stem = Notes[p].stem => q = p

VARIABLES
  tracked,  \* the rows of files, of notes that links may lead to
  written,  \* the tokens in the file of a referrer
  pending,  \* pending_rewrites
  links,    \* the rows of links
  panel,    \* the groups list_dangling_links has accumulated, then those on show
  repair,   \* the call of repair_dangling_link
  kept,     \* repairs that should hold: a note, its new token, where it leads
  counts

repairVars ==
  <<tracked, written, pending, links, panel, repair, kept, counts>>

NoPanel == [pc |-> "none", groups |-> {}]
NoRepair == [pc |-> "idle", raw |-> "", to |-> Nowhere, todo |-> {}]

-------------------------------------------------------------------------------
(* Tokens and notes *)

(* PathResolver::resolve; a token with .md or a part of a path is left out. *)
LeadsTo(k, F) ==
  LET exact == {p \in F : Notes[p].stem = k}
      named == {p \in F : Fold[Notes[p].base] = Fold[k]}
      best == IF exact # {} THEN exact ELSE named
  IN IF Cardinality(best) = 1 THEN CHOOSE p \in best : TRUE ELSE Nowhere

(* The first rank the token has for a note, 0 if it has none.                *)
classify_candidate(p, k) ==
  LET n == Notes[p]
  IN SelectInSeq(<<k = n.stem, k = n.base, Fold[k] = Fold[n.stem],
                   Fold[k] = Fold[n.base], Fold[k] = Fold[n.title]>>, LAMBDA b : b)

rank_candidates(k, F) ==
  LET named == {p \in F : classify_candidate(p, k) # 0}
      Before(p, q) == \/ classify_candidate(p, k) < classify_candidate(q, k)
                      \/ classify_candidate(p, k) = classify_candidate(q, k) /\ p < q
  IN {q \in named : Cardinality({p \in named : Before(p, q)}) < CandidateLimit}

(* A bare token stays bare, unless it would be the token it replaces.        *)
derive_reattach_token(k, p) ==
  IF k \in Bare /\ Notes[p].base # k THEN Notes[p].base ELSE Notes[p].stem

PendingFor(s) == {r \in pending : r.target = s}
MaterializedOf(s) == apply_pending(written[s], PendingFor(s))

LinkRows(s, text, F) == {[src |-> s, raw |-> k, to |-> LeadsTo(k, F)] : k \in text}

(* DANGLING_LINK_PREDICATE *)
Dangling == {l \in links : l.to \notin tracked}

(* A repair counts until its note has the token no more, or the token leads   *)
(* elsewhere.                                                              *)
StillKept(F, text) ==
  {k \in kept : k.new \in apply_pending(text[k.src], PendingFor(k.src)) /\ LeadsTo(k.new, F) = k.to}

-------------------------------------------------------------------------------
RepairInit ==
  /\ tracked = Linked
  /\ written \in [Referrer -> LinkTexts]
  /\ pending = {}
  /\ links = UNION {LinkRows(s, written[s], tracked) : s \in Referrer}
  /\ panel = NoPanel
  /\ repair = NoRepair /\ kept = {}
  /\ counts = [repairs |-> 0, turns |-> 0]

(* list_dangling_links reads the links ... *)
accumulate_groups ==
  /\ panel.pc # "links" /\ counts.repairs < MaxRepairs
  /\ panel' = [pc |-> "links", groups |->
       {[raw |-> k, total |-> Cardinality({l \in Dangling : l.raw = k}),
         missing |-> \E l \in Dangling : l.raw = k /\ l.to # Nowhere] :
          k \in {l.raw : l \in Dangling}}]
  /\ UNCHANGED <<tracked, written, pending, links, repair, kept, counts>>

(* ... and then the notes; groups of one size are cut in any order.          *)
list_dangling_links ==
  /\ panel.pc = "links"
  /\ LET all == {g \in panel.groups : g.missing \/ rank_candidates(g.raw, tracked) # {}}
     IN \E G \in SUBSET all :
          /\ Cardinality(G) = IF Cardinality(all) > GroupLimit THEN GroupLimit
                              ELSE Cardinality(all)
          /\ \A g \in G, h \in all \ G : g.total >= h.total
          /\ panel' = [pc |-> "shown", groups |->
               {[raw |-> g.raw, to |-> rank_candidates(g.raw, tracked)] : g \in G}]
  /\ UNCHANGED <<tracked, written, pending, links, repair, kept, counts>>

-------------------------------------------------------------------------------
(* repair_dangling_link *)

(* The panel is asked again when the repair has ended.                       *)
reattach ==
  /\ repair.pc = "idle" /\ panel.pc = "shown" /\ counts.repairs < MaxRepairs
  /\ \E g \in panel.groups : \E p \in g.to :
       repair' = [NoRepair EXCEPT !.pc = "asked", !.raw = g.raw, !.to = p]
  /\ panel' = NoPanel
  /\ counts' = [counts EXCEPT !.repairs = @ + 1]
  /\ UNCHANGED <<tracked, written, pending, links, kept>>

(* It holds flush_in_progress from here on. *)
dangling_referrers ==
  /\ repair.pc = "asked"
  /\ LET S == {l.src : l \in {d \in Dangling : d.raw = repair.raw}}
     IN repair' = IF repair.to \in tracked /\ S # {}
                  THEN [repair EXCEPT !.pc = "found", !.todo = S] ELSE NoRepair
  /\ UNCHANGED <<tracked, written, pending, links, panel, kept, counts>>

(* The plugin is off, the transaction fails, or the app crashes.             *)
RepairRefused ==
  /\ repair.pc \in {"asked", "found"}
  /\ repair' = NoRepair
  /\ UNCHANGED <<tracked, written, pending, links, panel, kept, counts>>

(* enqueue_coalesced for every referrer, no two repairs in one second.        *)
Coalesced(S, old, new, now) ==
  {r \in pending : ~ (r.target \in S /\ r.old = old)} \union
    (IF old = new THEN {}
     ELSE {[target |-> s, old |-> old, new |-> new, at |-> now, id |-> now] : s \in S})

(* A new token that is bare says which note is meant if no other is called so. *)
Unmistaken ==
  /\ repair.to \in tracked
  /\ \/ repair.raw \notin Bare \/ repair.raw = Notes[repair.to].base
     \/ \A q \in tracked \ {repair.to} : Fold[Notes[q].base] # Fold[Notes[repair.to].base]

(* A repair of a token replaces what is queued for it: an earlier one counts   *)
(* on if its own token is another and is there without what is replaced.     *)
OtherRows(s) == {r \in PendingFor(s) : r.old # repair.raw}
Outlived ==
  {k \in kept : k.src \in repair.todo =>
     k.new # repair.raw /\ k.new \in apply_pending(written[k.src], OtherRows(k.src))}

(* One transaction.  What is connected is what leads nowhere by now.  Where   *)
(* the new token is queued to be replaced, the repair does not count: a flush  *)
(* that fails between the note and its rows replaces it when it is tried again. *)
CommitRepair ==
  /\ repair.pc = "found"
  /\ LET new == derive_reattach_token(repair.raw, repair.to)
         mine == {l \in Dangling : l.raw = repair.raw}
         had == {s \in repair.todo : /\ repair.raw \in MaterializedOf(s)
                                     /\ \E l \in mine : l.src = s
                                     /\ \A r \in OtherRows(s) : r.old # new}
     IN /\ pending' = Coalesced(repair.todo, repair.raw, new, counts.repairs)
        /\ links' = (links \ mine) \union {[l EXCEPT !.to = repair.to] : l \in mine}
        /\ kept' = Outlived \union
             {k \in [src : had, new : {new}, to : {repair.to}] : Unmistaken}
  /\ repair' = [repair EXCEPT !.pc = "flush"]
  /\ UNCHANGED <<tracked, written, panel, counts>>

FlushPending(s) ==
  /\ written' = [written EXCEPT ![s] = MaterializedOf(s)]
  /\ pending' = pending \ PendingFor(s)

FlushReferrer(s) ==
  /\ repair.pc = "flush" /\ s \in repair.todo
  /\ FlushPending(s)
  /\ repair' = [repair EXCEPT !.todo = @ \ {s}]
  /\ UNCHANGED <<tracked, links, panel, kept, counts>>

(* An error, or a crash, before the note is written or before the rows are    *)
(* deleted: the others stay as they are.                                     *)
RepairFails(s) ==
  /\ repair.pc = "flush" /\ s \in repair.todo
  /\ written' \in {written, [written EXCEPT ![s] = MaterializedOf(s)]}
  /\ repair' = NoRepair
  /\ UNCHANGED <<tracked, pending, links, panel, kept, counts>>

RepairEnds ==
  /\ repair.pc = "flush" /\ repair.todo = {}
  /\ repair' = NoRepair
  /\ UNCHANGED <<tracked, written, pending, links, panel, kept, counts>>

-------------------------------------------------------------------------------
(* What goes on meanwhile *)

FlushTick(s) ==
  /\ repair.pc \in {"idle", "asked"} /\ PendingFor(s) # {}
  /\ FlushPending(s)
  /\ UNCHANGED <<tracked, links, panel, repair, kept, counts>>

(* Fault: the rows are taken from the file. *)
IndexesFile(s) ==
  /\ links' = {l \in links : l.src # s} \union LinkRows(s, written[s], tracked)
  /\ UNCHANGED <<tracked, written, pending, panel, repair, kept, counts>>

(* The watcher or a scan comes to a referrer, and indexes it as it is shown.   *)
refresh_links(s) ==
  /\ links' = {l \in links : l.src # s} \union LinkRows(s, MaterializedOf(s), tracked)
  /\ UNCHANGED <<tracked, written, pending, panel, repair, kept, counts>>

(* The watcher has seen that a note is there, or that it is gone.             *)
NoteComesOrGoes(p) ==
  /\ counts.turns < MaxTurns
  /\ counts' = [counts EXCEPT !.turns = @ + 1]
  /\ tracked' = IF p \in tracked THEN tracked \ {p} ELSE tracked \union {p}
  /\ kept' = StillKept(tracked', written)
  /\ UNCHANGED <<written, pending, links, panel, repair>>

(* The editor saves what it shows, or another text is written.                *)
SaveReferrer(s) ==
  /\ counts.turns < MaxTurns
  /\ counts' = [counts EXCEPT !.turns = @ + 1]
  /\ written' \in {[written EXCEPT ![s] = t] : t \in LinkTexts \union {MaterializedOf(s)}}
  /\ kept' = StillKept(tracked, written')
  /\ UNCHANGED <<tracked, pending, links, panel, repair>>

RepairNext ==
  \/ accumulate_groups \/ list_dangling_links
  \/ reattach \/ dangling_referrers \/ RepairRefused \/ CommitRepair \/ RepairEnds
  \/ \E s \in Referrer : FlushReferrer(s) \/ RepairFails(s)
  \/ \E s \in Referrer : FlushTick(s) \/ refresh_links(s) \/ SaveReferrer(s)
  \/ \E p \in Linked : NoteComesOrGoes(p)

RepairSpec == RepairInit /\ [][RepairNext]_repairVars

-------------------------------------------------------------------------------
(* A link that was repaired leads where the user chose, in the note as it is  *)
(* shown and in the index, whether its note was flushed by the repair, by the *)
(* timer or not yet, fails to be written, is saved or indexed in between, and *)
(* whatever else is repaired.  Repairs with a bare token that other notes have *)
(* for a name are exempt, as are those whose note loses the token again, or    *)
(* whose token comes to lead elsewhere; and, in a note that could not be       *)
(* flushed, those whose token another repair replaces or finds queued.         *)
RepairHolds ==
  \A k \in kept :
    /\ k.new \in MaterializedOf(k.src) /\ LeadsTo(k.new, tracked) = k.to
    /\ \E l \in links : l.src = k.src /\ l.to = k.to

================================================================================
