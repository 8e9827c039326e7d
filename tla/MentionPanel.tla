----------------------------- MODULE MentionPanel -----------------------------
(***************************************************************************)
(* Commands that edit a note at a byte position they were given.  The      *)
(* panel of unlinked mentions lists where a note names the open one,       *)
(* counted in the text a reader is shown; link_mention writes a link at    *)
(* such a position of the file, which rewrites may be queued for, and      *)
(* create_block_ref marks the line of one.  The panel fetches its list     *)
(* again after every change, one fetch perhaps before another is answered. *)
(***************************************************************************)
EXTENDS Naturals, SequencesExt

CONSTANTS
  Drafts,      \* texts the note may have at first
  Width,       \* bytes of a word, with the space that follows it
  Call,        \* links that may be made at a time: only the row that was
               \* clicked is disabled meanwhile
  Unhurried,   \* whether nobody changes the note while a link is made
  MaxEdits,    \* bound: edits of the note by its editor or another program
  MaxRelinks,  \* bound: renames of a note it links to
  MaxMints,    \* bound: calls of create_block_ref
  MaxFetches,  \* bound: fetches of the panel
  NoList       \* what an error leaves of the list

(* A mention of the open note, a link to it with the mention in it, and a link  *)
(* in such a link; a link to another note before and after its rename; any      *)
(* other word; the end of a line without and with a block id.                   *)
Word == {"mention", "linked", "nested", "old", "new", "word", "end", "end^id"}

(* [[ comes before the mention and ]] after it.                              *)
Opening == 2

ASSUME MentionAssumption ==
  /\ Drafts \subseteq Seq(Word) /\ Width \in [Word -> Nat \ {0}]
  /\ Width["linked"] = Width["mention"] + 2 * Opening
  /\ Unhurried \in BOOLEAN
  /\ {MaxEdits, MaxRelinks, MaxMints, MaxFetches} \subseteq Nat

VARIABLES
  bytes_of,  \* the words of the note on disk
  stale,     \* whether the rewrite of a link whose target was renamed is queued for it
  due,       \* a refresh is scheduled, or the event is on its way that will do it
  token,     \* the number of the last fetch
  fetches,   \* those not answered, with the text they were served from
  list,      \* the positions on show, and the text they were counted in
  link,      \* the calls of link_mention
  changes    \* what was done so far

mentionVars == <<bytes_of, stale, due, token, fetches, list, link, changes>>

Unserved == <<"unserved">>
NoLink == [pc |-> "idle", my |-> 0, at |-> 0, of |-> <<>>, read |-> <<>>]

-----------------------------------------------------------------------------
(* Texts and positions *)

(* materialize_on_read *)
Materialized(t) == [k \in DOMAIN t |-> IF t[k] = "old" THEN "new" ELSE t[k]]
OnScreen == IF stale THEN Materialized(bytes_of) ELSE bytes_of

Offset(t, k) == FoldLeft(LAMBDA n, w : Width[w] + n, 0, SubSeq(t, 1, k - 1))

(* The places outside of links.                                              *)
extract_text_runs(t) ==
  {k \in DOMAIN t : t[k] \notin {"linked", "nested", "old", "new"}}

find_mention_occurrences(t) ==
  {Offset(t, k) : k \in {j \in extract_text_runs(t) : t[j] = "mention"}}

(* The word at a position that spells the mention there: also the one inside   *)
(* a link, which the check of the span does not tell from the others.          *)
Spelling(t, at) ==
  {k \in DOMAIN t : \/ t[k] = "mention" /\ Offset(t, k) = at
                    \/ t[k] = "linked" /\ Offset(t, k) + Opening = at}

(* The text with the word at k put into a link.                              *)
linked_at(t, k) ==
  [t EXCEPT ![k] = IF @ = "mention" THEN "linked" ELSE "nested"]

(* The line of a position ends with the first end from there on, or else with  *)
(* the text.                                                                   *)
mint_block_id(t, at) ==
  LET ends == {k \in DOMAIN t : /\ t[k] \in {"end", "end^id"}
                                /\ Offset(t, k) + Width[t[k]] > at}
      line == CHOOSE k \in ends : \A j \in ends : k <= j
  IN IF ends = {} THEN Append(t, "end^id") ELSE [t EXCEPT ![line] = "end^id"]

-----------------------------------------------------------------------------
MentionInit ==
  /\ bytes_of \in Drafts /\ stale = FALSE
  /\ due = FALSE /\ token = 1 /\ fetches = {[my |-> 1, of |-> Unserved]}
  /\ list = NoList /\ link = [c \in Call |-> NoLink]
  /\ changes = [edits |-> 0, renames |-> 0, mints |-> 0]

NoLinkUnderWay == \A c \in Call : link[c].pc = "idle"
Peace == Unhurried => NoLinkUnderWay

(* The debounced tick: a fetch under a new token.                            *)
rightSidebarRefresh ==
  /\ due /\ token < MaxFetches
  /\ due' = FALSE /\ token' = token + 1
  /\ fetches' = fetches \union {[my |-> token + 1, of |-> Unserved]}
  /\ UNCHANGED <<bytes_of, stale, list, link, changes>>

get_unlinked_mentions(f) ==
  /\ f.of = Unserved
  /\ fetches' = (fetches \ {f}) \union {[f EXCEPT !.of = OnScreen]}
  /\ UNCHANGED <<bytes_of, stale, due, token, list, link, changes>>

(* Fault: whichever answer comes last is shown. *)
AnyAnswer(f) ==
  /\ f.of # Unserved
  /\ fetches' = fetches \ {f}
  /\ list' = [of |-> f.of, at |-> find_mention_occurrences(f.of)]
  /\ UNCHANGED <<bytes_of, stale, due, token, link, changes>>

(* An answer to a fetch that is not the last one is dropped.                 *)
fetch_success(f) ==
  /\ f.of # Unserved
  /\ fetches' = fetches \ {f}
  /\ list' = IF f.my # token THEN list
             ELSE [of |-> f.of, at |-> find_mention_occurrences(f.of)]
  /\ UNCHANGED <<bytes_of, stale, due, token, link, changes>>

fetch_error(f) ==
  /\ fetches' = fetches \ {f}
  /\ list' = IF f.my # token THEN list ELSE NoList
  /\ UNCHANGED <<bytes_of, stale, due, token, link, changes>>

-----------------------------------------------------------------------------
(* link_mention *)

handleLink(c) ==
  /\ link[c].pc = "idle" /\ list # NoList
  /\ \E p \in list.at :
       link' = [link EXCEPT ![c] = [NoLink EXCEPT !.pc = "asked", !.my = token,
                                                  !.at = p, !.of = list.of]]
  /\ UNCHANGED <<bytes_of, stale, due, token, fetches, list, changes>>

(* Fault: the rewrite stays queued. *)
LinkUnflushed(c) ==
  /\ link[c].pc = "asked"
  /\ link' = [link EXCEPT ![c].pc = "flushed"]
  /\ UNCHANGED <<bytes_of, stale, due, token, fetches, list, changes>>

(* The file comes to be what is shown; the event of this flush is announced.  *)
flush_target_for_link_mention(c) ==
  /\ link[c].pc = "asked"
  /\ bytes_of' = OnScreen /\ stale' = FALSE
  /\ due' = (due \/ OnScreen # bytes_of)
  /\ link' = [link EXCEPT ![c].pc = "flushed"]
  /\ UNCHANGED <<token, fetches, list, changes>>

(* The span is looked at again: it spells the mention, or the link is refused. *)
LinkReads(c) ==
  /\ link[c].pc = "flushed"
  /\ link' = [link EXCEPT ![c] = IF Spelling(bytes_of, @.at) = {} THEN NoLink
                                   ELSE [@ EXCEPT !.pc = "read", !.read = bytes_of]]
  /\ UNCHANGED <<bytes_of, stale, due, token, fetches, list, changes>>

LinkWrites(c) ==
  /\ link[c].pc = "read"
  /\ \E k \in Spelling(link[c].read, link[c].at) : bytes_of' = linked_at(link[c].read, k)
  /\ due' = TRUE
  /\ link' = [link EXCEPT ![c].pc = "written"]
  /\ UNCHANGED <<stale, token, fetches, list, changes>>

(* What comes after the linked mention has moved; the list is left alone when   *)
(* another fetch was started meanwhile.                                         *)
mention_linked(c) ==
  /\ link[c].pc = "written"
  /\ list' = IF link[c].my # token \/ list = NoList THEN list
             ELSE [list EXCEPT !.at = {p \in @ : p < link[c].at}]
  /\ link' = [link EXCEPT ![c] = NoLink]
  /\ UNCHANGED <<bytes_of, stale, due, token, fetches, changes>>

-----------------------------------------------------------------------------
(* Others *)

(* The copied reference: the position is the cursor's, in the text shown. *)
create_block_ref(k) ==
  /\ changes.mints < MaxMints /\ Peace
  /\ bytes_of' = mint_block_id(bytes_of, Offset(OnScreen, k))
  /\ due' = (due \/ bytes_of' # bytes_of)
  /\ changes' = [changes EXCEPT !.mints = @ + 1]
  /\ UNCHANGED <<stale, token, fetches, list, link>>

(* rename_file of a note it links to; the panel is refreshed afterwards. *)
RenameOther ==
  /\ changes.renames < MaxRelinks /\ Peace
  /\ stale' = (\E k \in DOMAIN bytes_of : bytes_of[k] = "old")
  /\ due' = TRUE
  /\ changes' = [changes EXCEPT !.renames = @ + 1]
  /\ UNCHANGED <<bytes_of, token, fetches, list, link>>

(* A flush announces nothing: readers see what they saw. *)
FlushNote ==
  /\ stale /\ Peace
  /\ bytes_of' = OnScreen /\ stale' = FALSE
  /\ UNCHANGED <<due, token, fetches, list, link, changes>>

EditNote ==
  /\ changes.edits < MaxEdits /\ Peace
  /\ bytes_of' \in {<<"word">> \o bytes_of} \union
                   (IF bytes_of = <<>> THEN {} ELSE {Tail(bytes_of)})
  /\ due' = TRUE
  /\ changes' = [changes EXCEPT !.edits = @ + 1]
  /\ UNCHANGED <<stale, token, fetches, list, link>>

MentionNext ==
  \/ rightSidebarRefresh \/ RenameOther \/ FlushNote \/ EditNote
  \/ \E c \in Call : handleLink(c) \/ flush_target_for_link_mention(c) \/ LinkReads(c)
                      \/ LinkWrites(c) \/ mention_linked(c)
  \/ \E f \in fetches : get_unlinked_mentions(f) \/ fetch_success(f) \/ fetch_error(f)
  \/ \E k \in DOMAIN bytes_of : create_block_ref(k)

MentionSpec == MentionInit /\ [][MentionNext]_mentionVars

-----------------------------------------------------------------------------
(* A link is written where the text says what it said when the mention was     *)
(* listed, unless what comes before it has changed since; and nothing else     *)
(* changes for a reader.                                                       *)
LinksWhatWasChosen ==
  [][\A c \in Call : LinkWrites(c) =>
       \E k \in DOMAIN OnScreen :
         /\ OnScreen' = linked_at(OnScreen, k)
         /\ \A j \in DOMAIN link[c].of :
              /\ Offset(link[c].of, j) = link[c].at
              /\ j \in DOMAIN OnScreen
              /\ SubSeq(OnScreen, 1, j) = SubSeq(link[c].of, 1, j)
              => k = j]_mentionVars

(* No link is put into a link. *)
NeverNested == \A k \in DOMAIN bytes_of : bytes_of[k] # "nested"

(* When no refresh is due and no answer awaited, the panel lists the mentions   *)
(* of the text a reader is shown: no late answer and no link leaves it behind.  *)
PanelSettles ==
  ~ due /\ fetches = {} /\ NoLinkUnderWay /\ list # NoList =>
    list.at = find_mention_occurrences(OnScreen)

(* The id of a copied reference is on the line the reader pointed at           *)
(* (docs/archive/layers/layer-3-spec.md:517: the bytes on disk match the        *)
(* buffer at that offset).                                                     *)
BlockIdOnLine ==
  [][\A k \in DOMAIN OnScreen :
       create_block_ref(k) => OnScreen' = mint_block_id(OnScreen, Offset(OnScreen, k))]_mentionVars

=============================================================================
