------------------------------ MODULE TableCache ------------------------------
(***************************************************************************)
(* The cache of parsed data files that the data queries of every open      *)
(* vault share.  A load compares the file's stamp with the entry's, or     *)
(* reads the file between two looks at its stamp and keeps the table only  *)
(* when both are the same.  Loads run side by side and files change under  *)
(* them; the cache's own steps each hold its mutex.                        *)
(***************************************************************************)
EXTENDS Integers, FiniteSets, FiniteSetsExt

CONSTANTS
  Key,       \* a file, or a sheet of it
  FileOf,    \* the file of a key
  Load,      \* loads that may run at a time
  Bytes,     \* estimated_bytes of the table of a text
  Ceiling,   \* byte_ceiling
  MaxText,   \* bound: texts a file has one after the other
  MaxClock,  \* bound: uses of the cache
  None

Version == 1..MaxText
File == {FileOf[k] : k \in Key}
Entry == [stamp : Version, text : Version, used : Nat]

ASSUME TableAssumption ==
  /\ MaxText \in Nat \ {0} /\ MaxClock \in Nat /\ Ceiling \in Nat
  /\ Bytes \in [Version -> Nat]
  /\ None \notin Entry

VARIABLES
  file,     \* the text of a file by its number, which is its stamp as well:
            \* a change alters the modification time or the length
  entries,
  bytes,    \* the counter kept beside them
  clock,
  load      \* what each load is at

tableVars == <<file, entries, bytes, clock, load>>

Resting == [at |-> "rest"]

TableInit ==
  /\ file = [f \in File |-> 1]
  /\ entries = [k \in Key |-> None] /\ bytes = 0 /\ clock = 0
  /\ load = [l \in Load |-> Resting]

FileChanges(f) ==
  /\ file[f] < MaxText
  /\ file' = [file EXCEPT ![f] = @ + 1]
  /\ UNCHANGED <<entries, bytes, clock, load>>

-------------------------------------------------------------------------------
Taken(S) == {k \in S : entries[k] # None}
BytesOf(S) == MapThenSumSet(LAMBDA k : Bytes[entries[k].text], Taken(S))

(* Entries removed, and their bytes from the counter. *)
drop_entry(S) ==
  /\ entries' = [k \in Key |-> IF k \in S THEN None ELSE entries[k]]
  /\ bytes' = bytes - BytesOf(S)

(* The first look at the stamp.  A file that is not there is an error, and
   changes nothing. *)
Starts(l, k) ==
  /\ load[l].at \in {"rest", "done"}
  /\ load' = [load EXCEPT ![l] = [at |-> "stamped", key |-> k, stamp |-> file[FileOf[k]]]]
  /\ UNCHANGED <<file, entries, bytes, clock>>

hit(l) ==
  LET k == load[l].key
      e == entries[k]
  IN /\ load[l].at = "stamped" /\ clock < MaxClock
     /\ clock' = clock + 1
     /\ IF e # None /\ e.stamp = load[l].stamp
        THEN /\ entries' = [entries EXCEPT ![k].used = clock'] /\ UNCHANGED bytes
             /\ load' = [load EXCEPT ![l] = [at |-> "done", key |-> k,
                                             stamp |-> load[l].stamp, text |-> e.text]]
        ELSE /\ drop_entry({k})
             /\ load' = [load EXCEPT ![l].at = "reading"]
     /\ UNCHANGED file

(* The file is read, or cannot be parsed and the load fails. *)
ReadFile(l) ==
  /\ load[l].at = "reading"
  /\ \/ load' = [load EXCEPT ![l] = [at |-> "read", key |-> load[l].key,
                                     stamp |-> load[l].stamp,
                                     text |-> file[FileOf[load[l].key]]]]
     \/ load' = [load EXCEPT ![l] = Resting]
  /\ UNCHANGED <<file, entries, bytes, clock>>

(* Fault: only the stamp after the read is looked at, and kept with it. *)
LooksLate(l) ==
  /\ load[l].at = "read"
  /\ load' = [load EXCEPT ![l].at = "store", ![l].stamp = file[FileOf[load[l].key]]]
  /\ UNCHANGED <<file, entries, bytes, clock>>

(* The second look. *)
LooksAgain(l) ==
  /\ load[l].at = "read"
  /\ load' = [load EXCEPT ![l].at =
       IF file[FileOf[load[l].key]] = load[l].stamp THEN "store" ELSE "forget"]
  /\ UNCHANGED <<file, entries, bytes, clock>>

forget(l) ==
  /\ load[l].at = "forget"
  /\ drop_entry({load[l].key})
  /\ load' = [load EXCEPT ![l].at = "done"]
  /\ UNCHANGED <<file, clock>>

(* What is dropped, least recently used first, until e fits. *)
Oldest(e, S, sum) ==
  LET older(t) == {k \in S : e[k].used < t}
      enough == {t \in 0..(clock + 2) :
                   sum - MapThenSumSet(LAMBDA k : Bytes[e[k].text], older(t)) <= Ceiling}
  IN IF enough = {} THEN S ELSE older(Min(enough))

(* Keeps the table, unless it is too large by itself, under the counter the
   entry it replaces has left. *)
Keeps(l, before) ==
  LET k == load[l].key
      new == [stamp |-> load[l].stamp, text |-> load[l].text, used |-> clock + 1]
      with == [entries EXCEPT ![k] = new]
      sum == before + Bytes[new.text]
      out == Oldest(with, {r \in Key : with[r] # None}, sum)
  IN IF Bytes[new.text] > Ceiling
     THEN entries' = [entries EXCEPT ![k] = None] /\ bytes' = before /\ UNCHANGED clock
     ELSE /\ entries' = [r \in Key |-> IF r \in out THEN None ELSE with[r]]
          /\ bytes' = sum - MapThenSumSet(LAMBDA r : Bytes[with[r].text], out)
          /\ clock' = clock + 1

(* Fault: the entry that is replaced, by a load of the same key beside this
   one, stays in the counter. *)
CountsTwice(l) ==
  /\ load[l].at = "store" /\ clock < MaxClock
  /\ Keeps(l, bytes)
  /\ load' = [load EXCEPT ![l].at = "done"]
  /\ UNCHANGED file

store(l) ==
  /\ load[l].at = "store" /\ clock < MaxClock
  /\ Keeps(l, bytes - BytesOf({load[l].key}))
  /\ load' = [load EXCEPT ![l].at = "done"]
  /\ UNCHANGED file

TableNext ==
  \/ \E f \in File : FileChanges(f)
  \/ \E l \in Load :
       \/ \E k \in Key : Starts(l, k)
       \/ hit(l) \/ ReadFile(l) \/ LooksAgain(l) \/ forget(l) \/ store(l)

TableSpec == TableInit /\ [][TableNext]_tableVars

-------------------------------------------------------------------------------
(* The types of the files, the entries and the loads. *)
TableTypeOK ==
  /\ file \in [File -> Version]
  /\ entries \in [Key -> Entry \cup {None}]
  /\ bytes \in Int /\ clock \in Nat
  /\ load \in [Load -> {Resting}
       \cup [at : {"stamped", "reading"}, key : Key, stamp : Version]
       \cup [at : {"read", "store", "forget", "done"}, key : Key, stamp : Version, text : Version]]

(* What a load answers is a text the file had while the load ran, from the
   cache or not, however files change and other loads store and forget
   beside it: never one from before it began. *)
Fresh ==
  \A l \in Load : load[l].at = "done" =>
    load[l].stamp <= load[l].text /\ load[l].text <= file[FileOf[load[l].key]]

(* A hit is the table of the text that has the stamp. *)
EntriesAreTrue == \A k \in Key : entries[k] # None => entries[k].text = entries[k].stamp

(* The counter is what the entries take, and stays under the ceiling. *)
UnderCeiling == bytes = BytesOf(Key) /\ bytes <= Ceiling

===============================================================================
