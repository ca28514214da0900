----------------------------- MODULE InfoString -----------------------------
(***************************************************************************)
(* Info strings, \key\value\key\value (Utilities/Utils.cpp), as sequences  *)
(* of entries: the blacklist keeps the separator out of keys and values.   *)
(* The strings a caller passes are shorter than newi[1024].                *)
(***************************************************************************)
EXTENDS Integers, Sequences, SequencesExt

CONSTANTS
  InfoKeys,     (* the keys, in an order                                   *)
  Values,
  Size,         (* the length of a key or of a value                       *)
  Lower,        (* a key in lower case                                     *)
  Blacklisted,  (* keys and values that hold a \, a ; or a quotation mark  *)
  MaxInfo,      (* MAX_INFO_STRING: 1024                                   *)
  MaxInfoSets   (* bound: the calls                                        *)

VARIABLES
  entries,      (* the info string                                         *)
  store,        (* what a map would hold in its place                      *)
  settings      (* the calls so far                                        *)

Places == 1..Len(InfoKeys)
AllKeys == {InfoKeys[i] : i \in Places}

(* The sum of f[1] to f[n].                                                *)
Total(f, n) ==
  LET total[i \in 0..n] == IF i = 0 THEN 0 ELSE total[i - 1] + f[i]
  IN  total[n]

Empty == ""
EntrySize(e) == 2 + Size[e.key] + Size[e.value]
InfoSize(s) == Total([i \in 1..Len(s) |-> EntrySize(s[i])], Len(s))

(* Mutant: keys are compared as Info_ValueForKey does.                     *)
Info_RemoveKey_AnyCase(s, key) ==
  RemoveAt(s, SelectInSeq(s, LAMBDA e : Lower[e.key] = Lower[key]))

(* The first entry of the key, letter by letter.                           *)
Info_RemoveKey(s, key) ==
  LET i == SelectInSeq(s, LAMBDA e : e.key = key)
  IN  IF i = 0 THEN s ELSE RemoveAt(s, i)

(* The old entry is gone before the size of the new one is known to be too *)
(* much.                                                                   *)
Info_SetValueForKey(s, key, value) ==
  LET removed == Info_RemoveKey(s, key)
      entry   == [key |-> key, value |-> value]
  IN  IF InfoSize(s) >= MaxInfo \/ {key, value} \cap Blacklisted # {} THEN s
      ELSE IF value = Empty \/ EntrySize(entry) + InfoSize(removed) >= MaxInfo THEN removed
      ELSE <<entry>> \o removed

(* The first entry of the key in whatever case.                            *)
Info_ValueForKey(s, key) ==
  LET i == SelectInSeq(s, LAMBDA e : Lower[e.key] = Lower[key])
  IN  IF i = 0 THEN Empty ELSE s[i].value

-----------------------------------------------------------------------------
(* What a map from keys to values would do: sets, and which of two keys    *)
(* that differ in case only was set last.                                  *)

NoEntry == [value |-> Empty, time |-> 0]
KeySize(map, key) == IF map[key] = NoEntry THEN 0 ELSE 2 + Size[key] + Size[map[key].value]
StoreSize(map) == Total([i \in Places |-> KeySize(map, InfoKeys[i])], Len(InfoKeys))

(* A set that the limit forbids leaves the key without a value.            *)
Store(map, time, key, value) ==
  LET without == [map EXCEPT ![key] = NoEntry]
      with    == [map EXCEPT ![key] = [value |-> value, time |-> time]]
  IN  IF {key, value} \cap Blacklisted # {} THEN map
      ELSE IF value = Empty \/ StoreSize(with) >= MaxInfo THEN without ELSE with

Lookup(map, key) ==
  LET set == {k \in AllKeys : Lower[k] = Lower[key] /\ map[k] # NoEntry}
  IN  IF set = {} THEN Empty
      ELSE map[CHOOSE k \in set : \A l \in set : map[l].time <= map[k].time].value

-----------------------------------------------------------------------------

Init == entries = <<>> /\ store = [key \in AllKeys |-> NoEntry] /\ settings = 0

Next ==
  \E key \in AllKeys, value \in Values :
    /\ settings < MaxInfoSets
    /\ settings' = settings + 1
    /\ entries' = Info_SetValueForKey(entries, key, value)
    /\ store' = Store(store, settings', key, value)

(* A key has the value of its last set, in whatever case that was, unless  *)
(* the value was refused, taken away or too long for what was left.        *)
InfoReadsBack == \A key \in AllKeys : Info_ValueForKey(entries, key) = Lookup(store, key)
=============================================================================
