--------------------------- MODULE IdentifierCodec ---------------------------
(***************************************************************************)
(* The identifiers of the Subsonic plugin: the objid of a page is a path   *)
(* of encoded identifiers, one per page that led to it.  An identifier is  *)
(* encoded in base64, or as the number of a row that holds that; a control *)
(* point keeps an objid across restarts, which may empty the table.        *)
(***************************************************************************)
EXTENDS Integers, FiniteSets, SequencesExt

CONSTANTS Values,    \* identifiers
          Slashed,   \* those whose base64 form contains a slash
          MaxDepth,
          Nothing    \* decode() raises

VARIABLES kv,        \* the table: the value of each number
          minimize,  \* MINIMIZE_IDENTIFIER_LENGTH
          purge,     \* PURGE_IDENTIFIER_CACHE
          objid,     \* the path that the control point holds, split at the slashes
          meant,     \* what its last identifier was made from
          old        \* the table was emptied since

vars == <<kv, minimize, purge, objid, meant, old>>

\* A part of a path: a number, a value in base64, or one that a slash cut off.
base64_encode(v) == IF v \in Slashed THEN <<<<"before", v>>, <<"after", v>>>> ELSE <<<<"whole", v>>>>
base64_decode(part) == IF part[1] = "whole" THEN part[2] ELSE Nothing

get_kv_items_by_value(v) == {n \in DOMAIN kv : kv[n] = v}
get_kv_item(n) == IF n \in DOMAIN kv THEN kv[n] ELSE Nothing
\* put_key_value_item() replaces the value of a key that exists.
save_kv_item(n, v) == [k \in DOMAIN kv \cup {n} |-> IF k = n THEN v ELSE kv[k]]

NewNumber == Cardinality(DOMAIN kv) + 1
Encoded(table, path) == [table |-> table, path |-> path]
\* Mutant of encode: the number of the next value.
EncodeNext(v) ==
  IF ~minimize THEN {Encoded(kv, base64_encode(v))}
  ELSE IF get_kv_items_by_value(v) # {} THEN {Encoded(kv, <<<<"number", n>>>>) : n \in get_kv_items_by_value(v)}
  ELSE {Encoded(save_kv_item(NewNumber, v), <<<<"number", NewNumber + 1>>>>)}
encode(v) ==
  IF ~minimize THEN {Encoded(kv, base64_encode(v))}
  ELSE IF get_kv_items_by_value(v) # {} THEN {Encoded(kv, <<<<"number", n>>>>) : n \in get_kv_items_by_value(v)}
  ELSE {Encoded(save_kv_item(NewNumber, v), <<<<"number", NewNumber>>>>)}
decode(part) ==
  IF minimize THEN (IF part[1] = "number" THEN get_kv_item(part[2]) ELSE Nothing)
  ELSE base64_decode(part)

\* browse(): every part is decoded, the last one is the page.
Browse(path) ==
  IF \E i \in DOMAIN path : decode(path[i]) = Nothing THEN Nothing ELSE decode(Last(path))

-----------------------------------------------------------------------------
\* A page lists its entries: each gets a number; the control point opens one.
ShowEntry(v) ==
  /\ objid # <<>> => Browse(objid) # Nothing
  /\ Len(objid) < MaxDepth
  /\ \E e \in encode(v) : kv' = e.table /\ objid' = objid \o e.path
  /\ meant' = v
  /\ UNCHANGED <<minimize, purge, old>>
Home ==
  /\ objid' = <<>> /\ meant' = Nothing /\ old' = FALSE
  /\ UNCHANGED <<kv, minimize, purge>>
purge_id_cache == IF purge THEN <<>> ELSE kv
Restart ==
  /\ kv' = purge_id_cache
  /\ old' = (old \/ (purge /\ objid # <<>>))
  /\ UNCHANGED <<minimize, purge, objid, meant>>

Init ==
  /\ kv = <<>> /\ minimize \in BOOLEAN /\ purge \in BOOLEAN
  /\ objid = <<>> /\ meant = Nothing /\ old = FALSE
Next == (\E v \in Values : ShowEntry(v)) \/ Home \/ Restart
Spec == Init /\ [][Next]_vars

-----------------------------------------------------------------------------
(* Properties. *)

\* The objid of an entry opens what the entry was made for, unless the table
\* was emptied meanwhile or a slash of base64 cuts the identifier (codec.decode).
ObjidOpens ==
  objid # <<>> /\ ~old /\ (\A p \in ToSet(objid) : p[1] \notin {"before", "after"}) => Browse(objid) = meant

\* No value has two numbers: encode() refuses to choose.
OneNumberEach == \A v \in Values : Cardinality(get_kv_items_by_value(v)) <= 1

=============================================================================
