----------------------------- MODULE AlbumBrowser -----------------------------
(***************************************************************************)
(* The album browser of the Subsonic plugin: a selection of albums that    *)
(* grows by one condition per page.  A page of keys offers the properties  *)
(* that still tell the matching albums apart, each with the number of its  *)
(* values; the page of a key offers its values, each with the number of    *)
(* albums that choosing it leaves, and [None] for the albums without it.   *)
(* The numbers come from one query and the pages from another.             *)
(***************************************************************************)
EXTENDS Naturals, FiniteSets, SequencesExt

CONSTANTS Albums, Keys,
          ValuesOf,     \* of each key: numbers, in the order of the query; none is an empty string
          SortedKeys,   \* the keys that sort_key_values() sorts
          MaxItems,     \* max_items of a key
          None          \* the value of a negative condition

VARIABLES data,     \* ALBUM_PROPERTY_V1: the values of each key of each album
          metadata, \* ALBUM_METADATA_V1: the albums that have a row
          page,     \* the page that is open
          seen      \* history: the values shown by the pages of the open key

vars == <<data, metadata, page, seen>>

ConditionKey(c) == c[1]
ConditionValue(c) == c[2]

-----------------------------------------------------------------------------
(* persistence.py: the queries. *)
Intersect(albums, k, v) == {a \in albums : v \in data[a][k]}
Except(albums, k) == {a \in albums : data[a][k] = {}}
Matching(conditions) ==
  FoldLeft(LAMBDA albums, c :
             IF ConditionValue(c) = None THEN Except(albums, ConditionKey(c))
             ELSE Intersect(albums, ConditionKey(c), ConditionValue(c)),
           {a \in Albums : \E k \in Keys : data[a][k] # {}}, conditions)
get_album_property_matching_count(conditions) == Cardinality(metadata \cap Matching(conditions))

Frequency(albums, k, v) == Cardinality(Intersect(albums, k, v))
ValuesIn(albums, k) == UNION {data[a][k] : a \in albums}
IsMissingForSome(albums, k) == Except(albums, k) # {}

ActiveKeys(conditions) == {ConditionKey(c) : c \in ToSet(conditions)}
\* The keys that are neither constant nor as good as an identifier, nor have a
\* value that all have, unless there is a condition on them already.
get_album_property_key_occurence_list(conditions) ==
  LET albums == Matching(conditions)  total == Cardinality(albums)
  IN {k \in Keys :
        /\ ValuesIn(albums, k) # {}
        /\ Cardinality(ValuesIn(albums, k)) > 1 \/ IsMissingForSome(albums, k)
        /\ Cardinality(ValuesIn(albums, k)) < total
        /\ (\A v \in ValuesIn(albums, k) : Frequency(albums, k, v) < total) \/ k \in ActiveKeys(conditions)}
get_album_property_value_occurence_list(conditions, k) == SetToSortSeq(ValuesIn(Matching(conditions), k), <)

-----------------------------------------------------------------------------
(* album_property_key.py *)
contains_positive(conditions, k, v) == <<k, v>> \in ToSet(conditions)
contains_negative(conditions, k) == <<k, None>> \in ToSet(conditions)
positive_count(conditions, k) ==
  Cardinality({i \in DOMAIN conditions : ConditionKey(conditions[i]) = k /\ ConditionValue(conditions[i]) # None})
sort_key_values(k, values) == IF k \in SortedKeys THEN Reverse(values) ELSE values

-----------------------------------------------------------------------------
(* subsonic-app.py: the pages. *)
KeyEntry(conditions, k) ==
  [key |-> k, count |-> Cardinality(ValuesIn(Matching(conditions), k)) - positive_count(conditions, k)
                        + (IF IsMissingForSome(Matching(conditions), k) THEN 1 ELSE 0)]
handler_tag_album_browser ==
  {KeyEntry(<<>>, k) : k \in {k \in get_album_property_key_occurence_list(<<>>) :
     Cardinality(ValuesIn(Matching(<<>>), k)) # 1 \/ IsMissingForSome(Matching(<<>>), k)}}
\* The page of a value: none of the keys when at most one album is left.
handler_album_browse_filter_value(conditions) ==
  IF get_album_property_matching_count(conditions) <= 1 THEN {}
  ELSE {KeyEntry(conditions, k) : k \in {k \in get_album_property_key_occurence_list(conditions) :
          /\ ~contains_negative(conditions, k)
          /\ \/ IsMissingForSome(Matching(conditions), k)
             \/ Cardinality(ValuesIn(Matching(conditions), k)) # positive_count(conditions, k)}}

\* The page of a key: the values without those chosen before, the first one
\* asked for [None] when the page is the first.
Offered(conditions, k) ==
  SelectSeq(get_album_property_value_occurence_list(conditions, k), LAMBDA v : ~contains_positive(conditions, k, v))
FromOffset(conditions, k, offset) ==
  LET values == Offered(conditions, k)
      show == IF offset = 0 /\ IsMissingForSome(Matching(conditions), k) THEN <<None>> \o values ELSE values
      at == SubSeq(show, offset + 1, Len(show))
  IN IF Len(at) = Len(values) THEN sort_key_values(k, at) ELSE at
Shown(conditions, k, offset) ==
  LET at == FromOffset(conditions, k, offset)
  IN SubSeq(at, 1, IF Len(at) > MaxItems THEN MaxItems ELSE Len(at))
HasNext(conditions, k, offset) == Len(FromOffset(conditions, k, offset)) > MaxItems
\* The number in a value's title, of the query that listed the values.
MatchCount(conditions, k, v) ==
  IF v = None THEN get_album_property_matching_count(Append(conditions, <<k, None>>))
  ELSE Frequency(Matching(conditions), k, v)

-----------------------------------------------------------------------------
Home == [at |-> "keys", conditions |-> <<>>]
KeyEntries == IF page.conditions = <<>> THEN handler_tag_album_browser
              ELSE handler_album_browse_filter_value(page.conditions)
OpenKey ==
  /\ page.at = "keys"
  /\ \E e \in KeyEntries :
       /\ page' = [at |-> "values", conditions |-> page.conditions, key |-> e.key, offset |-> 0, count |-> e.count]
       /\ seen' = Shown(page.conditions, e.key, 0)
  /\ UNCHANGED <<data, metadata>>
OpenNext ==
  /\ page.at = "values" /\ HasNext(page.conditions, page.key, page.offset)
  /\ page' = [page EXCEPT !.offset = @ + MaxItems]
  /\ seen' = seen \o Shown(page.conditions, page.key, page.offset + MaxItems)
  /\ UNCHANGED <<data, metadata>>
\* Mutant of Chosen: the earlier choices are lost.
ChosenOnly(conditions, k, v) == <<<<k, v>>>>
Chosen(conditions, k, v) == Append(conditions, <<k, v>>)
OpenValue ==
  /\ page.at = "values"
  /\ \E v \in ToSet(Shown(page.conditions, page.key, page.offset)) :
       page' = [at |-> "keys", conditions |-> Chosen(page.conditions, page.key, v),
                count |-> MatchCount(page.conditions, page.key, v), last |-> Cardinality(Matching(page.conditions)),
                again |-> page.key \in ActiveKeys(page.conditions)]
  /\ seen' = <<>>
  /\ UNCHANGED <<data, metadata>>

\* A row of ALBUM_PROPERTY_V1 refers to one of ALBUM_METADATA_V1 and goes with it
\* (a foreign key, ON DELETE CASCADE); an album may have no properties.
Init ==
  /\ data \in [Albums -> {d \in [Keys -> SUBSET UNION Range(ValuesOf)] : \A k \in Keys : d[k] \subseteq ValuesOf[k]}]
  /\ metadata \in {rows \in SUBSET Albums : \A a \in Albums \ rows, k \in Keys : data[a][k] = {}}
  /\ page = Home
  /\ seen = <<>>

Next == OpenKey \/ OpenNext \/ OpenValue

Spec == Init /\ [][Next]_vars

-----------------------------------------------------------------------------
(* Properties. *)

\* The number in the title of a value is the number of albums on the page that
\* it opens, and that page is never empty: the counts of one query agree with
\* the intersections of the other.
CountsMatch ==
  page.at = "keys" /\ page.conditions # <<>> =>
    /\ get_album_property_matching_count(page.conditions) = page.count
    /\ page.count > 0

\* Choosing a value of a key that has no condition yet leaves fewer albums: a
\* key with a value that all have is not offered (get_album_property_key_occurence_list).
ChoiceNarrows ==
  page.at = "keys" /\ page.conditions # <<>> =>
    page.count < page.last \/ page.again

\* The page of a key has entries, as many as its title says (on all its pages),
\* when [None] does not shift the pages after the first: an empty list raises
\* in handler_album_browse_filter_key().
KeyCountTells ==
  page.at = "values" =>
    /\ Shown(page.conditions, page.key, 0) # <<>>
    /\ ~HasNext(page.conditions, page.key, page.offset) /\ page.key \notin SortedKeys
       /\ (page.offset = 0 \/ ~IsMissingForSome(Matching(page.conditions), page.key))
         => Len(seen) = page.count /\ IsInjective(seen)

\* No value is chosen twice, and a value excludes [None]: the conditions never
\* contradict each other.
ConditionsDiffer ==
  /\ IsInjective(page.conditions)
  /\ \A k \in Keys : contains_negative(page.conditions, k) => positive_count(page.conditions, k) = 0

=============================================================================
