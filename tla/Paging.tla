------------------------------- MODULE Paging -------------------------------
(***************************************************************************)
(* The long lists of the plugins: a handler shows one page of a list, from *)
(* the offset of its identifier on, and ends it with a "Next" entry whose  *)
(* identifier holds the next offset.  Each handler decides in its own way  *)
(* what it fetches, whether there is a next page and where it starts; a    *)
(* walk follows Next from the first page to the last one.                  *)
(***************************************************************************)
EXTENDS Naturals, Sequences, FiniteSets

CONSTANTS MaxItems,   \* bound on the length of a list
          PageSize,   \* items, albums, artists or tracks per page
          Ids,        \* the albums (or artists) of the tracks of a mix or playlist
          Handlers    \* the handlers whose walks are checked

VARIABLES handler,  \* the handler that shows the list
          ids,      \* the ids of the items of the list
          gone,     \* the positions whose item the service cannot give any more
          offset,   \* the offset of the page to show next
          last,     \* LAST_FOUND_ID of the Next entry, or NoId
          pages,    \* the pages shown so far
          more,     \* the last page has a Next entry, or none was shown yet
          raised    \* the handler raised an exception

vars == <<handler, ids, gone, offset, last, pages, more, raised>>

NoId == 0   \* no id is 0
Lesser(a, b) == IF a < b THEN a ELSE b
From(o) == SubSeq(ids, o + 1, Len(ids))
Slice(o, n) == SubSeq(ids, o + 1, Lesser(o + n, Len(ids)))
Front(seq, n) == SubSeq(seq, 1, Lesser(n, Len(seq)))
Ran(seq) == {seq[i] : i \in DOMAIN seq}

\* A page: the ids shown, whether it ends with Next, and what Next holds.
Page(show, next, at) ==
  [show |-> show, more |-> next, offset |-> at, last |-> NoId, raised |-> FALSE]
Raised == [Page(<<>>, FALSE, offset) EXCEPT !.raised = TRUE]

\* An item that cannot be loaded is left out of the page that should show it.
Available(o, n) ==
  LET at == SelectSeq([k \in 1 .. Lesser(n, Len(ids) - o) |-> o + k], LAMBDA k : k \notin gone)
  IN [k \in DOMAIN at |-> ids[at[k]]]

-----------------------------------------------------------------------------
\* One item more than a page is asked of the service: it decides about Next.
PlusOne ==
  LET fetched == Slice(offset, PageSize + 1) IN
    Page(Available(offset, PageSize), Len(fetched) = PageSize + 1, offset + PageSize)

\* The whole list is loaded and cut.
Rest ==
  Page(Available(offset, PageSize), Len(From(offset)) > PageSize, offset + PageSize)

\* A search page: Next when it is full, even if nothing follows.
Search ==
  LET found == Slice(offset, PageSize) IN
    Page(found, Len(found) = PageSize, offset + Len(found))

\* The albums played recently or most.  The item after the page gives the
\* image of Next; a list that ends with the page has none.
PlayedAlbums ==
  LET rest == From(offset) IN
    IF Len(rest) = PageSize THEN Raised
    ELSE Page(Available(offset, PageSize), Len(rest) > PageSize, offset + PageSize)

\* Bookmarks: the positions from the offset on up to the one where the page is
\* full.  An album that is not available is not counted.

BookmarkAlbums ==
  LET rest == (offset + 1) .. Len(ids)
      count(k) == Cardinality(((offset + 1) .. k) \ gone)
      full == {k \in rest \ gone : count(k) = PageSize}
      end == IF full = {} THEN Len(ids) ELSE CHOOSE k \in full : TRUE
  IN Page(Available(offset, end - offset), end < Len(ids), end)

\* An artist or track is counted before it fails, and the test that ends the
\* page comes after: when the one that fills the page fails, the page goes on
\* to the end of the list.
Bookmarks ==
  LET k == offset + PageSize
      end == IF k <= Len(ids) /\ k \notin gone THEN k ELSE Len(ids)
  IN Page(Available(offset, end - offset), end < Len(ids), end)

\* load_unique_ids_from_mix_or_playlist: the tracks from the offset on, until
\* there are n ids that are all different and not the last one displayed.
Collected(o, n, lastFound) ==
  LET new(k) == ids[k] # lastFound /\ \A j \in (o + 1) .. (k - 1) : ids[j] # ids[k]
      hits(k) == Cardinality({j \in (o + 1) .. k : new(j)})
      full == {k \in (o + 1) .. Len(ids) : new(k) /\ hits(k) = n}
      end == IF full = {} THEN Len(ids) ELSE CHOOSE k \in full : TRUE
      at == SelectSeq([k \in 1 .. (end - o) |-> o + k], new)
  IN [ids |-> [k \in DOMAIN at |-> ids[at[k]]], offset |-> end]

\* The page shows all but the last of PageSize + 1 ids; Next starts after the
\* track of that one.
Unique ==
  LET found == Collected(offset, PageSize + 1, last)
      next == Len(found.ids) = PageSize + 1
      show == IF next THEN Front(found.ids, PageSize) ELSE found.ids
  IN [Page(show, next, found.offset) EXCEPT !.last = IF next THEN show[Len(show)] ELSE NoId]

\* The segments of a mix or playlist: each entry holds its offset and size.
Segments ==
  LET modulo == Len(ids) % PageSize
      count == Len(ids) \div PageSize + (IF modulo > 0 THEN 1 ELSE 0)
      idx == offset \div PageSize
      size == IF modulo = 0 \/ idx < count - 1 THEN PageSize ELSE modulo
  IN IF count = 0 THEN Page(<<>>, FALSE, offset)
     ELSE Page(Available(offset, size), idx + 1 < count, offset + PageSize)

PageOf ==
  [plus_one |-> PlusOne, rest |-> Rest, search |-> Search, played_albums |-> PlayedAlbums,
   bookmark_albums |-> BookmarkAlbums, bookmarks |-> Bookmarks, unique |-> Unique,
   segments |-> Segments]

-----------------------------------------------------------------------------
\* Only the walk of a mix or playlist by album tells two items apart by an id;
\* the service gives every track of a search, a segment or a mix.
Lists(h) ==
  LET upTo == UNION {[1 .. n -> Ids] : n \in 0 .. MaxItems} IN
    IF h = "unique" THEN upTo ELSE {[i \in 1 .. n |-> i] : n \in 0 .. MaxItems}
Losses(h, seq) == IF h \in {"unique", "search"} THEN {{}} ELSE SUBSET DOMAIN seq

Init ==
  /\ handler \in Handlers
  /\ ids \in Lists(handler)
  /\ gone \in Losses(handler, ids)
  /\ offset = 0 /\ last = NoId /\ pages = <<>>
  /\ more = TRUE /\ raised = FALSE

OpenNext ==
  LET page == PageOf[handler] IN
    /\ more /\ Len(pages) <= MaxItems   \* a page of each item, and an empty one
    /\ pages' = Append(pages, page.show)
    /\ more' = page.more /\ offset' = page.offset
    /\ last' = page.last /\ raised' = page.raised
    /\ UNCHANGED <<handler, ids, gone>>

Next == OpenNext
Spec == Init /\ [][Next]_vars

-----------------------------------------------------------------------------
\* What a walk should show: every item that can be shown, once, in order.
Wanted ==
  LET at == SelectSeq([k \in 1 .. Len(ids) |-> k],
              LAMBDA k : k \notin gone /\ \A j \in 1 .. (k - 1) : ids[j] # ids[k])
  IN [k \in DOMAIN at |-> ids[at[k]]]
ShownOf[n \in 0 .. Len(pages)] == IF n = 0 THEN <<>> ELSE ShownOf[n - 1] \o pages[n]
Shown == ShownOf[Len(pages)]

\* A walk that has no Next left has shown the whole list, each item once and in
\* order, whatever the service could not give (the loops and the Next tests of
\* the handlers); that of a mix by album or artist loses the one after each full
\* page.
EveryItemOnce ==
  ~more /\ ~raised =>
    IF handler = "unique" THEN Ran(Shown) \subseteq Ran(ids) /\ Cardinality(Ran(ids) \ Ran(Shown)) < Len(pages)
    ELSE Shown = Wanted

\* No page is longer than the configured length (albums_per_page and the like),
\* but one of bookmarked artists or tracks of which one is not available.
PageWithinLimit == \A i \in DOMAIN pages : Len(pages[i]) <= PageSize \/ (handler = "bookmarks" /\ gone # {})

\* Whoever follows Next comes to the end of the list, without an exception but at
\* the albums played when the last page is full (create_next_button).
WalkEnds ==
  /\ Len(pages) = MaxItems + 1 => ~more
  /\ raised => handler = "played_albums"

\* Following Next shows the list.
WalkShowsList == EveryItemOnce /\ PageWithinLimit /\ WalkEnds

=============================================================================
