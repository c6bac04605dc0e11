------------------------------- MODULE MCMenus -------------------------------
(***************************************************************************)
(* The menus of the Tidal and Subsonic plugins, and the pages of their     *)
(* lists.  A behaviour is one of one part; they share the variables only.  *)
(***************************************************************************)
EXTENDS Naturals

VARIABLES part, v1, v2, v3, v4, v5, v6, v7, v8
vars == <<part, v1, v2, v3, v4, v5, v6, v7, v8>>

\* One artist with one album of one track; at most one of them is withdrawn.
Tidal == INSTANCE TidalMenu WITH
  store <- v1, gone <- v2, here <- v3, page <- v4, raised <- v5, fresh <- v6
Subsonic == INSTANCE SubsonicMenu WITH
  lib <- v1, gone <- v2, store <- v3, here <- v4, page <- v5, raised <- v6, answered <- v7
\* Lists of up to five items on pages of two; tracks of three albums.
Lists == INSTANCE Paging WITH
  MaxItems <- 5, PageSize <- 2, Ids <- {1, 2, 3},
  Handlers <- {"plus_one", "rest", "search", "played_albums", "bookmark_albums", "bookmarks", "unique", "segments"},
  handler <- v1, ids <- v2, gone <- v3, offset <- v4, last <- v5, pages <- v6, more <- v7, raised <- v8

Init ==
  \/ part = "tidal" /\ Tidal!Init /\ v7 = 0 /\ v8 = 0
  \/ part = "subsonic" /\ Subsonic!Init /\ v8 = 0
  \/ part = "lists" /\ Lists!Init
Next ==
  /\ \/ part = "tidal" /\ Tidal!Next /\ UNCHANGED <<v7, v8>>
     \/ part = "subsonic" /\ Subsonic!Next /\ UNCHANGED v8
     \/ part = "lists" /\ Lists!Next
  /\ UNCHANGED part
Spec == Init /\ [][Next]_vars

\* Every entry of every page leads to a handler that finds what it reads, and only
\* what the service has withdrawn or does not answer makes a handler raise, or a
\* full page that ends the list of played albums (browse, __elem_action_dict,
\* __tag_action_dict, handler_element_recently_played_albums).
EntriesOpen ==
  /\ part = "tidal" => Tidal!EveryEntryOpens /\ Tidal!OnlyWithdrawnRaises
  /\ part = "subsonic" => Subsonic!EveryEntryOpens /\ Subsonic!OnlyFailuresRaise
\* The buttons of a page just opened offer what is not so already
\* (handler_element_*_action).
ButtonsTell == part = "tidal" => Tidal!ButtonsTell
\* A Next entry continues the list that the page shows, and following it shows
\* the list (create_next_button, create_next_entry).
NextContinues ==
  /\ part = "subsonic" => Subsonic!NextKeepsTheList
  /\ part = "lists" => Lists!WalkShowsList
\* Only its own button bookmarks a thing, and the database forgets a thing just
\* when its own page misses it (delete_metadata).
StoreFollows ==
  [][/\ part = "tidal" => Tidal!OnlyButtonsBookmark
     /\ part = "subsonic" => Subsonic!ForgottenWhenMissed /\ Subsonic!MissingIsForgotten]_vars
=============================================================================
