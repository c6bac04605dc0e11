------------------------------ MODULE CoverFiles ------------------------------
(***************************************************************************)
(* The image cache of the Subsonic plugin: the cover of an item is a file  *)
(* named after it with the extension of the picture's type, written by the *)
(* page that shows it first, removed when it is old and the plugin starts. *)
(* The URL of a page names the file; there is none when it is not there.   *)
(***************************************************************************)
CONSTANTS Items,
          Dotted,     \* the items whose identifier has an extension of its own
          Types,      \* the supported types of pictures
          Other,      \* a content type that is not supported
          NoUrl, Broken

VARIABLES files,      \* <<item, extension>>: the files of the directory
          url         \* of the last page: the file named, or NoUrl

vars == <<files, url>>

\* The file of an item with an extension keeps its name.
FileOf(item, type) == <<item, IF item \in Dotted THEN Other ELSE type>>
match_images_only(item) == {f \in files : f[1] = item}

\* The path of a dotted item that is found is absolute, and so is its URL.
UrlOfFound(f) == IF f[1] \in Dotted THEN Broken ELSE f
\* The first of the files found is kept; os.remove() of another one may raise.
FirstFound(item, f, kept) == (files \ match_images_only(item)) \cup {f} \cup kept
ServeFound(item) ==
  \E f \in match_images_only(item) : \E kept \in SUBSET (match_images_only(item) \ {f}) :
    /\ files' = FirstFound(item, f, kept)
    /\ url' = IF kept = {} THEN UrlOfFound(f) ELSE NoUrl
\* What force_save cannot remove stays.
LeftBy(item) == {(files \ match_images_only(item)) \cup kept : kept \in {{}} \cup {{f} : f \in match_images_only(item)}}
ServeFetched(item, type) ==
  \E left \in LeftBy(item) :
    /\ files' = IF type \in Types THEN left \cup {FileOf(item, type)} ELSE left
    /\ url' = IF type \in Types THEN FileOf(item, type) ELSE NoUrl
\* The request or the write raises; the write may leave a truncated file.
ServeNothing(item) ==
  \E left \in LeftBy(item) : \E torn \in {{}} \cup {{FileOf(item, type)} : type \in Types} :
    files' = left \cup torn /\ url' = NoUrl
build_cover_art_url(item, force_save) ==
  IF match_images_only(item) # {} /\ ~force_save THEN ServeFound(item)
  ELSE ServeNothing(item) \/ \E type \in Types \cup {Other} : ServeFetched(item, type)
prune_cache == \E old \in SUBSET files : files' = files \ old /\ url' = NoUrl

Init == files = {} /\ url = NoUrl
Next == prune_cache \/ \E item \in Items, force_save \in BOOLEAN : build_cover_art_url(item, force_save)
Spec == Init /\ [][Next]_vars

-----------------------------------------------------------------------------
(* Properties. *)

\* A URL of the plugin's own web server names a file that is there, except for
\* the items whose identifier has an extension (__build_cover_art_url).
LocalUrlsExist == url \notin {NoUrl, Broken} => url \in files

=============================================================================
