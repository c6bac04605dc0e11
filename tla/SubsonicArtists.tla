--------------------------- MODULE SubsonicArtists ---------------------------
(***************************************************************************)
(* The artists of the Subsonic plugin and their roles: the caching thread  *)
(* walks through the artists of the server and prunes those it did not     *)
(* meet, while the page of an artist saves or forgets one of them, each    *)
(* statement a transaction of its own.  The index of a role reads what is  *)
(* committed: the initials, and the pages of an initial.                   *)
(***************************************************************************)
EXTENDS Integers, FiniteSets, SequencesExt

CONSTANTS Artists,      \* numbers: the order of the sort names and of the server
          Roles,
          InitialOf,    \* the first letter of each artist's sort name
          Wild,         \* the initials that LIKE reads as a wildcard
          ReqCount,     \* artists per request of the walk
          PageSize,     \* MAX_ARTISTS_PER_PAGE
          MaxChanges

VARIABLES server,   \* the roles of the artists of the server
          db,       \* committed: artists, those saved since the walk began, roles
          walk,     \* the walk of the caching thread: idle, or its offset
          page,     \* the page of an artist
          changes,
          calm      \* history: since the walk began nothing but the two threads acted

vars == <<server, db, walk, page, changes, calm>>

Idle == [at |-> "idle"]
Sorted(artists) == SetToSortSeq(artists, <)
Slice(s, offset, limit) == SubSeq(s, offset + 1, Min({offset + limit, Len(s)}))

-----------------------------------------------------------------------------
(* persistence.py: statements. *)
\* INSERT, or UPDATE of what get_artist_metadata() found: nothing when it is gone.
save_artist_metadata(d, a) ==
  [d EXCEPT !.artists = @ \cup {a}, !.fresh = @ \cup {a}]
UpdateRow(d, a) == IF a \in d.artists THEN [d EXCEPT !.fresh = @ \cup {a}] ELSE d
load_artist_roles(d, a) == {r \in Roles : <<a, r>> \in d.roles}
update_artist_roles(d, a, had, roles) ==
  [d EXCEPT !.roles = (@ \cup ({a} \X (roles \ had))) \ ({a} \X (had \ roles))]
\* A row that exists already, or one without its artist, is refused.
RolesRefused(d, a, had, roles) ==
  roles \ had # {} /\ (a \notin d.artists \/ \E r \in roles \ had : <<a, r>> \in d.roles)
\* The roles of an artist are deleted with it.
WithoutArtists(d, gone) ==
  [artists |-> d.artists \ gone, fresh |-> d.fresh \ gone, roles |-> {p \in d.roles : p[1] \notin gone}]
delete_artist_metadata(d, a) == WithoutArtists(d, {a})
prune_artist_metadata(d) == WithoutArtists(d, d.artists \ d.fresh)

-----------------------------------------------------------------------------
(* preload_artists(): a request per step, whose rows are committed together;    *)
(* the last ones with the prune.                                                *)
StartWalk ==
  /\ walk = Idle
  /\ walk' = [at |-> "ask", offset |-> 0]
  /\ db' = [db EXCEPT !.fresh = {}]
  /\ calm' = (page = Idle)
  /\ UNCHANGED <<server, page, changes>>
Answer == Slice(Sorted(DOMAIN server), walk.offset, ReqCount)
Stored(d, answer) ==
  FoldLeft(LAMBDA e, a : update_artist_roles(save_artist_metadata(e, a), a, load_artist_roles(e, a), server[a]),
           d, answer)
\* Mutant of NextOffset: one artist is passed over.
NextButOne(offset) == offset + ReqCount + 1
NextOffset(offset) == offset + ReqCount
PreloadPage ==
  /\ walk.at = "ask"
  /\ IF Len(Answer) < ReqCount
     THEN db' = prune_artist_metadata(Stored(db, Answer)) /\ walk' = [at |-> "done"]
     ELSE db' = Stored(db, Answer) /\ walk' = [walk EXCEPT !.offset = NextOffset(@)]
  /\ UNCHANGED <<server, page, changes, calm>>
PreloadFails ==
  /\ walk.at = "ask"
  /\ walk' = Idle
  /\ UNCHANGED <<server, db, page, changes, calm>>
Rest ==
  /\ walk.at = "done"
  /\ walk' = Idle
  /\ UNCHANGED <<server, db, page, changes, calm>>

-----------------------------------------------------------------------------
(* handler_element_artist(): what the page of an artist saves. *)
AskArtist(a) ==
  /\ page = Idle
  /\ IF a \in DOMAIN server
     THEN page' = [at |-> "find", artist |-> a, roles |-> server[a]] /\ UNCHANGED db
     ELSE db' = delete_artist_metadata(db, a) /\ UNCHANGED page
  /\ UNCHANGED <<server, walk, changes, calm>>
\* try_get_artist() answers nothing for a failure, too.
AskFails(a) ==
  /\ page = Idle
  /\ db' = delete_artist_metadata(db, a)
  /\ calm' = FALSE
  /\ UNCHANGED <<server, walk, page, changes>>
FindArtist ==
  /\ page.at = "find"
  /\ page' = [page EXCEPT !.at = "save"] @@ [found |-> page.artist \in db.artists]
  /\ UNCHANGED <<server, db, walk, changes, calm>>
SaveArtist ==
  /\ page.at = "save"
  /\ IF ~page.found /\ page.artist \in db.artists
     THEN page' = Idle /\ UNCHANGED db                \* the row exists: the page raises
     ELSE LET d == IF page.found THEN UpdateRow(db, page.artist) ELSE save_artist_metadata(db, page.artist)
          IN db' = d /\ page' = [page EXCEPT !.at = "roles"] @@ [had |-> load_artist_roles(d, page.artist)]
  /\ UNCHANGED <<server, walk, changes, calm>>
SaveRoles ==
  /\ page.at = "roles"
  /\ db' = IF RolesRefused(db, page.artist, page.had, page.roles) THEN db
           ELSE update_artist_roles(db, page.artist, page.had, page.roles)
  /\ page' = Idle
  /\ UNCHANGED <<server, walk, changes, calm>>

ServerChange ==
  /\ changes < MaxChanges
  /\ \E known \in SUBSET Artists : server' \in [known -> SUBSET Roles] /\ server' # server
  /\ changes' = changes + 1
  /\ calm' = FALSE
  /\ UNCHANGED <<db, walk, page>>

Init ==
  /\ \E known \in SUBSET Artists : server \in [known -> SUBSET Roles]
  /\ db = [artists |-> {}, fresh |-> {}, roles |-> {}]
  /\ walk = Idle /\ page = Idle /\ changes = 0 /\ calm = FALSE

WalkStep == StartWalk \/ PreloadPage \/ Rest
PageStep == FindArtist \/ SaveArtist \/ SaveRoles
Next == WalkStep \/ PreloadFails \/ PageStep \/ (\E a \in Artists : AskArtist(a) \/ AskFails(a)) \/ ServerChange

Spec == Init /\ [][Next]_vars

-----------------------------------------------------------------------------
(* The index of a role. *)
WithRole(role) == {a \in db.artists : <<a, role>> \in db.roles}
get_artist_roles == {role \in Roles : WithRole(role) # {}}
get_artist_role_initials(role) == {InitialOf[a] : a \in WithRole(role)}
get_artist_by_role_and_initial(role, initial, offset, limit) ==
  Slice(Sorted({a \in WithRole(role) : InitialOf[a] = initial \/ initial \in Wild}), offset, limit)
handler_element_artist_role_initial(role, initial, offset) ==
  LET artists == get_artist_by_role_and_initial(role, initial, offset, PageSize + 1)
  IN [shown |-> Slice(artists, 0, PageSize),
      has_next |-> Len(artists) = PageSize + 1]
\* What following Next shows.
Walked(role, initial) ==
  LET from[offset \in 0..Cardinality(Artists) + PageSize] ==
        LET p == handler_element_artist_role_initial(role, initial, offset)
        IN p.shown \o (IF p.has_next THEN from[offset + PageSize] ELSE <<>>)
  IN from[0]

-----------------------------------------------------------------------------
(* Properties. *)

\* After a walk during which the server did not change and answered, the
\* database has its artists with their roles, whatever page was opened meanwhile.
FollowsServer ==
  walk.at = "done" /\ calm /\ page = Idle =>
    /\ db.artists = DOMAIN server
    /\ \A a \in Artists : load_artist_roles(db, a) = (IF a \in DOMAIN server THEN server[a] ELSE {})

\* Each artist of a role is on the pages of its initial exactly once, and under
\* no other initial than those that LIKE takes for a wildcard.
IndexComplete ==
  \A role \in get_artist_roles :
    /\ \A a \in WithRole(role) : InitialOf[a] \in get_artist_role_initials(role)
    /\ \A initial \in get_artist_role_initials(role) :
         LET walked == Walked(role, initial)
         IN /\ IsInjective(walked)
            /\ initial \notin Wild => ToSet(walked) = {a \in WithRole(role) : InitialOf[a] = initial}
            /\ initial \in Wild => ToSet(walked) = WithRole(role)

=============================================================================
