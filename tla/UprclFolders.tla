----------------------------- MODULE UprclFolders -----------------------------
(***************************************************************************)
(* The local media server (uprcl) turns the list of indexed documents into *)
(* a tree of directories, with directories for playlists and for the tag   *)
(* "group", and shows it to control points together with the playlists and *)
(* the documents without a title.                                          *)
(***************************************************************************)
EXTENDS Integers, Sequences, FiniteSets, SequencesExt

CONSTANTS Documents,  \* [path, kind, group, titled, list]: the index may hold any of them, in any order
          TopDirs,    \* possible configurations: sequences of paths
          Begins,     \* <<name, prefix>>: the text of the name starts with the prefix
          NoGroup, Audio, Directory, List, Other

VARIABLES phase,      \* "index", "build", "walk", "end"
          topdirs, rcldocs,
          dirvec,     \* the directories: name -> [dir, doc]; the root is the first
          pldirs,     \* the directories of playlists
          todo,       \* directories to open
          opened, shown

vars == <<phase, topdirs, rcldocs, dirvec, pldirs, todo, opened, shown>>

NoDir == -1
NoDoc == -1
\* The names of entries are paths: of a top directory in the root, else of one name.
Up == <<"..">>
Here == <<".">>
Ids(dir, doc) == [dir |-> dir, doc |-> doc]
With(d, name, ids) == [n \in DOMAIN d \cup {name} |-> IF n = name THEN ids ELSE d[n]]
\* Directories are counted from 0; -1 is the last one, as in a list of Python.
At(vec, i) == IF i = NoDir THEN Len(vec) ELSE i + 1
Doc(i) == rcldocs[i + 1]

StartsWith(path, top) ==
  /\ Len(path) >= Len(top)
  /\ \A i \in 1..Len(top) - 1 : path[i] = top[i]
  /\ path[Len(top)] = Last(top) \/ <<path[Len(top)], Last(top)>> \in Begins
TopOf(path) ==
  LET matching == {i \in DOMAIN topdirs : StartsWith(path, topdirs[i])}
  IN IF matching = {} THEN 0 ELSE CHOOSE i \in matching : \A j \in matching : i <= j
\* The top directory of a path and the names below it, with the virtual
\* directory of the group.
_splitpath(path, group) ==
  LET top == TopOf(path)
  IN IF top = 0 THEN <<0, <<>>>>
     ELSE IF path = topdirs[top] THEN <<0, <<>>>>
     ELSE LET below == SubSeq(path, Len(topdirs[top]) + 1, Len(path))
          IN <<top, IF group = NoGroup \/ below = <<>> THEN below ELSE Front(below) \o <<group, Last(below)>>>>

Tree(vec, lists) == [vec |-> vec, lists |-> lists]
NewDir(father, idx, doc) == [n \in {Up, Here} |-> IF n = Up THEN Ids(father, NoDoc) ELSE Ids(idx, doc)]
_createdir(vec, father, doc, name) ==
  LET idx == Len(vec)
  IN Append([vec EXCEPT ![At(vec, father)] = With(@, name, Ids(idx, doc))], NewDir(father, idx, doc))
\* The document of a known name is known now.
Updated(ids, doc) == Ids(ids.dir, doc)
\* One name of the path of a document: known, or new and then a directory
\* unless it is the last one.
AddName(t, father, name, last, docidx) ==
  LET d == t.vec[At(t.vec, father)]
      kind == Doc(docidx).kind
  IN IF name \in DOMAIN d
     THEN [dir |-> d[name].dir,
           tree |-> IF last THEN Tree([t.vec EXCEPT ![At(t.vec, father)] = With(@, name, Updated(d[name], docidx))], t.lists) ELSE t]
     ELSE IF ~last THEN [dir |-> Len(t.vec), tree |-> Tree(_createdir(t.vec, father, NoDoc, name), t.lists)]
     ELSE IF kind = Directory THEN [dir |-> Len(t.vec), tree |-> Tree(_createdir(t.vec, father, docidx, name), t.lists)]
     ELSE IF kind = List THEN [dir |-> Len(t.vec), tree |-> Tree(_createdir(t.vec, father, docidx, name), Append(t.lists, Len(t.vec)))]
     ELSE [dir |-> NoDir, tree |-> Tree([t.vec EXCEPT ![At(t.vec, father)] = With(@, name, Ids(NoDir, docidx))], t.lists)]
AddDocument(t, docidx) ==
  LET split == _splitpath(Doc(docidx).path, Doc(docidx).group)
      step(acc, i) == AddName(acc.tree, acc.dir, <<split[2][i]>>, i = Len(split[2]), docidx)
  IN IF split[1] = 0 THEN t
     ELSE FoldLeft(step, [dir |-> split[1], tree |-> t], [i \in DOMAIN split[2] |-> i]).tree
TopTree ==
  Tree(<<[n \in {Up} \cup {topdirs[i] : i \in DOMAIN topdirs} |->
            IF n = Up THEN Ids(0, NoDoc) ELSE Ids(CHOOSE i \in DOMAIN topdirs : topdirs[i] = n, NoDoc)]>>
       \o [i \in DOMAIN topdirs |-> [n \in {Up} |-> Ids(0, NoDoc)]], <<>>)
_rcl2folders == FoldLeft(AddDocument, TopTree, [i \in DOMAIN rcldocs |-> i - 1])

\* The document at a path: without its group, the path alone does not tell it.
_stat(vec, path) ==
  LET split == _splitpath(path, NoGroup)
      step(acc, name) ==
        IF acc.dir = -2 THEN acc
        ELSE LET d == vec[At(vec, acc.dir)] IN IF <<name>> \in DOMAIN d THEN d[<<name>>] ELSE Ids(-2, NoDoc)
  IN IF split[1] = 0 THEN Ids(-2, NoDoc) ELSE FoldLeft(step, Ids(split[1], NoDoc), split[2])
statpath(vec, path) == _stat(vec, path).doc

\* The tracks that a playlist names, found by their paths, under their file names.
AddTrack(vec, dir, path) ==
  IF statpath(vec, path) = NoDoc THEN vec
  ELSE [vec EXCEPT ![At(vec, dir)] = With(@, <<Last(path)>>, Ids(NoDir, statpath(vec, path)))]
_initplaylists(t) ==
  LET one(vec, dir) == FoldLeft(LAMBDA v, path : AddTrack(v, dir, path), vec, Doc(vec[At(vec, dir)][Here].doc).list)
  IN FoldLeft(one, t.vec, t.lists)

-----------------------------------------------------------------------------
(* What control points see. *)

\* With one top directory, the root shows what is in it.
Opening(i) == IF i = 0 /\ Cardinality(DOMAIN dirvec[1]) = 2 THEN 1 ELSE i
Entries(i) == {name \in DOMAIN dirvec[At(dirvec, Opening(i))] : name \notin {Up, Here}}
Entry(i, name) == dirvec[At(dirvec, Opening(i))][name]
IsAudio(docidx) == Doc(docidx).kind \in {Audio, Directory, List}
SubDirs(i) ==
  {Entry(i, n).dir : n \in {m \in Entries(i) : Entry(i, m).dir # NoDir /\ Cardinality(DOMAIN dirvec[At(dirvec, Entry(i, m).dir)]) # 1}}
Items(i) ==
  {Entry(i, n).doc : n \in {m \in Entries(i) : Entry(i, m).dir = NoDir /\ Entry(i, m).doc # NoDoc /\ IsAudio(Entry(i, m).doc)}}

\* The path of a directory, for its view of tags: up to the root.
PathUp[i \in Nat] ==
  LET father == dirvec[i + 1][Up].dir
      names == {n \in DOMAIN dirvec[father + 1] \ {Up, Here} : dirvec[father + 1][n].dir = i}
  IN IF i = 0 \/ names = {} THEN <<>>
     ELSE LET name == CHOOSE n \in names : TRUE IN IF father = 0 THEN name ELSE PathUp[father] \o name
dirpath(i) == PathUp[i]

\* The lists of the two other trees.
_pldocsidx == SelectSeq([i \in DOMAIN rcldocs |-> i - 1], LAMBDA d : Doc(d).kind = List)
_playlistatidx(idx) ==
  LET found == SelectSeq(Doc(_pldocsidx[idx]).list, LAMBDA path : statpath(dirvec, path) # NoDoc)
  IN SelectSeq([i \in DOMAIN found |-> statpath(dirvec, found[i])], IsAudio)
utidx == SelectSeq([i \in DOMAIN rcldocs |-> i - 1], LAMBDA d : Doc(d).kind \notin {Directory, List} /\ ~Doc(d).titled)

-----------------------------------------------------------------------------
(* Actions. *)

Index(d) ==
  /\ phase = "index" /\ d \in Documents \ ToSet(rcldocs)
  /\ \E i \in DOMAIN topdirs : IsPrefix(topdirs[i], d.path)
  /\ rcldocs' = Append(rcldocs, d)
  /\ UNCHANGED <<phase, topdirs, dirvec, pldirs, todo, opened, shown>>
Build ==
  /\ phase = "index"
  /\ phase' = "walk"
  /\ dirvec' = _initplaylists(_rcl2folders) /\ pldirs' = _rcl2folders.lists
  /\ todo' = {0}
  /\ UNCHANGED <<topdirs, rcldocs, opened, shown>>
browse(i) ==
  /\ phase = "walk" /\ i \in todo /\ \A j \in todo : i <= j
  /\ todo' = (todo \ {i}) \cup (SubDirs(i) \ opened)
  /\ opened' = opened \cup {i}
  /\ shown' = shown \cup {<<i, d>> : d \in Items(i)}
  /\ UNCHANGED <<phase, topdirs, rcldocs, dirvec, pldirs>>
EndWalk ==
  /\ phase = "walk" /\ todo = {}
  /\ phase' = "end" /\ UNCHANGED <<topdirs, rcldocs, dirvec, pldirs, todo, opened, shown>>

Init ==
  /\ phase = "index" /\ topdirs \in TopDirs
  /\ rcldocs = <<>> /\ dirvec = <<>> /\ pldirs = <<>>
  /\ todo = {} /\ opened = {} /\ shown = {}
Next == (\E d \in Documents : Index(d)) \/ Build \/ (\E i \in todo : browse(i)) \/ EndWalk
Spec == Init /\ [][Next]_vars

-----------------------------------------------------------------------------
(* Properties. *)

\* Two top directories of which one starts with the text of the other lie in
\* one tree: a name of the path is lost.
Apart == \A i, j \in DOMAIN topdirs : StartsWith(topdirs[i], topdirs[j]) => i = j
Below(docidx) == Doc(docidx).path \notin ToSet(topdirs)

\* A walk through the folders shows every song below the top directories in
\* one directory, whatever the order of the index, and among the untagged ones
\* when it has no title; top directories with a common beginning may hide a song
\* behind another one (_rcl2folders, browse, recoll2untagged).
EverySongShown ==
  phase = "end" /\ Apart =>
    \A d \in 0..Len(rcldocs) - 1 :
      Doc(d).kind = Audio /\ Below(d) =>
        /\ (d \in ToSet(utidx)) = ~Doc(d).titled
        /\ Cardinality({x \in shown : x[2] = d /\ \A k \in DOMAIN pldirs : pldirs[k] # x[1]}) = 1
\* The path of a directory leads back to it, so that its view of tags is that
\* of its songs (dirpath, _stat).
PathsLeadBack ==
  phase = "end" /\ Apart => \A i \in opened \ {0} : dirpath(i) \notin ToSet(topdirs) => _stat(dirvec, dirpath(i)).dir = i
\* The directory of a playlist shows the songs that the playlist shows, but one
\* of those with the same file name; a song of a group is in neither
\* (_initplaylists, _playlistatidx).
ListsAgree ==
  phase = "end" =>
    \A k \in DOMAIN pldirs : \E i \in DOMAIN _pldocsidx :
      LET list == _playlistatidx(i)
          inDir == {x[2] : x \in {y \in shown : y[1] = pldirs[k]}}
      IN _pldocsidx[i] = dirvec[pldirs[k] + 1][Here].doc /\ inDir \subseteq ToSet(list) /\ \A s \in ToSet(list) : \E t \in inDir : Last(Doc(t).path) = Last(Doc(s).path)

=============================================================================
