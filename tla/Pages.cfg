SPECIFICATION Spec
CONSTANTS
  BrowserAlbums = {a1, a2, a3, a4}
  OneRole = composer
  Absent = Absent
  Broken = Broken
SYMMETRY Alike
INVARIANTS
  SelectionKeepsPromises
  ArtistsFollow
  LinksOpen
  CoversFit
  AlbumsShownRight
  LibraryShown
PROPERTY AnswersAreRecent
CHECK_DEADLOCK FALSE
