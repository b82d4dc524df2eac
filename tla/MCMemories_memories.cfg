SPECIFICATION MemoriesSpec
CONSTANTS
  ann = ann
  bob = bob
  p1 = p1
  p2 = p2
  onPhoto = onPhoto
  onAlbum = onAlbum
  t1 = t1
  t2 = t2
  like = like
  k1 = k1
  k2 = k2
  Users <- MCUsers
  Creator = ann
  Photos <- MCPhotos
  PhotoComments <- MCPhotoComments
  AlbumComments <- MCAlbumComments
  Texts <- MCTexts
  Types <- MCTypes
  Chunks <- MCChunks
  Slots <- MCSlots
  MaxRequests = 3
INVARIANTS
  
  RowsHaveFiles
  CommentsKeepUp
SYMMETRY Symmetry
CHECK_DEADLOCK FALSE
