----------------------------- MODULE MCMemories -----------------------------
EXTENDS Memories, TLC

CONSTANTS ann, bob, p1, p2, onPhoto, onAlbum, t1, t2, like, k1, k2

MCUsers == {ann, bob}
MCPhotos == {p1, p2}
MCPhotoComments == {onPhoto}
MCAlbumComments == {onAlbum}
MCTexts == {t1, t2}
MCTypes == {like}
MCChunks == {1}
MCSlots == {k1, k2}
Symmetry == Permutations(MCSlots) \cup Permutations(MCPhotos) \cup Permutations(MCTexts)
============================================================================
