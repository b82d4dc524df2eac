--------------------------- MODULE Memories_proofs ---------------------------
(***************************************************************************)
(* Proofs about the album of module Memories: its types, that every photo  *)
(* has its files, that the count of photos is right, that the comments     *)
(* keep up, that the creator stays a member and the token serves once.     *)
(***************************************************************************)
EXTENDS Memories, FiniteSetTheorems, TLAPS

USE MemoriesAssumption DEF Comments

-----------------------------------------------------------------------------
(* Types.                                                                  *)

\* What a request holds while it is suspended.
Members == [op: {"wipe", "fill"}, list: SUBSET Users]
Update == [op: {"update"}, private: BOOLEAN, relist: BOOLEAN, list: SUBSET Users]
Drops == [op: {"drop"}, files: SUBSET (Photos \X Parts)]
Uploads == [op: {"upload"}, by: Users, todo: SUBSET Photos, size: Nat, failed: BOOLEAN]
Removals == [op: {"remove"}, of: Photos, files: SUBSET (Photos \X Parts)]
Merges == [op: {"merge", "merged", "store", "count"}, of: Photos, by: Users, video: BOOLEAN]
Reactions == [Users -> Types \cup {None}]
AddedComments == [op: {"comment"}, of: Comments, new: Comment]
Edits == [op: {"edit"}, of: Comments, text: Texts]
Deletions == [op: {"uncomment"}, of: Comments]
Toggles == [op: {"react"}, of: Comments, by: Users, reactions: Reactions]
Translations == [op: {"translate"}, of: Comments, text: Texts]

AlbumFlight == {Idle} \cup Members \cup Update \cup Drops
PhotoFlight == Uploads \cup Removals \cup {[op |-> "discount"]} \cup Merges
CommentFlight ==
  AddedComments \cup Edits \cup Deletions \cup Toggles \cup Translations
    \cup {[op |-> "download", of |-> "token"]}
Flight == AlbumFlight \cup PhotoFlight \cup CommentFlight

AlbumTypes ==
  /\ album \in [state: {"none", "live", "gone"}, private: BOOLEAN, count: Nat]
  /\ members \subseteq Users
  /\ ~Live => members = {} /\ Rows = {}
  /\ token \in {None, "issued", "spent"}

PhotoTypes ==
  /\ row \in [Photos -> PhotoRow \cup {NoRow}]
  /\ disk \subseteq named \X Parts
  /\ named \subseteq Photos /\ temp \subseteq Chunks
  /\ job \in [Photos -> {None, "encoding", "encoded", "framed", "frameless", "swapped"}]

\* Rows and transcodings are of photos whose name was given.
NamedFirst == \A p \in Photos : job[p] # None \/ HasRow(p) => p \in named

CommentTypes ==
  /\ comment \in [Comments -> Comment \cup {NoComment}]
  /\ told \in [Comments -> Reactions]
  /\ created \subseteq Comments
  /\ \A c \in PhotoComments : HasComment(c) => comment[c].on \in Photos /\ HasRow(comment[c].on)

FlightTypes ==
  /\ flight \in [Slots -> Flight]
  /\ \A k \in Slots : flight[k].op = "upload" => flight[k].todo \subseteq named
  /\ \A k \in Slots : flight[k] \in Merges => flight[k].of \in named
  /\ \A k \in Slots : flight[k].op = "comment" /\ flight[k].of \in PhotoComments
       => flight[k].new.on # None

MemTypes == AlbumTypes /\ PhotoTypes /\ NamedFirst /\ CommentTypes /\ FlightTypes

USE DEF Idle

LEMMA RowKinds == NoRow \notin PhotoRow /\ NoComment \notin Comment
<1>1. NoRow \notin PhotoRow
  BY DEF NoRow, PhotoRow, None
<1>2. NoComment \notin Comment
  <2> SUFFICES ASSUME NoComment \in Comment PROVE FALSE
    OBVIOUS
  <2>1. DOMAIN NoComment = {"on", "by", "text", "trans", "reactions"}
    BY DEF Comment
  <2>2. DOMAIN NoComment = {"on", "text"}
    BY DEF NoComment
  <2> QED BY <2>1, <2>2
<1> QED BY <1>1, <1>2

LEMMA NewRowType ==
  ASSUME NEW u \in Users, NEW t \in BOOLEAN PROVE NewRow(u, t) \in PhotoRow
BY DEF NewRow, PhotoRow

LEMMA FilesType ==
  ASSUME NEW p \in Photos, NEW r \in PhotoRow PROVE FilesOf(p, r) \subseteq {p} \X Parts
BY DEF FilesOf, PhotoRow, Parts

LEMMA MemTypesInit == MemoriesInit => MemTypes
<1> SUFFICES ASSUME MemoriesInit PROVE MemTypes
  OBVIOUS
<1>1. named \subseteq Photos
  BY DEF MemoriesInit
<1>2. row \in [Photos -> PhotoRow \cup {NoRow}] /\ Rows = named
  <2>1. row = [p \in Photos |-> IF p \in named THEN NewRow(Creator, TRUE) ELSE NoRow]
    BY DEF MemoriesInit
  <2>2. NewRow(Creator, TRUE) \in PhotoRow /\ NewRow(Creator, TRUE) # NoRow
    BY NewRowType, RowKinds
  <2>3. row \in [Photos -> PhotoRow \cup {NoRow}]
    BY <2>1, <2>2
  <2>4. \A p \in Photos : HasRow(p) <=> p \in named
    BY <2>1, <2>2 DEF HasRow
  <2> QED BY <1>1, <2>3, <2>4 DEF Rows
<1>3. AlbumTypes
  <2>1. album \in [state: {"none", "live", "gone"}, private: BOOLEAN, count: Nat]
    <3>1. album \in [state: {"none", "live"}, private: {FALSE}, count: {0, 1}]
      BY DEF MemoriesInit
    <3>2. {"none", "live"} \subseteq {"none", "live", "gone"} /\ {0, 1} \subseteq Nat
      OBVIOUS
    <3>3. {FALSE} \subseteq BOOLEAN
      BY Zenon
    <3> QED BY <3>1, <3>2, <3>3, Zenon
  <2>2. members = (IF Live THEN {Creator} ELSE {}) /\ (~Live => Rows = {}) /\ token = None
    BY <1>2 DEF MemoriesInit
  <2> QED BY <2>1, <2>2 DEF AlbumTypes
<1>4. PhotoTypes
  BY <1>1, <1>2 DEF MemoriesInit, PhotoTypes, Parts
<1>7. NamedFirst
  BY <1>2 DEF MemoriesInit, NamedFirst, Rows
<1>5. CommentTypes
  BY DEF MemoriesInit, CommentTypes, HasComment, Reactions
<1>6. FlightTypes
  BY DEF MemoriesInit, FlightTypes, Flight, AlbumFlight, Merges
<1> QED BY <1>3, <1>4, <1>5, <1>6, <1>7 DEF MemTypes

LEMMA AlbumTypesStep ==
  ASSUME MemTypes, [MemoriesNext]_memoryVars PROVE AlbumTypes'
<1>0. AlbumTypes /\ PhotoTypes /\ FlightTypes
  BY DEF MemTypes
<1>1. ASSUME UNCHANGED <<album, members, row>>, token' \in {token, None, "issued", "spent"}
      PROVE  AlbumTypes'
  BY <1>0, <1>1 DEF AlbumTypes, Live, Rows, HasRow
<1>2. ASSUME UNCHANGED <<members, row, token>>, album' \in [state: {album.state}, private: BOOLEAN, count: Nat]
      PROVE  AlbumTypes'
  BY <1>0, <1>2 DEF AlbumTypes, Live, Rows, HasRow
<1>3. ASSUME UNCHANGED <<album, members, token>>, Rows' \subseteq Rows \/ Live
      PROVE  AlbumTypes'
  BY <1>0, <1>3 DEF AlbumTypes, Live
<1>4. ASSUME NEW k \in Slots, NEW private \in BOOLEAN, NEW list \in SUBSET Users,
             CreateAlbum(k, private, list)
      PROVE  AlbumTypes'
  BY <1>0, <1>4 DEF CreateAlbum, AlbumTypes, Live, Rows, HasRow, photoVars, tokenVars
<1>5. ASSUME NEW k \in Slots, WriteAlbum(k) PROVE AlbumTypes'
  <2>1. flight[k].private \in BOOLEAN
    BY <1>0, <1>5 DEF WriteAlbum, FlightTypes, Flight, AlbumFlight, PhotoFlight, CommentFlight,
       Members, Update, Drops, Uploads, Removals, Merges, AddedComments, Edits, Deletions, Toggles, Translations
  <2> QED BY <1>0, <1>2, <1>5, <2>1 DEF WriteAlbum, AlbumTypes, photoVars, tokenVars
<1>6. ASSUME NEW k \in Slots, WipeMembers(k) PROVE AlbumTypes'
  BY <1>0, <1>6 DEF WipeMembers, AlbumTypes, Live, Rows, HasRow, photoVars, tokenVars
<1>7. ASSUME NEW k \in Slots, FillMembers(k) PROVE AlbumTypes'
  <2>1. flight[k].list \in SUBSET Users
    BY <1>0, <1>7 DEF FillMembers, FlightTypes, Flight, AlbumFlight, PhotoFlight, CommentFlight,
       Members, Update, Drops, Uploads, Removals, Merges, AddedComments, Edits, Deletions, Toggles, Translations
  <2> QED BY <1>0, <1>7, <2>1 DEF FillMembers, CanFill, AlbumTypes, Live, Rows, HasRow, photoVars, tokenVars
<1>8. ASSUME NEW k \in Slots, DropAlbum(k) PROVE AlbumTypes'
  <2>1. Rows' = {}
    BY <1>8 DEF DropAlbum, Rows, HasRow
  <2> QED BY <1>0, <1>8, <2>1 DEF DropAlbum, AlbumTypes, Live, tokenVars
<1>9. ASSUME NEW k \in Slots, NEW p \in Photos, NEW thumbed \in BOOLEAN, NEW saved \in BOOLEAN,
             SavePhoto(k, p, thumbed, saved)
      PROVE  AlbumTypes'
  BY <1>3, <1>9 DEF SavePhoto, albumVars, tokenVars, Rows, HasRow
<1>10. ASSUME NEW k \in Slots, NEW thumbed \in BOOLEAN, NEW saved \in BOOLEAN,
              StoreMerged(k, thumbed, saved)
       PROVE  AlbumTypes'
  BY <1>3, <1>10 DEF StoreMerged, albumVars, tokenVars, Rows, HasRow
<1>11. ASSUME NEW k \in Slots, CountUpload(k) \/ CountMerged(k) \/ DiscountPhoto(k)
       PROVE  AlbumTypes'
  <2>1. CountUpload(k) => flight[k].size \in Nat
    BY <1>0, <1>11 DEF CountUpload, FlightTypes, Flight, AlbumFlight, PhotoFlight, CommentFlight,
       Members, Update, Drops, Uploads, Removals, Merges, AddedComments, Edits, Deletions, Toggles, Translations
  <2>2. UNCHANGED <<members, row, token>>
    BY <1>11 DEF CountUpload, CountMerged, DiscountPhoto, photoVars, tokenVars
  <2>3. album' \in [state: {album.state}, private: BOOLEAN, count: Nat]
    <3>1. album \in [state: {album.state}, private: BOOLEAN, count: Nat]
      BY <1>0 DEF AlbumTypes
    <3>2. \A n \in Nat : Counted(n) \in [state: {album.state}, private: BOOLEAN, count: Nat]
      BY <3>1 DEF Counted
    <3> QED BY <1>11, <2>1, <3>1, <3>2 DEF CountUpload, CountMerged, DiscountPhoto
  <2> QED BY <1>2, <2>2, <2>3
<1>12. ASSUME NEW k \in Slots, DeletePhoto(k) PROVE AlbumTypes'
  <2>1. Rows' \subseteq Rows
    BY <1>0, <1>12 DEF DeletePhoto, Rows, HasRow, PhotoTypes
  <2> QED BY <1>3, <1>12, <2>1 DEF DeletePhoto, albumVars, tokenVars
<1>13. ASSUME NEW p \in Photos, NEW ok \in BOOLEAN, SwapVideo(p, ok) PROVE AlbumTypes'
  <2>1. Rows' \subseteq Rows
    BY <1>0, <1>13 DEF SwapVideo, Rows, HasRow, PhotoTypes
  <2> QED BY <1>3, <1>13, <2>1 DEF SwapVideo, albumVars, tokenVars
<1>14. ASSUME NEW k \in Slots, NEW u \in Users, NEW list, UpdateMembers(k, u, list) PROVE AlbumTypes'
  BY <1>1, <1>14 DEF UpdateMembers, albumVars, photoVars, tokenVars
<1>15. ASSUME NEW k \in Slots, NEW private, NEW relist, NEW list, UpdateAlbum(k, private, relist, list)
       PROVE  AlbumTypes'
  BY <1>1, <1>15 DEF UpdateAlbum, albumVars, photoVars, tokenVars
<1>16. ASSUME NEW k \in Slots, RemoveAlbum(k) \/ MergeChunks(k) \/ PurgeChunks(k) PROVE AlbumTypes'
  BY <1>1, <1>16 DEF RemoveAlbum, MergeChunks, PurgeChunks, albumVars, photoVars, tokenVars
<1>17. ASSUME NEW k \in Slots, NEW u \in Users, NEW x, NEW v,
              Upload(k, u, x) \/ RemovePhoto(k, u, x) \/ CompleteUpload(k, u, x, v)
       PROVE  AlbumTypes'
  BY <1>1, <1>17 DEF Upload, RemovePhoto, CompleteUpload, albumVars, photoVars, tokenVars
<1>18. ASSUME NEW p, NEW ok, Encode(p, ok) \/ Frame(p, ok) PROVE AlbumTypes'
  BY <1>1, <1>18 DEF Encode, Frame, albumVars, photoVars, tokenVars
<1>26. ASSUME NEW p, UnlinkOriginal(p) PROVE AlbumTypes'
  BY <1>1, <1>26 DEF UnlinkOriginal, albumVars, photoVars, tokenVars
<1>27. ASSUME NEW u, NEW i, UploadChunk(u, i) PROVE AlbumTypes'
  BY <1>1, <1>27 DEF UploadChunk, albumVars, photoVars, tokenVars
<1>28. CASE CleanupChunks
  BY <1>1, <1>28 DEF CleanupChunks, albumVars, photoVars, tokenVars
<1>19. CASE TokenNext
  BY <1>1, <1>19 DEF TokenNext, CreateToken, ExpireToken, Download, ServeArchive, Consumed, albumVars,
     photoVars, tokenVars
<1>20. CASE CommentsNext
  BY <1>1, <1>20 DEF CommentsNext, EditComment, AddComment, RemoveComment, Translate, ToggleReaction,
     SaveComment, WriteEdit, DeleteComment, WriteReactions, WriteTranslation, albumVars, photoVars, tokenVars
<1>21. CASE Restart
  BY <1>1, <1>21 DEF Restart, albumVars
<1>22. CASE UNCHANGED memoryVars
  BY <1>1, <1>22 DEF memoryVars, albumVars, photoVars, tokenVars
<1>23. CASE AlbumNext
  BY <1>4, <1>5, <1>6, <1>7, <1>8, <1>14, <1>15, <1>16, <1>23 DEF AlbumNext
<1>24. CASE PhotosNext
  BY <1>9, <1>11, <1>12, <1>17, <1>24 DEF PhotosNext
<1>25. CASE PartsNext
  BY <1>10, <1>11, <1>13, <1>16, <1>17, <1>18, <1>25, <1>26, <1>27, <1>28 DEF PartsNext
<1> QED BY <1>19, <1>20, <1>21, <1>22, <1>23, <1>24, <1>25 DEF MemoriesNext

\* The step a request is at tells what it holds.
LEMMA Kinds ==
  ASSUME FlightTypes, NEW k \in Slots
  PROVE  /\ flight[k].op \in {"wipe", "fill"} => flight[k] \in Members
         /\ flight[k].op = "update" => flight[k] \in Update
         /\ flight[k].op = "drop" => flight[k] \in Drops
         /\ flight[k].op = "upload" => flight[k] \in Uploads
         /\ flight[k].op = "remove" => flight[k] \in Removals
         /\ flight[k].op \in {"merge", "merged", "store", "count"} => flight[k] \in Merges
         /\ flight[k].op = "comment" => flight[k] \in AddedComments
         /\ flight[k].op = "edit" => flight[k] \in Edits
         /\ flight[k].op = "uncomment" => flight[k] \in Deletions
         /\ flight[k].op = "react" => flight[k] \in Toggles
         /\ flight[k].op = "translate" => flight[k] \in Translations
<1>1. flight[k] \in Flight
  BY DEF FlightTypes
<1> QED
  BY <1>1 DEF Flight, AlbumFlight, PhotoFlight, CommentFlight, Members, Update, Drops, Uploads,
     Removals, Merges, AddedComments, Edits, Deletions, Toggles, Translations

LEMMA PhotoTypesStep ==
  ASSUME MemTypes, [MemoriesNext]_memoryVars PROVE PhotoTypes'
<1>0. AlbumTypes /\ PhotoTypes /\ NamedFirst /\ FlightTypes
  BY DEF MemTypes
<1>1. ASSUME UNCHANGED photoVars PROVE PhotoTypes'
  BY <1>0, <1>1 DEF PhotoTypes, photoVars
<1>2. ASSUME UNCHANGED <<row, named, job>>, disk' \subseteq named \X Parts, temp' \subseteq Chunks
      PROVE  PhotoTypes'
  BY <1>0, <1>2 DEF PhotoTypes
<1>3. ASSUME NEW k \in Slots, DropAlbum(k) PROVE PhotoTypes'
  BY <1>0, <1>3 DEF DropAlbum, PhotoTypes
<1>4. ASSUME NEW k \in Slots, NEW u \in Users, NEW batch \in SUBSET Photos, Upload(k, u, batch)
      PROVE  PhotoTypes'
  <2>1. disk' \subseteq named' \X Parts
    BY <1>0, <1>4 DEF Upload, PhotoTypes, Parts
  <2> QED BY <1>0, <1>4, <2>1 DEF Upload, PhotoTypes
<1>5. ASSUME NEW k \in Slots, NEW p \in Photos, NEW thumbed \in BOOLEAN, NEW saved \in BOOLEAN,
             SavePhoto(k, p, thumbed, saved)
      PROVE  PhotoTypes'
  <2>1. flight[k].by \in Users /\ p \in named
    BY <1>0, <1>5, Kinds DEF SavePhoto, Uploads, FlightTypes
  <2>2. NewRow(flight[k].by, thumbed) \in PhotoRow
    BY <2>1, NewRowType
  <2>3. disk' \subseteq named \X Parts
    BY <1>0, <1>5, <2>1 DEF SavePhoto, PhotoTypes, Parts
  <2>4. row' \in [Photos -> PhotoRow \cup {NoRow}]
    BY <1>0, <1>5, <2>2 DEF SavePhoto, PhotoTypes
  <2> QED BY <1>0, <1>5, <2>3, <2>4 DEF SavePhoto, PhotoTypes
<1>6. ASSUME NEW k \in Slots, DeletePhoto(k) PROVE PhotoTypes'
  BY <1>0, <1>6 DEF DeletePhoto, PhotoTypes
<1>7. ASSUME NEW k \in Slots, NEW u \in Users, NEW p \in Photos, NEW video \in BOOLEAN,
             CompleteUpload(k, u, p, video)
      PROVE  PhotoTypes'
  <2>1. disk' \subseteq named' \X Parts
    BY <1>0, <1>7 DEF CompleteUpload, PhotoTypes, Parts
  <2> QED BY <1>0, <1>7, <2>1 DEF CompleteUpload, PhotoTypes
<1>8. ASSUME NEW k \in Slots, PurgeChunks(k) PROVE PhotoTypes'
  BY <1>0, <1>2, <1>8 DEF PurgeChunks, PhotoTypes
<1>9. ASSUME NEW k \in Slots, NEW thumbed \in BOOLEAN, NEW saved \in BOOLEAN,
             StoreMerged(k, thumbed, saved)
      PROVE  PhotoTypes'
  <2>1. flight[k].by \in Users /\ flight[k].of \in named /\ flight[k].of \in Photos
    BY <1>0, <1>9, Kinds DEF StoreMerged, Merges, FlightTypes
  <2>2. NewRow(flight[k].by, thumbed) \in PhotoRow
    BY <2>1, NewRowType
  <2>3. disk' \subseteq named \X Parts
    BY <1>0, <1>9, <2>1 DEF StoreMerged, PhotoTypes, Parts
  <2>4. row' \in [Photos -> PhotoRow \cup {NoRow}]
    BY <1>0, <1>9, <2>2 DEF StoreMerged, PhotoTypes
  <2> QED BY <1>0, <1>9, <2>3, <2>4 DEF StoreMerged, PhotoTypes
<1>10. ASSUME NEW k \in Slots, CountMerged(k) PROVE PhotoTypes'
  BY <1>0, <1>10 DEF CountMerged, PhotoTypes
<1>11. ASSUME NEW p \in Photos, NEW ok \in BOOLEAN, Encode(p, ok) \/ Frame(p, ok) PROVE PhotoTypes'
  <2>1. p \in named
    BY <1>0, <1>11 DEF Encode, Frame, NamedFirst, None
  <2>2. disk' \subseteq named \X Parts
    BY <1>0, <1>11, <2>1 DEF Encode, Frame, PhotoTypes, Parts
  <2> QED BY <1>0, <1>11, <2>2 DEF Encode, Frame, PhotoTypes
<1>12. ASSUME NEW p \in Photos, NEW ok \in BOOLEAN, SwapVideo(p, ok) PROVE PhotoTypes'
  <2>1. HasRow(p) => row[p] \in PhotoRow
    BY <1>0 DEF PhotoTypes, HasRow
  <2>2. row' \in [Photos -> PhotoRow \cup {NoRow}]
    <3>1. CASE ok /\ HasRow(p)
      <4> DEFINE new == [url |-> "tc", by |-> row[p].by,
                         thumb |-> IF job[p] = "framed" THEN "tcthumb" ELSE row[p].thumb]
      <4>1. new \in PhotoRow
        BY <2>1, <3>1 DEF PhotoRow
      <4>2. row' = [row EXCEPT ![p] = new]
        BY <1>12, <3>1 DEF SwapVideo
      <4> QED BY <1>0, <4>1, <4>2 DEF PhotoTypes
    <3>2. CASE ~(ok /\ HasRow(p))
      BY <1>0, <1>12, <3>2 DEF SwapVideo, PhotoTypes
    <3> QED BY <3>1, <3>2
  <2> QED BY <1>0, <1>12, <2>2 DEF SwapVideo, PhotoTypes
<1>13. ASSUME NEW p \in Photos, UnlinkOriginal(p) PROVE PhotoTypes'
  BY <1>0, <1>13 DEF UnlinkOriginal, PhotoTypes
<1>14. ASSUME NEW k \in Slots,
              CountUpload(k) \/ DiscountPhoto(k) \/ MergeChunks(k)
       PROVE  PhotoTypes'
  BY <1>1, <1>14 DEF CountUpload, DiscountPhoto, MergeChunks
<1>15. ASSUME NEW k \in Slots, NEW u, NEW p, RemovePhoto(k, u, p) PROVE PhotoTypes'
  BY <1>1, <1>15 DEF RemovePhoto
<1>16. ASSUME NEW u, NEW i \in Chunks, UploadChunk(u, i) PROVE PhotoTypes'
  BY <1>0, <1>2, <1>16 DEF UploadChunk, PhotoTypes
<1>17. CASE CleanupChunks
  BY <1>0, <1>2, <1>17 DEF CleanupChunks, PhotoTypes
<1>18. CASE TokenNext
  BY <1>1, <1>18 DEF TokenNext, CreateToken, ExpireToken, Download, ServeArchive
<1>19. CASE CommentsNext
  BY <1>1, <1>19 DEF CommentsNext, EditComment, AddComment, RemoveComment, Translate,
     ToggleReaction, SaveComment, WriteEdit, DeleteComment, WriteReactions, WriteTranslation
<1>20. CASE Restart
  BY <1>0, <1>20 DEF Restart, PhotoTypes
<1>21. CASE UNCHANGED memoryVars
  BY <1>1, <1>21 DEF memoryVars
<1>22. CASE AlbumNext
  BY <1>1, <1>3, <1>22 DEF AlbumNext, WriteAlbum, WipeMembers, FillMembers, RemoveAlbum, UpdateMembers,
     CreateAlbum, UpdateAlbum
<1>23. CASE PhotosNext
  BY <1>4, <1>5, <1>6, <1>14, <1>15, <1>23 DEF PhotosNext
<1>24. CASE PartsNext
  BY <1>7, <1>8, <1>9, <1>10, <1>11, <1>12, <1>13, <1>14, <1>16, <1>17, <1>24 DEF PartsNext
<1> QED BY <1>18, <1>19, <1>20, <1>21, <1>22, <1>23, <1>24 DEF MemoriesNext

LEMMA NamedFirstStep ==
  ASSUME MemTypes, [MemoriesNext]_memoryVars PROVE NamedFirst'
<1>0. NamedFirst /\ PhotoTypes /\ FlightTypes
  BY DEF MemTypes
<1>1. ASSUME named \subseteq named', NEW p \in Photos,
             \A q \in Photos \ {p} : row'[q] = row[q] /\ job'[q] = job[q],
             p \in named \/ (row'[p] = row[p] /\ job'[p] = job[p])
      PROVE  NamedFirst'
  BY <1>0, <1>1 DEF NamedFirst, HasRow
<1>2. ASSUME named \subseteq named',
             \A q \in Photos : (HasRow(q)' => HasRow(q)) /\ (job'[q] # None => job[q] # None)
      PROVE  NamedFirst'
  BY <1>0, <1>2 DEF NamedFirst
<1>3. ASSUME UNCHANGED <<row, named, job>> PROVE NamedFirst'
  BY <1>0, <1>3 DEF NamedFirst, HasRow
<1>4. ASSUME NEW k \in Slots, NEW p \in Photos, NEW thumbed \in BOOLEAN, NEW saved \in BOOLEAN,
             SavePhoto(k, p, thumbed, saved)
      PROVE  NamedFirst'
  BY <1>0, <1>1, <1>4 DEF SavePhoto, FlightTypes, PhotoTypes
<1>5. ASSUME NEW k \in Slots, NEW thumbed \in BOOLEAN, NEW saved \in BOOLEAN,
             StoreMerged(k, thumbed, saved)
      PROVE  NamedFirst'
  <2>1. flight[k].of \in named /\ flight[k].of \in Photos
    BY <1>0, <1>5, Kinds DEF StoreMerged, Merges, FlightTypes
  <2> QED BY <1>0, <1>1, <1>5, <2>1 DEF StoreMerged, PhotoTypes
<1>6. ASSUME NEW k \in Slots, CountMerged(k) PROVE NamedFirst'
  <2>1. flight[k].of \in named /\ flight[k].of \in Photos
    BY <1>0, <1>6, Kinds DEF CountMerged, Merges, FlightTypes
  <2> QED BY <1>0, <1>1, <1>6, <2>1 DEF CountMerged, PhotoTypes
<1>7. ASSUME NEW p \in Photos, NEW ok \in BOOLEAN,
             Encode(p, ok) \/ Frame(p, ok) \/ SwapVideo(p, ok) \/ UnlinkOriginal(p)
      PROVE  NamedFirst'
  <2>1. job[p] # None
    BY <1>7 DEF Encode, Frame, SwapVideo, UnlinkOriginal, Unlinkable, None
  <2>2. p \in named
    BY <1>0, <2>1 DEF NamedFirst
  <2>3. UNCHANGED named /\ \A q \in Photos \ {p} : row'[q] = row[q] /\ job'[q] = job[q]
    BY <1>0, <1>7 DEF Encode, Frame, SwapVideo, UnlinkOriginal, PhotoTypes
  <2> QED BY <1>1, <2>2, <2>3
<1>8. ASSUME NEW k \in Slots, DropAlbum(k) PROVE NamedFirst'
  BY <1>2, <1>8 DEF DropAlbum, HasRow
<1>9. ASSUME NEW k \in Slots, DeletePhoto(k) PROVE NamedFirst'
  BY <1>0, <1>2, <1>9 DEF DeletePhoto, HasRow, PhotoTypes
<1>10. ASSUME NEW k, NEW u, NEW batch, Upload(k, u, batch) PROVE NamedFirst'
  BY <1>2, <1>10 DEF Upload, HasRow
<1>11. ASSUME NEW k, NEW u, NEW p, NEW video, CompleteUpload(k, u, p, video) PROVE NamedFirst'
  BY <1>2, <1>11 DEF CompleteUpload, HasRow
<1>12. CASE Restart
  BY <1>2, <1>12 DEF Restart, HasRow
<1>13. ASSUME NEW k \in Slots,
              CountUpload(k) \/ DiscountPhoto(k) \/ MergeChunks(k) \/ PurgeChunks(k)
       PROVE  NamedFirst'
  BY <1>3, <1>13 DEF CountUpload, DiscountPhoto, MergeChunks, PurgeChunks, photoVars
<1>14. ASSUME NEW k \in Slots, NEW u, NEW p, RemovePhoto(k, u, p) PROVE NamedFirst'
  BY <1>3, <1>14 DEF RemovePhoto, photoVars
<1>15. ASSUME NEW u, NEW i, UploadChunk(u, i) PROVE NamedFirst'
  BY <1>3, <1>15 DEF UploadChunk
<1>16. CASE CleanupChunks
  BY <1>3, <1>16 DEF CleanupChunks
<1>17. CASE TokenNext
  BY <1>3, <1>17 DEF TokenNext, CreateToken, ExpireToken, Download, ServeArchive, photoVars
<1>18. CASE CommentsNext
  BY <1>3, <1>18 DEF CommentsNext, EditComment, AddComment, RemoveComment, Translate,
     ToggleReaction, SaveComment, WriteEdit, DeleteComment, WriteReactions, WriteTranslation, photoVars
<1>19. CASE UNCHANGED memoryVars
  BY <1>3, <1>19 DEF memoryVars, photoVars
<1>20. CASE AlbumNext
  BY <1>3, <1>8, <1>20 DEF AlbumNext, WriteAlbum, WipeMembers, FillMembers, RemoveAlbum, UpdateMembers,
     CreateAlbum, UpdateAlbum, photoVars
<1>21. CASE PhotosNext
  BY <1>4, <1>9, <1>10, <1>13, <1>14, <1>21 DEF PhotosNext
<1>22. CASE PartsNext
  BY <1>5, <1>6, <1>7, <1>11, <1>13, <1>15, <1>16, <1>22 DEF PartsNext
<1> QED BY <1>12, <1>17, <1>18, <1>19, <1>20, <1>21, <1>22 DEF MemoriesNext

\* The row of each photo is removed with its comments.
LEMMA WithoutType ==
  ASSUME CommentTypes, NEW ps \in SUBSET Photos
  PROVE  /\ WithoutPhotos(ps) \in [Comments -> Comment \cup {NoComment}]
         /\ \A c \in Comments : WithoutPhotos(ps)[c] # NoComment
              => WithoutPhotos(ps)[c] = comment[c] /\ comment[c].on \notin ps
BY DEF CommentTypes, WithoutPhotos, HasComment

LEMMA CommentTypesStep ==
  ASSUME MemTypes, [MemoriesNext]_memoryVars PROVE CommentTypes'
<1>0. CommentTypes /\ PhotoTypes /\ FlightTypes
  BY DEF MemTypes
<1>1. ASSUME UNCHANGED commentVars, \A p \in Photos : HasRow(p) => HasRow(p)'
      PROVE  CommentTypes'
  BY <1>0, <1>1 DEF CommentTypes, commentVars, HasComment
<1>2. ASSUME comment' \in [Comments -> Comment \cup {NoComment}], UNCHANGED row,
             told' \in [Comments -> Reactions], created' \subseteq Comments,
             \A c \in PhotoComments : HasComment(c)' =>
               \/ HasComment(c) /\ comment'[c].on = comment[c].on
               \/ comment'[c].on \in Photos /\ HasRow(comment'[c].on)
      PROVE  CommentTypes'
  BY <1>0, <1>2 DEF CommentTypes, HasRow
<1>3. ASSUME NEW k \in Slots, DropAlbum(k) PROVE CommentTypes'
  <2>1. comment' \in [Comments -> Comment \cup {NoComment}] /\ UNCHANGED <<told, created>>
    BY <1>0, <1>3, WithoutType DEF DropAlbum
  <2>2. \A c \in PhotoComments : ~HasComment(c)'
    BY <1>0, <1>3, WithoutType DEF DropAlbum, HasComment, CommentTypes
  <2> QED BY <1>0, <2>1, <2>2 DEF CommentTypes
<1>4. ASSUME NEW k \in Slots, DeletePhoto(k) PROVE CommentTypes'
  <2>1. flight[k].of \in Photos
    BY <1>0, <1>4, Kinds DEF DeletePhoto, Removals
  <2>2. comment' = WithoutPhotos({flight[k].of}) /\ row' = [row EXCEPT ![flight[k].of] = NoRow]
        /\ UNCHANGED <<told, created>>
    BY <1>4 DEF DeletePhoto
  <2>3. \A c \in PhotoComments : HasComment(c)' => comment'[c] = comment[c] /\ HasComment(c)
                                                   /\ comment[c].on # flight[k].of
    BY <1>0, <2>1, <2>2, WithoutType DEF HasComment
  <2>4. comment' \in [Comments -> Comment \cup {NoComment}]
    BY <1>0, <2>1, <2>2, WithoutType
  <2> QED BY <1>0, <2>2, <2>3, <2>4 DEF CommentTypes, HasRow, PhotoTypes
<1>5. ASSUME NEW k \in Slots, SaveComment(k) PROVE CommentTypes'
  <2>1. flight[k].of \in Comments /\ flight[k].new \in Comment
        /\ (flight[k].of \in PhotoComments => flight[k].new.on # None)
    BY <1>0, <1>5, Kinds DEF SaveComment, AddedComments, FlightTypes
  <2>2. flight[k].new.on \in Photos \cup {None}
    BY <2>1 DEF Comment
  <2>3. comment' \in [Comments -> Comment \cup {NoComment}] /\ UNCHANGED <<told, created, row>>
    BY <1>0, <1>5, <2>1 DEF SaveComment, CommentTypes, photoVars
  <2>4. \A c \in PhotoComments : HasComment(c)' =>
               \/ HasComment(c) /\ comment'[c].on = comment[c].on
               \/ comment'[c].on \in Photos /\ HasRow(comment'[c].on)
    BY <1>0, <1>5, <2>1, <2>2 DEF SaveComment, HasComment, CommentTypes
  <2> QED BY <1>0, <1>2, <2>3, <2>4 DEF CommentTypes
<1>6. ASSUME NEW c \in Comments, NEW new \in Comment \cup {NoComment},
             comment' = [comment EXCEPT ![c] = new] /\ UNCHANGED <<created, row>>,
             told' \in [Comments -> Reactions],
             new # NoComment => HasComment(c) /\ new.on = comment[c].on
      PROVE  CommentTypes'
  <2>1. comment' \in [Comments -> Comment \cup {NoComment}] /\ created' \subseteq Comments
    BY <1>0, <1>6 DEF CommentTypes
  <2>2. \A d \in PhotoComments : HasComment(d)' => HasComment(d) /\ comment'[d].on = comment[d].on
    BY <1>0, <1>6 DEF HasComment, CommentTypes
  <2> QED BY <1>2, <1>6, <2>1, <2>2
<1>7. ASSUME NEW k \in Slots, WriteEdit(k) PROVE CommentTypes'
  <2> DEFINE c == flight[k].of
             new == Edited(comment[c], c, flight[k].text)
  <2>1. c \in Comments /\ flight[k].text \in Texts
    BY <1>0, <1>7, Kinds DEF WriteEdit, Edits
  <2>2. CASE HasComment(c)
    <3>1. comment[c] \in Comment
      BY <1>0, <2>1, <2>2 DEF CommentTypes, HasComment
    <3>2. new \in Comment /\ new.on = comment[c].on
      BY <2>1, <3>1 DEF Edited, Comment
    <3>3. comment' = [comment EXCEPT ![c] = new] /\ UNCHANGED <<told, created, row>>
      BY <1>7, <2>2 DEF WriteEdit, photoVars
    <3>4. told' \in [Comments -> Reactions]
      BY <1>0, <3>3 DEF CommentTypes
    <3> HIDE DEF new, c
    <3> QED BY <1>6, <2>1, <2>2, <3>2, <3>3, <3>4
  <2>3. CASE ~HasComment(c)
    BY <1>1, <1>7, <2>3 DEF WriteEdit, commentVars, photoVars, HasRow
  <2> QED BY <2>2, <2>3
<1>8. ASSUME NEW k \in Slots, DeleteComment(k) PROVE CommentTypes'
  <2>1. flight[k].of \in Comments
    BY <1>0, <1>8, Kinds DEF DeleteComment, Deletions
  <2>2. told' \in [Comments -> Reactions]
    BY <1>0, <1>8 DEF DeleteComment, CommentTypes
  <2> QED BY <1>6, <1>8, <2>1, <2>2 DEF DeleteComment, photoVars
<1>9. ASSUME NEW k \in Slots, WriteReactions(k) PROVE CommentTypes'
  <2> DEFINE c == flight[k].of
             rs == flight[k].reactions
             new == [comment[c] EXCEPT !.reactions = rs]
  <2>1. c \in Comments /\ rs \in Reactions /\ flight[k].by \in Users
    BY <1>0, <1>9, Kinds DEF WriteReactions, Toggles
  <2>2. told' \in [Comments -> Reactions]
    <3>1. told' = [told EXCEPT ![c][flight[k].by] = rs[flight[k].by]]
      BY <1>9 DEF WriteReactions
    <3>2. rs[flight[k].by] \in Types \cup {None} /\ told[c] \in Reactions
      BY <1>0, <2>1 DEF CommentTypes, Reactions
    <3> HIDE DEF c, rs
    <3> QED BY <1>0, <2>1, <3>1, <3>2 DEF CommentTypes, Reactions
  <2>3. CASE HasComment(c)
    <3>1. comment[c] \in Comment
      BY <1>0, <2>1, <2>3 DEF CommentTypes, HasComment
    <3>2. new \in Comment /\ new.on = comment[c].on
      BY <2>1, <3>1 DEF Comment, Reactions
    <3>3. comment' = [comment EXCEPT ![c] = new] /\ UNCHANGED <<created, row>>
      BY <1>9, <2>3 DEF WriteReactions, photoVars
    <3> HIDE DEF new, c, rs
    <3> QED BY <1>6, <2>1, <2>2, <2>3, <3>2, <3>3
  <2>4. CASE ~HasComment(c)
    <3>1. UNCHANGED <<comment, created, row>>
      BY <1>9, <2>4 DEF WriteReactions, photoVars
    <3> QED BY <1>0, <1>2, <2>2, <3>1 DEF CommentTypes, HasComment
  <2> QED BY <2>3, <2>4
<1>10. ASSUME NEW k \in Slots, NEW ok \in BOOLEAN, WriteTranslation(k, ok) PROVE CommentTypes'
  <2> DEFINE c == flight[k].of
             new == [comment[c] EXCEPT !.trans = flight[k].text]
  <2>1. c \in Comments /\ flight[k].text \in Texts
    BY <1>0, <1>10, Kinds DEF WriteTranslation, Translations
  <2>2. CASE ok /\ HasComment(c)
    <3>1. comment[c] \in Comment
      BY <1>0, <2>1, <2>2 DEF CommentTypes, HasComment
    <3>2. new \in Comment /\ new.on = comment[c].on
      BY <2>1, <3>1 DEF Comment
    <3>3. comment' = [comment EXCEPT ![c] = new] /\ UNCHANGED <<told, created, row>>
      BY <1>10, <2>2 DEF WriteTranslation, photoVars
    <3>4. told' \in [Comments -> Reactions]
      BY <1>0, <3>3 DEF CommentTypes
    <3> HIDE DEF new, c
    <3> QED BY <1>6, <2>1, <2>2, <3>2, <3>3, <3>4
  <2>3. CASE ~(ok /\ HasComment(c))
    BY <1>1, <1>10, <2>3 DEF WriteTranslation, commentVars, photoVars, HasRow
  <2> QED BY <2>2, <2>3
<1>11. ASSUME NEW k, NEW u, NEW c \in Comments, NEW p, NEW t, AddComment(k, u, c, p, t)
       PROVE  CommentTypes'
  BY <1>0, <1>11 DEF AddComment, CommentTypes, HasComment, HasRow, photoVars
<1>12. CASE CommentsNext
  <2>1. ASSUME NEW k, NEW u, NEW c, NEW x,
               EditComment(k, u, c, x) \/ RemoveComment(k, u, c) \/ Translate(k, u, c)
                 \/ ToggleReaction(k, u, c, x)
        PROVE  CommentTypes'
    BY <1>1, <2>1 DEF EditComment, RemoveComment, Translate, ToggleReaction, photoVars, HasRow
  <2> QED BY <1>5, <1>7, <1>8, <1>9, <1>10, <1>11, <1>12, <2>1 DEF CommentsNext
<1>13. ASSUME NEW k \in Slots, NEW p \in Photos, NEW thumbed \in BOOLEAN, NEW saved \in BOOLEAN,
              SavePhoto(k, p, thumbed, saved)
       PROVE  CommentTypes'
  <2>1. flight[k].by \in Users
    BY <1>0, <1>13, Kinds DEF SavePhoto, Uploads
  <2>2. NewRow(flight[k].by, thumbed) # NoRow
    BY <2>1, NewRowType, RowKinds
  <2> QED BY <1>0, <1>1, <1>13, <2>2 DEF SavePhoto, HasRow, PhotoTypes
<1>14. ASSUME NEW k \in Slots, NEW thumbed \in BOOLEAN, NEW saved \in BOOLEAN,
              StoreMerged(k, thumbed, saved)
       PROVE  CommentTypes'
  <2>1. flight[k].by \in Users
    BY <1>0, <1>14, Kinds DEF StoreMerged, Merges
  <2>2. NewRow(flight[k].by, thumbed) # NoRow
    BY <2>1, NewRowType, RowKinds
  <2> QED BY <1>0, <1>1, <1>14, <2>2 DEF StoreMerged, HasRow, PhotoTypes
<1>15. ASSUME NEW p \in Photos, NEW ok \in BOOLEAN, SwapVideo(p, ok) PROVE CommentTypes'
  <2>1. \A q \in Photos : HasRow(q) => HasRow(q)'
    <3>1. CASE ok /\ HasRow(p)
      <4>1. row' = [row EXCEPT ![p] = [url |-> "tc", by |-> row[p].by,
                      thumb |-> IF job[p] = "framed" THEN "tcthumb" ELSE row[p].thumb]]
        BY <1>15, <3>1 DEF SwapVideo
      <4>2. row'[p].url # NoRow.url
        BY <1>0, <4>1 DEF PhotoTypes, NoRow, None
      <4> QED BY <1>0, <4>1, <4>2 DEF PhotoTypes, HasRow
    <3>2. CASE ~(ok /\ HasRow(p))
      BY <1>15, <3>2 DEF SwapVideo, HasRow
    <3> QED BY <3>1, <3>2
  <2> QED BY <1>1, <1>15, <2>1 DEF SwapVideo
<1>16. ASSUME NEW k \in Slots, CountUpload(k) \/ DiscountPhoto(k) \/ MergeChunks(k) \/ PurgeChunks(k)
                                 \/ CountMerged(k)
       PROVE  CommentTypes'
  BY <1>1, <1>16 DEF CountUpload, DiscountPhoto, MergeChunks, PurgeChunks, CountMerged, photoVars, HasRow
<1>17. ASSUME NEW k, NEW u, NEW x, NEW v,
              Upload(k, u, x) \/ RemovePhoto(k, u, x) \/ CompleteUpload(k, u, x, v)
       PROVE  CommentTypes'
  BY <1>1, <1>17 DEF Upload, RemovePhoto, CompleteUpload, photoVars, HasRow
<1>18. ASSUME NEW p, NEW ok, Encode(p, ok) \/ Frame(p, ok) PROVE CommentTypes'
  BY <1>1, <1>18 DEF Encode, Frame, HasRow
<1>19. ASSUME NEW p, UnlinkOriginal(p) PROVE CommentTypes'
  BY <1>1, <1>19 DEF UnlinkOriginal, HasRow
<1>20. ASSUME NEW u, NEW i, UploadChunk(u, i) PROVE CommentTypes'
  BY <1>1, <1>20 DEF UploadChunk, HasRow
<1>21. CASE CleanupChunks
  BY <1>1, <1>21 DEF CleanupChunks, HasRow
<1>22. CASE TokenNext
  BY <1>1, <1>22 DEF TokenNext, CreateToken, ExpireToken, Download, ServeArchive, photoVars, HasRow
<1>23. CASE Restart \/ UNCHANGED memoryVars
  BY <1>1, <1>23 DEF memoryVars, Restart, photoVars, HasRow
<1>24. CASE AlbumNext
  BY <1>1, <1>3, <1>24 DEF AlbumNext, WriteAlbum, WipeMembers, FillMembers, RemoveAlbum, UpdateMembers,
     CreateAlbum, UpdateAlbum, photoVars, HasRow
<1>25. CASE PhotosNext
  BY <1>4, <1>13, <1>16, <1>17, <1>25 DEF PhotosNext
<1>26. CASE PartsNext
  BY <1>14, <1>15, <1>16, <1>17, <1>18, <1>19, <1>20, <1>21, <1>26 DEF PartsNext
<1> QED BY <1>12, <1>22, <1>23, <1>24, <1>25, <1>26 DEF MemoriesNext

LEMMA FlightTypesStep ==
  ASSUME MemTypes, [MemoriesNext]_memoryVars PROVE FlightTypes'
<1>0. CommentTypes /\ PhotoTypes /\ NamedFirst /\ AlbumTypes /\ FlightTypes
  BY DEF MemTypes
<1>1. ASSUME NEW k \in Slots, NEW f \in Flight, flight' = [flight EXCEPT ![k] = f],
             named \subseteq named', f.op = "upload" => f.todo \subseteq named',
             f \in Merges => f.of \in named',
             f.op = "comment" /\ f.of \in PhotoComments => f.new.on # None
      PROVE  FlightTypes'
  BY <1>0, <1>1 DEF FlightTypes
<1>2. ASSUME NEW k \in Slots, NEW f, UNCHANGED named, flight' = [flight EXCEPT ![k] = f],
             f \in AlbumFlight \cup (CommentFlight \ AddedComments) \cup Removals \cup {[op |-> "discount"]}
      PROVE  FlightTypes'
  <2>1. f \in Flight /\ f.op # "upload" /\ f.op # "comment" /\ f \notin Merges
    BY <1>2 DEF Flight, AlbumFlight, CommentFlight, PhotoFlight, Members, Update, Drops, Removals, AddedComments,
       Edits, Deletions, Toggles, Translations, Merges
  <2> QED BY <1>1, <1>2, <2>1
<1>3. ASSUME UNCHANGED <<named, flight>> PROVE FlightTypes'
  BY <1>0, <1>3 DEF FlightTypes
<1>4. ASSUME NEW k \in Slots, UNCHANGED named, flight' = [flight EXCEPT ![k] = Idle] PROVE FlightTypes'
  BY <1>2, <1>4 DEF AlbumFlight
<1>5. CASE AlbumNext
  <2>1. ASSUME NEW list \in SUBSET Users
        PROVE  [op |-> "wipe", list |-> Merged(list)] \in AlbumFlight
    BY <2>1 DEF Merged, AlbumFlight, Members
  <2>2. ASSUME NEW k \in Slots, NEW private \in BOOLEAN, NEW list \in SUBSET Users,
               CreateAlbum(k, private, list)
        PROVE  FlightTypes'
    BY <1>2, <2>1, <2>2 DEF CreateAlbum, Go, photoVars
  <2>3. ASSUME NEW k \in Slots, NEW u, NEW list \in SUBSET Users, UpdateMembers(k, u, list)
        PROVE  FlightTypes'
    BY <1>2, <2>1, <2>3 DEF UpdateMembers, Start, photoVars
  <2>4. ASSUME NEW k \in Slots, NEW private \in BOOLEAN, NEW relist \in BOOLEAN,
               NEW list \in SUBSET Users, UpdateAlbum(k, private, relist, list)
        PROVE  FlightTypes'
    <3>1. [op |-> "update", private |-> private, relist |-> relist, list |-> Merged(list)] \in AlbumFlight
      BY DEF Merged, AlbumFlight, Update
    <3> QED BY <1>2, <2>4, <3>1 DEF UpdateAlbum, Start, photoVars
  <2>5. ASSUME NEW k \in Slots, WriteAlbum(k) PROVE FlightTypes'
    <3>1. flight[k] \in Update
      BY <1>0, <2>5, Kinds DEF WriteAlbum
    <3>2. (IF flight[k].relist THEN [op |-> "wipe", list |-> flight[k].list] ELSE Idle) \in AlbumFlight
      BY <3>1 DEF AlbumFlight, Update, Members
    <3> QED BY <1>2, <2>5, <3>2 DEF WriteAlbum, Go, photoVars
  <2>6. ASSUME NEW k \in Slots, WipeMembers(k) PROVE FlightTypes'
    <3>1. flight[k] \in Members
      BY <1>0, <2>6, Kinds DEF WipeMembers
    <3>2. [op |-> "fill", list |-> flight[k].list] \in AlbumFlight
      BY <3>1 DEF AlbumFlight, Members
    <3> QED BY <1>2, <2>6, <3>2 DEF WipeMembers, Go, photoVars
  <2>7. ASSUME NEW k \in Slots, FillMembers(k) \/ DropAlbum(k) PROVE FlightTypes'
    BY <1>4, <2>7 DEF FillMembers, DropAlbum, Finish, Go, photoVars
  <2>8. ASSUME NEW k \in Slots, RemoveAlbum(k) PROVE FlightTypes'
    <3>1. UNION {FilesOf(p, row[p]) : p \in Rows} \subseteq Photos \X Parts
      <4>1. \A p \in Rows : row[p] \in PhotoRow /\ p \in Photos
        BY <1>0 DEF Rows, HasRow, PhotoTypes
      <4>2. \A p \in Rows : FilesOf(p, row[p]) \subseteq Photos \X Parts
        BY <4>1, FilesType
      <4> QED BY <4>2
    <3>2. [op |-> "drop", files |-> UNION {FilesOf(p, row[p]) : p \in Rows}] \in AlbumFlight
      BY <3>1 DEF AlbumFlight, Drops
    <3> QED BY <1>2, <2>8, <3>2 DEF RemoveAlbum, Start, photoVars
  <2> QED BY <1>5, <2>2, <2>3, <2>4, <2>5, <2>6, <2>7, <2>8 DEF AlbumNext
<1>6. ASSUME NEW k \in Slots, NEW u \in Users, NEW batch \in SUBSET Photos, Upload(k, u, batch)
      PROVE  FlightTypes'
  <2> DEFINE f == [op |-> "upload", by |-> u, todo |-> batch, size |-> Cardinality(batch), failed |-> FALSE]
  <2>1. Cardinality(batch) \in Nat
    BY FS_Subset, FS_CardinalityType
  <2>2. f \in Uploads
    BY <2>1 DEF Uploads
  <2>3. f \notin Merges /\ f \in Flight
    BY <2>2 DEF Merges, Flight, PhotoFlight
  <2>4. flight' = [flight EXCEPT ![k] = f] /\ named' = named \cup batch
    BY <1>6 DEF Upload, Start
  <2>5. f.op = "upload" /\ f.todo = batch
    OBVIOUS
  <2> HIDE DEF f
  <2> QED BY <1>1, <2>3, <2>4, <2>5
<1>7. ASSUME NEW k \in Slots, NEW p \in Photos, NEW thumbed \in BOOLEAN, NEW saved \in BOOLEAN,
             SavePhoto(k, p, thumbed, saved)
      PROVE  FlightTypes'
  <2> DEFINE f == [flight[k] EXCEPT !.todo = @ \ {p}, !.failed = @ \/ ~saved]
  <2>1. flight[k] \in Uploads /\ flight[k].todo \subseteq named
    BY <1>0, <1>7, Kinds DEF SavePhoto, FlightTypes
  <2>2. f \in Uploads /\ f.todo \subseteq named
    <3>1. (flight[k].failed \/ ~saved) \in BOOLEAN
      OBVIOUS
    <3>2. flight[k].todo \ {p} \in SUBSET Photos
      BY <2>1 DEF Uploads
    <3> QED BY <2>1, <3>1, <3>2 DEF Uploads
  <2>3. f \in Flight /\ f \notin Merges /\ f.op # "comment"
    BY <2>2 DEF Flight, PhotoFlight, Merges, Uploads
  <2>4. flight' = [flight EXCEPT ![k] = f] /\ UNCHANGED named
    BY <1>7 DEF SavePhoto, Go
  <2> HIDE DEF f
  <2> QED BY <1>1, <2>2, <2>3, <2>4
<1>8. ASSUME NEW k \in Slots, CountUpload(k) \/ DiscountPhoto(k) \/ CountMerged(k) PROVE FlightTypes'
  BY <1>4, <1>8 DEF CountUpload, DiscountPhoto, CountMerged, Finish, Go, photoVars
<1>9. ASSUME NEW k \in Slots, NEW u \in Users, NEW p \in Photos, RemovePhoto(k, u, p) PROVE FlightTypes'
  <2>1. row[p] \in PhotoRow
    BY <1>0, <1>9 DEF RemovePhoto, HasRow, PhotoTypes
  <2>2. [op |-> "remove", of |-> p, files |-> FilesOf(p, row[p])] \in Removals
    BY <2>1, FilesType DEF Removals
  <2> QED BY <1>2, <1>9, <2>2 DEF RemovePhoto, Start, photoVars
<1>10. ASSUME NEW k \in Slots, DeletePhoto(k) PROVE FlightTypes'
  BY <1>2, <1>10 DEF DeletePhoto, Go
<1>11. ASSUME NEW k \in Slots, NEW u \in Users, NEW p \in Photos, NEW video \in BOOLEAN,
              CompleteUpload(k, u, p, video)
       PROVE  FlightTypes'
  <2> DEFINE f == [op |-> "merge", of |-> p, by |-> u, video |-> video]
  <2>1. f \in Flight /\ f.op = "merge" /\ f.of = p
    BY DEF Flight, PhotoFlight, Merges
  <2>2. flight' = [flight EXCEPT ![k] = f] /\ named' = named \cup {p}
    BY <1>11 DEF CompleteUpload, Start
  <2> HIDE DEF f
  <2> QED BY <1>1, <2>1, <2>2
<1>12. ASSUME NEW k \in Slots, NEW op \in {"merged", "store", "count"}, flight[k] \in Merges,
              flight' = [flight EXCEPT ![k] = [flight[k] EXCEPT !.op = op]], UNCHANGED named
       PROVE  FlightTypes'
  <2> DEFINE f == [flight[k] EXCEPT !.op = op]
  <2>1. f \in Merges /\ f.of = flight[k].of /\ f.op = op
    BY <1>12 DEF Merges
  <2>3. flight[k].of \in named
    BY <1>0, <1>12 DEF FlightTypes
  <2>4. flight' = [flight EXCEPT ![k] = f]
    BY <1>12
  <2> HIDE DEF f
  <2>2. f \in Flight
    BY <2>1 DEF Flight, PhotoFlight
  <2> QED BY <1>1, <1>12, <2>1, <2>2, <2>3, <2>4
<1>13. ASSUME NEW k \in Slots, MergeChunks(k) PROVE FlightTypes'
  <2>1. flight[k] \in Merges
    BY <1>0, <1>13, Kinds DEF MergeChunks
  <2> QED BY <1>4, <1>12, <1>13, <2>1 DEF MergeChunks, Finish, Go, photoVars
<1>14. ASSUME NEW k \in Slots, PurgeChunks(k) PROVE FlightTypes'
  <2>1. flight[k] \in Merges
    BY <1>0, <1>14, Kinds DEF PurgeChunks
  <2> QED BY <1>12, <1>14, <2>1 DEF PurgeChunks, Go
<1>15. ASSUME NEW k \in Slots, NEW thumbed \in BOOLEAN, NEW saved \in BOOLEAN,
              StoreMerged(k, thumbed, saved)
       PROVE  FlightTypes'
  <2>1. flight[k] \in Merges
    BY <1>0, <1>15, Kinds DEF StoreMerged
  <2> QED BY <1>4, <1>12, <1>15, <2>1 DEF StoreMerged, Finish, Go
<1>16. ASSUME NEW p, NEW ok, Encode(p, ok) \/ Frame(p, ok) \/ SwapVideo(p, ok) PROVE FlightTypes'
  BY <1>3, <1>16 DEF Encode, Frame, SwapVideo
<1>17. ASSUME NEW p, UnlinkOriginal(p) PROVE FlightTypes'
  BY <1>3, <1>17 DEF UnlinkOriginal
<1>18. ASSUME NEW u, NEW i, UploadChunk(u, i) PROVE FlightTypes'
  BY <1>3, <1>18 DEF UploadChunk
<1>19. CASE CleanupChunks
  BY <1>3, <1>19 DEF CleanupChunks
<1>20. CASE TokenNext
  <2>1. [op |-> "download", of |-> "token"] \in CommentFlight \ AddedComments
    BY DEF CommentFlight, AddedComments
  <2>2. ASSUME NEW k \in Slots, Download(k) PROVE FlightTypes'
    BY <1>2, <2>1, <2>2 DEF Download, Start, photoVars
  <2>3. ASSUME NEW k \in Slots, ServeArchive(k) PROVE FlightTypes'
    BY <1>4, <2>3 DEF ServeArchive, Finish, Go, photoVars
  <2>4. ASSUME NEW u, CreateToken(u) PROVE FlightTypes'
    BY <1>3, <2>4 DEF CreateToken, photoVars
  <2>5. CASE ExpireToken
    BY <1>3, <2>5 DEF ExpireToken, photoVars
  <2> QED BY <1>20, <2>2, <2>3, <2>4, <2>5 DEF TokenNext
<1>21. CASE CommentsNext
  <2>1. ASSUME NEW k \in Slots, NEW u \in Users, NEW c \in Comments, NEW p \in Photos \cup {None},
               NEW t \in Texts, AddComment(k, u, c, p, t)
        PROVE  FlightTypes'
    <3> DEFINE f == [op |-> "comment", of |-> c, new |-> NewComment(p, u, t)]
    <3>1. NewComment(p, u, t) \in Comment /\ NewComment(p, u, t).on = p
      BY DEF NewComment, Comment
    <3>2. f \in Flight /\ f.op = "comment" /\ f \notin Merges
      BY <3>1 DEF Flight, CommentFlight, AddedComments, Merges
    <3>3. f.of \in PhotoComments => f.new.on # None
      BY <2>1, <3>1 DEF AddComment
    <3>4. flight' = [flight EXCEPT ![k] = f] /\ UNCHANGED named
      BY <2>1 DEF AddComment, Start, photoVars
    <3> HIDE DEF f
    <3> QED BY <1>1, <3>2, <3>3, <3>4
  <2>2. ASSUME NEW k \in Slots, NEW u \in Users, NEW c \in Comments, NEW t \in Texts, EditComment(k, u, c, t)
        PROVE  FlightTypes'
    <3>1. [op |-> "edit", of |-> c, text |-> t] \in CommentFlight \ AddedComments
      BY DEF CommentFlight, Edits, AddedComments
    <3> QED BY <1>2, <2>2, <3>1 DEF EditComment, Start, photoVars
  <2>3. ASSUME NEW k \in Slots, NEW u \in Users, NEW c \in Comments, RemoveComment(k, u, c)
        PROVE  FlightTypes'
    <3>1. [op |-> "uncomment", of |-> c] \in CommentFlight \ AddedComments
      BY DEF CommentFlight, Deletions, AddedComments
    <3> QED BY <1>2, <2>3, <3>1 DEF RemoveComment, Start, photoVars
  <2>4. ASSUME NEW k \in Slots, NEW u \in Users, NEW c \in Comments, Translate(k, u, c) PROVE FlightTypes'
    <3>1. comment[c].text \in Texts
      BY <1>0, <2>4 DEF Translate, HasComment, CommentTypes, Comment
    <3>2. [op |-> "translate", of |-> c, text |-> comment[c].text] \in CommentFlight \ AddedComments
      BY <3>1 DEF CommentFlight, Translations, AddedComments
    <3> QED BY <1>2, <2>4, <3>2 DEF Translate, Start, photoVars
  <2>5. ASSUME NEW k \in Slots, NEW u \in Users, NEW c \in Comments, NEW x \in Types,
               ToggleReaction(k, u, c, x)
        PROVE  FlightTypes'
    <3>1. comment[c].reactions \in Reactions
      BY <1>0, <2>5 DEF ToggleReaction, HasComment, CommentTypes, Comment, Reactions
    <3>2. Toggled(comment[c].reactions, u, x) \in Reactions
      BY <3>1 DEF Toggled, Reactions
    <3>3. [op |-> "react", of |-> c, by |-> u, reactions |-> Toggled(comment[c].reactions, u, x)]
            \in CommentFlight \ AddedComments
      BY <3>2 DEF CommentFlight, Toggles, AddedComments
    <3> QED BY <1>2, <2>5, <3>3 DEF ToggleReaction, Start, photoVars
  <2>6. ASSUME NEW k \in Slots, NEW ok, SaveComment(k) \/ WriteEdit(k) \/ DeleteComment(k) \/ WriteReactions(k)
                                 \/ WriteTranslation(k, ok)
        PROVE  FlightTypes'
    BY <1>4, <2>6 DEF SaveComment, WriteEdit, DeleteComment, WriteReactions, WriteTranslation, Finish, Go, photoVars
  <2> QED BY <1>21, <2>1, <2>2, <2>3, <2>4, <2>5, <2>6 DEF CommentsNext
<1>22. CASE Restart
  <2>1. flight' = [k \in Slots |-> Idle] /\ UNCHANGED named
    BY <1>22 DEF Restart
  <2>2. Idle \in Flight /\ Idle \notin Merges
    BY DEF Flight, AlbumFlight, Merges
  <2> QED BY <2>1, <2>2 DEF FlightTypes
<1>23. CASE UNCHANGED memoryVars
  BY <1>3, <1>23 DEF memoryVars, photoVars
<1>24. CASE PhotosNext
  BY <1>6, <1>7, <1>8, <1>9, <1>10, <1>24 DEF PhotosNext
<1>25. CASE PartsNext
  BY <1>8, <1>11, <1>13, <1>14, <1>15, <1>16, <1>17, <1>18, <1>19, <1>25 DEF PartsNext
<1> QED BY <1>5, <1>20, <1>21, <1>22, <1>23, <1>24, <1>25 DEF MemoriesNext

LEMMA MemTypesStep ==
  ASSUME MemTypes, [MemoriesNext]_memoryVars PROVE MemTypes'
BY AlbumTypesStep, PhotoTypesStep, NamedFirstStep, CommentTypesStep, FlightTypesStep DEF MemTypes

\* Rows, files, transcodings and comments have their form, and nothing of an album, member,
\* photo or comment on a photo, outlives it or its photo (the foreign keys of memory_photos
\* and memory_comments cascade).
THEOREM MemoriesTypeCorrect == MemoriesSpec => []MemoriesTypeOK
<1>1. MemTypes => MemoriesTypeOK
  BY DEF MemTypes, AlbumTypes, PhotoTypes, CommentTypes, MemoriesTypeOK
<1> QED BY <1>1, MemTypesInit, MemTypesStep, PTL DEF MemoriesSpec

-----------------------------------------------------------------------------
(* Rows and files.  A photo is stored under a name of its own, so that the *)
(* request that stores it is the only one that knows of it until its row   *)
(* is there, and nothing unlinks its file before; a transcoding starts     *)
(* after that, and unlinks the original only once the row names another.   *)

\* Photos a request has stored and not yet saved, and those it still answers for.
Unsaved(f) ==
  IF f.op = "upload" THEN f.todo
  ELSE IF f.op \in {"merge", "merged", "store"} THEN {f.of} ELSE {}
Held(f) == IF f.op = "count" THEN {f.of} ELSE Unsaved(f)

\* Photos whose files a request is about to unlink.
Doomed(f) == IF f.op \in {"drop", "remove"} THEN {x[1] : x \in f.files} ELSE {}

HeldApart ==
  \A k1, k2 \in Slots : k1 # k2 => Held(flight[k1]) \cap Held(flight[k2]) = {}
HeldWhole ==
  \A k \in Slots :
    /\ \A p \in Held(flight[k]) : p \in named /\ p \in Photos /\ job[p] = None
    /\ \A p \in Unsaved(flight[k]) : ~HasRow(p) /\ <<p, "file">> \in disk
HeldSafe ==
  \A k1, k2 \in Slots :
    /\ Doomed(flight[k1]) \subseteq named
    /\ Doomed(flight[k1]) \cap Unsaved(flight[k2]) = {}
DoomedOnly ==
  \A k \in Slots : flight[k].op = "remove" => flight[k].files \subseteq {flight[k].of} \X Parts
Transcoded ==
  \A p \in Rows :
    /\ job[p] \in {"encoded", "framed", "frameless"} => <<p, "tc">> \in disk
    /\ job[p] = "framed" => <<p, "tcthumb">> \in disk
    /\ job[p] = "swapped" => row[p].url = "tc"

FilesInv == HeldApart /\ HeldWhole /\ HeldSafe /\ DoomedOnly /\ Transcoded /\ RowsHaveFiles

USE DEF None

LEMMA FilesInit == MemoriesInit => FilesInv
<1> SUFFICES ASSUME MemoriesInit PROVE FilesInv
  OBVIOUS
<1>1. flight = [k \in Slots |-> Idle] /\ job = [p \in Photos |-> None]
  BY DEF MemoriesInit
<1>2. HeldApart /\ HeldWhole /\ HeldSafe /\ DoomedOnly /\ Transcoded
  BY <1>1 DEF HeldApart, HeldWhole, HeldSafe, DoomedOnly, Transcoded, Held, Unsaved, Doomed, Rows
<1>3. RowsHaveFiles
  <2>1. row = [p \in Photos |-> IF p \in named THEN NewRow(Creator, TRUE) ELSE NoRow]
        /\ disk = named \X {"file", "thumb"}
    BY DEF MemoriesInit
  <2>2. \A p \in Rows : p \in named /\ row[p] = NewRow(Creator, TRUE)
    BY <2>1 DEF Rows, HasRow
  <2> QED BY <2>1, <2>2 DEF RowsHaveFiles, NewRow
<1> QED BY <1>2, <1>3 DEF FilesInv

LEMMA FilesStep ==
  ASSUME MemTypes, FilesInv, [MemoriesNext]_memoryVars PROVE FilesInv'
<1>0. /\ PhotoTypes /\ NamedFirst /\ FlightTypes /\ AlbumTypes
      /\ HeldApart /\ HeldWhole /\ HeldSafe /\ DoomedOnly /\ Transcoded /\ RowsHaveFiles
  BY DEF MemTypes, FilesInv
<1>a. \A k \in Slots : flight[k] \in Flight
  BY <1>0 DEF FlightTypes
\* A request that stores and unlinks nothing moves on.
<1>1. ASSUME UNCHANGED <<row, named, disk, job>>,
             \A k \in Slots : \/ UNCHANGED flight[k]
                              \/ flight'[k].op \notin {"upload", "merge", "merged", "store",
                                                       "count", "drop", "remove"}
      PROVE  FilesInv'
  <2>1. \A k \in Slots : /\ Held(flight'[k]) \subseteq Held(flight[k])
                         /\ Unsaved(flight'[k]) \subseteq Unsaved(flight[k])
                         /\ Doomed(flight'[k]) \subseteq Doomed(flight[k])
    BY <1>1 DEF Held, Unsaved, Doomed
  <2>2. DoomedOnly'
    BY <1>0, <1>1 DEF DoomedOnly
  <2>3. HeldApart' /\ HeldWhole' /\ HeldSafe' /\ Transcoded' /\ RowsHaveFiles'
    BY <1>0, <1>1, <2>1 DEF HeldApart, HeldWhole, HeldSafe, Transcoded, RowsHaveFiles, Rows, HasRow
  <2> QED BY <2>2, <2>3 DEF FilesInv
<1>2. ASSUME NEW k \in Slots, NEW f, flight' = [flight EXCEPT ![k] = f],
             UNCHANGED <<row, named, disk, job>>,
             f.op \notin {"upload", "merge", "merged", "store", "count", "drop", "remove"}
      PROVE  FilesInv'
  <2>1. \A j \in Slots : flight'[j] = IF j = k THEN f ELSE flight[j]
    BY <1>0, <1>2 DEF FlightTypes
  <2>2. f.op \notin {"upload", "merge", "merged", "store", "count", "drop", "remove"}
    BY <1>2
  <2> QED BY <1>1, <1>2, <2>1, <2>2
<1>3. ASSUME UNCHANGED <<row, named, disk, job, flight>> PROVE FilesInv'
  BY <1>1, <1>3
\* A request is about to unlink files of rows.
<1>4. ASSUME NEW k \in Slots, NEW f, flight' = [flight EXCEPT ![k] = f],
             UNCHANGED <<row, named, disk, job>>,
             f.op \in {"drop", "remove"}, Doomed(f) \subseteq Rows,
             f.op = "remove" => f.files \subseteq {f.of} \X Parts
      PROVE  FilesInv'
  <2>1. \A j \in Slots : flight'[j] = IF j = k THEN f ELSE flight[j]
    BY <1>0, <1>4 DEF FlightTypes
  <2>2. \A j \in Slots : /\ Held(flight'[j]) \subseteq Held(flight[j])
                         /\ Unsaved(flight'[j]) \subseteq Unsaved(flight[j])
    BY <1>4, <2>1 DEF Held, Unsaved
  <2>3. Doomed(f) \subseteq named /\ \A j \in Slots : Doomed(f) \cap Unsaved(flight[j]) = {}
    BY <1>0, <1>4 DEF NamedFirst, HeldWhole, Rows
  <2>4. HeldSafe'
    BY <1>0, <1>4, <2>1, <2>2, <2>3 DEF HeldSafe
  <2>5. HeldApart' /\ HeldWhole' /\ Transcoded' /\ RowsHaveFiles'
    BY <1>0, <1>4, <2>2 DEF HeldApart, HeldWhole, Transcoded, RowsHaveFiles, Rows, HasRow
  <2>6. DoomedOnly'
    BY <1>0, <1>4, <2>1 DEF DoomedOnly
  <2> QED BY <2>4, <2>5, <2>6 DEF FilesInv
\* New photos are stored.
<1>5. ASSUME NEW k \in Slots, NEW f, NEW ps \in SUBSET Photos, flight' = [flight EXCEPT ![k] = f],
             UNCHANGED <<row, job>>, ps \cap named = {}, named' = named \cup ps,
             disk' = disk \cup {<<p, "file">> : p \in ps},
             Held(f) = ps, Unsaved(f) = ps, Doomed(f) = {}, f.op # "remove"
      PROVE  FilesInv'
  <2>1. \A j \in Slots : flight'[j] = IF j = k THEN f ELSE flight[j]
    BY <1>0, <1>5 DEF FlightTypes
  <2>2. \A j \in Slots : Held(flight[j]) \subseteq named /\ Unsaved(flight[j]) \subseteq Held(flight[j])
    BY <1>0 DEF HeldWhole, Held, Unsaved
  <2>3. \A p \in ps : p \in Photos /\ job[p] = None /\ ~HasRow(p)
    BY <1>0, <1>5 DEF NamedFirst
  <2>4. HeldApart'
    BY <1>0, <1>5, <2>1, <2>2 DEF HeldApart
  <2>5. HeldWhole'
    BY <1>0, <1>5, <2>1, <2>3 DEF HeldWhole, HasRow
  <2>6. HeldSafe'
    BY <1>0, <1>5, <2>1, <2>2 DEF HeldSafe
  <2>7. DoomedOnly' /\ Transcoded' /\ RowsHaveFiles'
    BY <1>0, <1>5, <2>1 DEF DoomedOnly, Transcoded, RowsHaveFiles, Rows, HasRow
  <2> QED BY <2>4, <2>5, <2>6, <2>7 DEF FilesInv
\* A stored photo is saved, or not.
<1>6. ASSUME NEW k \in Slots, NEW f, NEW p, p \in Unsaved(flight[k]), NEW u \in Users,
             NEW thumbed \in BOOLEAN, NEW saved \in BOOLEAN,
             flight' = [flight EXCEPT ![k] = f], UNCHANGED <<job, named>>,
             disk' = IF thumbed THEN disk \cup {<<p, "thumb">>} ELSE disk,
             row' = IF saved THEN [row EXCEPT ![p] = NewRow(u, thumbed)] ELSE row,
             Held(f) \subseteq Held(flight[k]), Unsaved(f) \subseteq Unsaved(flight[k]) \ {p},
             Doomed(f) = {}, f.op # "remove"
      PROVE  FilesInv'
  <2>1. \A j \in Slots : flight'[j] = IF j = k THEN f ELSE flight[j]
    BY <1>0, <1>6 DEF FlightTypes
  <2>2. /\ p \in Photos /\ p \in Held(flight[k]) /\ job[p] = None /\ <<p, "file">> \in disk
        /\ disk \subseteq disk'
    BY <1>0, <1>6 DEF HeldWhole, Held, Unsaved
  <2>3. \A q \in Photos : q # p => row'[q] = row[q]
    BY <1>0, <1>6 DEF PhotoTypes
  <2>4. \A j \in Slots : /\ Held(flight'[j]) \subseteq Held(flight[j])
                         /\ Unsaved(flight'[j]) \subseteq Unsaved(flight[j])
                         /\ Doomed(flight'[j]) \subseteq Doomed(flight[j])
    BY <1>6, <2>1
  <2>5. \A j \in Slots : p \notin Unsaved(flight'[j])
    <3>1. \A j \in Slots : Unsaved(flight[j]) \subseteq Held(flight[j])
      BY DEF Held, Unsaved
    <3> QED BY <1>0, <1>6, <2>1, <2>2, <3>1 DEF HeldApart
  <2>6. HeldApart' /\ HeldSafe' /\ DoomedOnly'
    BY <1>0, <1>6, <2>1, <2>4 DEF HeldApart, HeldSafe, DoomedOnly
  <2>7. HeldWhole'
    <3>1. ASSUME NEW j \in Slots, NEW q \in Unsaved(flight'[j])
          PROVE  ~(HasRow(q)') /\ <<q, "file">> \in disk'
      <4>1. q \in Unsaved(flight[j]) /\ q # p
        BY <2>4, <2>5, <3>1
      <4>2. q \in Photos /\ ~HasRow(q) /\ <<q, "file">> \in disk
        BY <1>0, <4>1 DEF HeldWhole, Held, Unsaved
      <4> QED BY <2>2, <2>3, <4>1, <4>2 DEF HasRow
    <3>2. ASSUME NEW j \in Slots, NEW q \in Held(flight'[j])
          PROVE  q \in named' /\ q \in Photos /\ job'[q] = None
      BY <1>0, <1>6, <2>4, <3>2 DEF HeldWhole
    <3> QED BY <3>1, <3>2 DEF HeldWhole
  <2>8. ASSUME NEW q \in Photos, row'[q] # NoRow
        PROVE  /\ job'[q] \in {"encoded", "framed", "frameless"} => <<q, "tc">> \in disk'
               /\ job'[q] = "framed" => <<q, "tcthumb">> \in disk'
               /\ job'[q] = "swapped" => row'[q].url = "tc"
               /\ <<q, row'[q].url>> \in disk'
               /\ <<q, row'[q].thumb>> \in disk' \/ (row'[q].url = "tc" /\ row'[q].thumb = "file")
    <3>1. CASE q # p \/ ~saved
      <4>1. row'[q] = row[q] /\ q \in Rows
        BY <1>6, <2>3, <2>8, <3>1 DEF Rows, HasRow
      <4> QED BY <1>0, <1>6, <2>2, <4>1 DEF Transcoded, RowsHaveFiles
    <3>2. CASE q = p /\ saved
      <4>1. row'[q] = NewRow(u, thumbed)
        BY <1>0, <1>6, <3>2, <2>2 DEF PhotoTypes
      <4> QED BY <1>6, <2>2, <3>2, <4>1 DEF NewRow
    <3> QED BY <3>1, <3>2
  <2>9. Transcoded' /\ RowsHaveFiles'
    BY <2>8 DEF Transcoded, RowsHaveFiles, Rows, HasRow
  <2> QED BY <2>6, <2>7, <2>9 DEF FilesInv
<1>7. ASSUME NEW k \in Slots, DropAlbum(k) PROVE FilesInv'
  <2>1. \A j \in Slots : flight'[j] = IF j = k THEN Idle ELSE flight[j]
    BY <1>0, <1>7 DEF DropAlbum, Finish, Go, FlightTypes
  <2>2. \A j \in Slots : /\ Held(flight'[j]) \subseteq Held(flight[j])
                         /\ Unsaved(flight'[j]) \subseteq Unsaved(flight[j])
                         /\ Doomed(flight'[j]) \subseteq Doomed(flight[j])
    BY <2>1 DEF Held, Unsaved, Doomed
  <2>3. Rows' = {} /\ UNCHANGED <<named, job>> /\ \A p \in Photos : ~(HasRow(p)')
    BY <1>7 DEF DropAlbum, Rows, HasRow
  <2>4. \A j \in Slots : \A p \in Unsaved(flight[j]) : <<p, "file">> \in disk'
    <3> SUFFICES ASSUME NEW j \in Slots, NEW p \in Unsaved(flight[j]) PROVE <<p, "file">> \in disk'
      OBVIOUS
    <3>1. <<p, "file">> \in disk /\ p \notin Doomed(flight[k]) /\ flight[k].op = "drop"
      BY <1>0, <1>7 DEF HeldWhole, HeldSafe, DropAlbum
    <3>2. <<p, "file">> \notin flight[k].files
      BY <3>1 DEF Doomed
    <3> QED BY <1>7, <3>1, <3>2 DEF DropAlbum
  <2>5. HeldApart' /\ HeldSafe' /\ DoomedOnly'
    <3>1. HeldApart' /\ HeldSafe'
      BY <1>0, <2>2, <2>3 DEF HeldApart, HeldSafe
    <3>2. DoomedOnly'
      BY <1>0, <2>1 DEF DoomedOnly
    <3> QED BY <3>1, <3>2
  <2>6. HeldWhole'
    <3>1. \A j \in Slots : Unsaved(flight[j]) \subseteq Held(flight[j])
      BY DEF Held, Unsaved
    <3> QED BY <1>0, <2>2, <2>3, <2>4, <3>1 DEF HeldWhole
  <2>7. Transcoded' /\ RowsHaveFiles'
    BY <2>3 DEF Transcoded, RowsHaveFiles
  <2> QED BY <2>5, <2>6, <2>7 DEF FilesInv
<1>8. ASSUME NEW k \in Slots, DeletePhoto(k) PROVE FilesInv'
  <2> DEFINE d == flight[k].of
  <2>1. \A j \in Slots : flight'[j] = IF j = k THEN [op |-> "discount"] ELSE flight[j]
    BY <1>0, <1>8 DEF DeletePhoto, Go, FlightTypes
  <2>2. \A j \in Slots : /\ Held(flight'[j]) \subseteq Held(flight[j])
                         /\ Unsaved(flight'[j]) \subseteq Unsaved(flight[j])
                         /\ Doomed(flight'[j]) \subseteq Doomed(flight[j])
    BY <2>1 DEF Held, Unsaved, Doomed
  <2>3. d \in Photos /\ flight[k].files \subseteq {d} \X Parts /\ flight[k].op = "remove"
    BY <1>0, <1>8, Kinds DEF DeletePhoto, DoomedOnly, Removals
  <2>4. /\ \A p \in Photos : row'[p] = IF p = d THEN NoRow ELSE row[p]
        /\ disk' = disk \ flight[k].files /\ UNCHANGED <<named, job>>
    BY <1>0, <1>8, <2>3 DEF DeletePhoto, PhotoTypes
  <2>5. \A p \in Photos, x \in Parts : p # d /\ <<p, x>> \in disk => <<p, x>> \in disk'
    BY <2>3, <2>4
  <2>6. \A j \in Slots : \A p \in Unsaved(flight[j]) : <<p, "file">> \in disk'
    <3> SUFFICES ASSUME NEW j \in Slots, NEW p \in Unsaved(flight[j]) PROVE <<p, "file">> \in disk'
      OBVIOUS
    <3>1. <<p, "file">> \in disk /\ p \notin Doomed(flight[k])
      BY <1>0 DEF HeldWhole, HeldSafe
    <3>2. <<p, "file">> \notin flight[k].files
      BY <2>3, <3>1 DEF Doomed
    <3> QED BY <2>4, <3>1, <3>2
  <2>7. HeldApart' /\ HeldSafe' /\ DoomedOnly'
    BY <1>0, <2>1, <2>2, <2>4 DEF HeldApart, HeldSafe, DoomedOnly
  <2>8. HeldWhole'
    <3>1. \A j \in Slots : Unsaved(flight[j]) \subseteq Held(flight[j])
      BY DEF Held, Unsaved
    <3> QED BY <1>0, <2>2, <2>4, <2>6, <3>1 DEF HeldWhole, HasRow
  <2>9. ASSUME NEW q \in Rows'
        PROVE  q \in Rows /\ q # d /\ row'[q] = row[q] /\ row[q].url \in Parts /\ row[q].thumb \in Parts
    <3>1. q \in Photos /\ q # d /\ row'[q] = row[q] /\ row[q] # NoRow
      BY <2>4, <2>9 DEF Rows, HasRow
    <3>2. row[q] \in PhotoRow
      BY <1>0, <3>1 DEF PhotoTypes
    <3> QED BY <3>1, <3>2 DEF PhotoRow, Parts, Rows, HasRow
  <2> HIDE DEF d
  <2>10. Transcoded' /\ RowsHaveFiles'
    <3>1. {"tc", "tcthumb"} \subseteq Parts /\ Rows \subseteq Photos
      BY DEF Parts, Rows
    <3> QED BY <1>0, <2>4, <2>5, <2>9, <3>1 DEF Transcoded, RowsHaveFiles
  <2> QED BY <2>7, <2>8, <2>10 DEF FilesInv
\* A transcoding moves on: no request holds its photo.
<1>9. ASSUME NEW p \in Photos, job[p] # None, UNCHANGED <<named, flight>>,
             \A q \in Photos : q # p => job'[q] = job[q] /\ row'[q] = row[q],
             \A q \in Photos, x \in Parts : q # p /\ <<q, x>> \in disk => <<q, x>> \in disk',
             ~HasRow(p) => row'[p] = row[p],
             row'[p] # NoRow =>
               /\ job'[p] \in {"encoded", "framed", "frameless"} => <<p, "tc">> \in disk'
               /\ job'[p] = "framed" => <<p, "tcthumb">> \in disk'
               /\ job'[p] = "swapped" => row'[p].url = "tc"
               /\ <<p, row'[p].url>> \in disk'
               /\ <<p, row'[p].thumb>> \in disk' \/ (row'[p].url = "tc" /\ row'[p].thumb = "file")
      PROVE  FilesInv'
  <2>1. \A j \in Slots : p \notin Held(flight[j]) /\ Unsaved(flight[j]) \subseteq Held(flight[j])
    BY <1>0, <1>9 DEF HeldWhole, Held, Unsaved
  <2>2. HeldApart' /\ HeldSafe' /\ DoomedOnly'
    BY <1>0, <1>9 DEF HeldApart, HeldSafe, DoomedOnly
  <2>3. HeldWhole'
    <3>1. ASSUME NEW j \in Slots, NEW q \in Held(flight[j])
          PROVE  q \in named' /\ q \in Photos /\ job'[q] = None
      BY <1>0, <1>9, <2>1, <3>1 DEF HeldWhole
    <3>2. ASSUME NEW j \in Slots, NEW q \in Unsaved(flight[j])
          PROVE  ~(HasRow(q)') /\ <<q, "file">> \in disk'
      <4>1. q # p /\ q \in Photos /\ ~HasRow(q) /\ <<q, "file">> \in disk
        BY <1>0, <2>1, <3>2 DEF HeldWhole
      <4>2. "file" \in Parts
        BY DEF Parts
      <4> QED BY <1>9, <4>1, <4>2 DEF HasRow
    <3> QED BY <1>9, <3>1, <3>2 DEF HeldWhole
  <2>4. ASSUME NEW q \in Rows'
        PROVE  /\ job'[q] \in {"encoded", "framed", "frameless"} => <<q, "tc">> \in disk'
               /\ job'[q] = "framed" => <<q, "tcthumb">> \in disk'
               /\ job'[q] = "swapped" => row'[q].url = "tc"
               /\ <<q, row'[q].url>> \in disk'
               /\ <<q, row'[q].thumb>> \in disk' \/ (row'[q].url = "tc" /\ row'[q].thumb = "file")
    <3>1. q \in Photos /\ row'[q] # NoRow
      BY <2>4 DEF Rows, HasRow
    <3>2. CASE q = p
      BY <1>9, <3>1, <3>2
    <3>3. CASE q # p
      <4>1. row'[q] = row[q] /\ job'[q] = job[q] /\ q \in Rows
        BY <1>9, <3>1, <3>3 DEF Rows, HasRow
      <4>2. row[q].url \in Parts /\ row[q].thumb \in Parts /\ {"tc", "tcthumb"} \subseteq Parts
        <5>1. row[q] \in PhotoRow
          BY <1>0, <3>1, <4>1 DEF PhotoTypes
        <5> QED BY <5>1 DEF PhotoRow, Parts
      <4> QED BY <1>0, <1>9, <3>1, <3>3, <4>1, <4>2 DEF Transcoded, RowsHaveFiles
    <3> QED BY <3>2, <3>3
  <2>5. Transcoded' /\ RowsHaveFiles'
    BY <2>4 DEF Transcoded, RowsHaveFiles
  <2> QED BY <2>2, <2>3, <2>5 DEF FilesInv
<1>10. ASSUME NEW p \in Photos, NEW ok \in BOOLEAN, Encode(p, ok) \/ Frame(p, ok) PROVE FilesInv'
  <2>1. job[p] # None /\ UNCHANGED <<row, named, flight>> /\ disk \subseteq disk'
        /\ \A q \in Photos : q # p => job'[q] = job[q]
    BY <1>0, <1>10 DEF Encode, Frame, PhotoTypes
  <2>2. job'[p] \in {None, "encoded", "framed", "frameless"}
    BY <1>0, <1>10 DEF Encode, Frame, PhotoTypes
  <2>3. row[p] # NoRow /\ job'[p] # None => <<p, "tc">> \in disk' /\ (job'[p] = "framed" => <<p, "tcthumb">> \in disk')
    <3>1. p \in Rows /\ job[p] = "encoded" => <<p, "tc">> \in disk
      BY <1>0 DEF Transcoded
    <3> QED BY <1>0, <1>10, <2>1, <3>1 DEF Encode, Frame, PhotoTypes, Rows, HasRow
  <2>4. row[p] # NoRow => <<p, row[p].url>> \in disk /\ (<<p, row[p].thumb>> \in disk \/ (row[p].url = "tc" /\ row[p].thumb = "file"))
    BY <1>0 DEF RowsHaveFiles, Rows, HasRow
  <2> QED BY <1>9, <2>1, <2>2, <2>3, <2>4
<1>11. ASSUME NEW p \in Photos, NEW ok \in BOOLEAN, SwapVideo(p, ok) PROVE FilesInv'
  <2>1. job[p] # None /\ UNCHANGED <<disk, named, flight>> /\ job[p] \in {"framed", "frameless"}
        /\ \A q \in Photos : q # p => job'[q] = job[q] /\ row'[q] = row[q]
    BY <1>0, <1>11 DEF SwapVideo, PhotoTypes
  <2>2. CASE ok /\ HasRow(p)
    <3>1. row'[p] = [url |-> "tc", by |-> row[p].by,
                     thumb |-> IF job[p] = "framed" THEN "tcthumb" ELSE row[p].thumb]
          /\ job'[p] = "swapped"
      BY <1>0, <1>11, <2>2 DEF SwapVideo, PhotoTypes
    <3>2. <<p, "tc">> \in disk /\ (job[p] = "framed" => <<p, "tcthumb">> \in disk)
          /\ (<<p, row[p].thumb>> \in disk \/ row[p].thumb = "file")
      BY <1>0, <2>1, <2>2 DEF Transcoded, RowsHaveFiles, Rows
    <3>3. /\ row'[p].url = "tc"
          /\ <<p, row'[p].thumb>> \in disk \/ row'[p].thumb = "file"
      BY <3>1, <3>2
    <3> QED BY <1>9, <2>1, <2>2, <3>1, <3>2, <3>3 DEF HasRow
  <2>3. CASE ~(ok /\ HasRow(p))
    <3>1. row' = row /\ job'[p] = IF ok THEN "swapped" ELSE None
      BY <1>0, <1>11, <2>3 DEF SwapVideo, PhotoTypes
    <3>2. HasRow(p) => <<p, row[p].url>> \in disk /\ (<<p, row[p].thumb>> \in disk \/ (row[p].url = "tc" /\ row[p].thumb = "file"))
      BY <1>0 DEF RowsHaveFiles, Rows
    <3> QED BY <1>9, <2>1, <2>3, <3>1, <3>2 DEF HasRow
  <2> QED BY <2>2, <2>3
<1>12. ASSUME NEW p \in Photos, UnlinkOriginal(p) PROVE FilesInv'
  <2>1. job[p] # None /\ UNCHANGED <<row, named, flight>> /\ job[p] = "swapped" /\ job'[p] = None
        /\ \A q \in Photos : q # p => job'[q] = job[q]
    BY <1>0, <1>12 DEF UnlinkOriginal, Unlinkable, PhotoTypes
  <2>2. disk' = disk \ {<<p, "file">>}
    BY <1>12 DEF UnlinkOriginal
  <2>3. row[p] # NoRow => /\ row[p].url = "tc" /\ <<p, "tc">> \in disk
                          /\ <<p, row[p].thumb>> \in disk \/ row[p].thumb = "file"
    BY <1>0, <2>1 DEF Transcoded, RowsHaveFiles, Rows, HasRow
  <2>4. row[p] # NoRow => <<p, row[p].url>> \in disk' /\ (<<p, row[p].thumb>> \in disk' \/ (row[p].url = "tc" /\ row[p].thumb = "file"))
    BY <2>2, <2>3
  <2> QED BY <1>9, <2>1, <2>2, <2>4
<1>13. ASSUME NEW k \in Slots, CountMerged(k) PROVE FilesInv'
  <2> DEFINE d == flight[k].of
  <2>1. flight[k] \in Merges /\ d \in Photos /\ Held(flight[k]) = {d} /\ d \in named
    <3>1. flight[k] \in Merges /\ flight[k].op = "count"
      BY <1>0, <1>13, Kinds DEF CountMerged
    <3> QED BY <1>0, <3>1 DEF Merges, Held, FlightTypes
  <2>2. \A j \in Slots : flight'[j] = IF j = k THEN Idle ELSE flight[j]
    BY <1>0, <1>13 DEF CountMerged, Finish, Go, FlightTypes
  <2>3. \A j \in Slots : /\ Held(flight'[j]) \subseteq Held(flight[j])
                         /\ Unsaved(flight'[j]) \subseteq Unsaved(flight[j])
                         /\ Doomed(flight'[j]) \subseteq Doomed(flight[j])
                         /\ d \notin Held(flight'[j])
    <3>1. \A j \in Slots : j # k => d \notin Held(flight[j])
      BY <1>0, <2>1 DEF HeldApart
    <3> QED BY <2>2, <3>1 DEF Held, Unsaved, Doomed
  <2>4. /\ UNCHANGED <<row, named, disk>> /\ job'[d] \in {job[d], "encoding"} /\ job[d] = None
        /\ \A p \in Photos : p # d => job'[p] = job[p]
    BY <1>0, <1>13, <2>1 DEF CountMerged, PhotoTypes, HeldWhole
  <2> HIDE DEF d
  <2>5. HeldApart' /\ HeldSafe'
    BY <1>0, <2>3, <2>4 DEF HeldApart, HeldSafe
  <2>6. HeldWhole'
    BY <1>0, <2>3, <2>4 DEF HeldWhole, HasRow
  <2>7. DoomedOnly'
    BY <1>0, <2>2 DEF DoomedOnly
  <2>8. Transcoded' /\ RowsHaveFiles'
    BY <1>0, <2>4 DEF Transcoded, RowsHaveFiles, Rows, HasRow
  <2> QED BY <2>5, <2>6, <2>7, <2>8 DEF FilesInv
<1>14. CASE Restart
  <2>1. /\ flight' = [k \in Slots |-> Idle] /\ job' = [p \in Photos |-> None]
        /\ UNCHANGED <<row, named, disk>>
    BY <1>14 DEF Restart
  <2>2. HeldApart' /\ HeldWhole' /\ HeldSafe' /\ DoomedOnly'
    BY <2>1 DEF HeldApart, HeldWhole, HeldSafe, DoomedOnly, Held, Unsaved, Doomed
  <2>3. Transcoded' /\ RowsHaveFiles'
    BY <1>0, <2>1 DEF Transcoded, RowsHaveFiles, Rows, HasRow
  <2> QED BY <2>2, <2>3 DEF FilesInv
<1>15. ASSUME NEW k \in Slots, RemoveAlbum(k) PROVE FilesInv'
  <2> DEFINE f == [op |-> "drop", files |-> UNION {FilesOf(p, row[p]) : p \in Rows}]
  <2>1. flight' = [flight EXCEPT ![k] = f] /\ UNCHANGED <<row, named, disk, job>>
    BY <1>15 DEF RemoveAlbum, Start, photoVars
  <2>2. Doomed(f) \subseteq Rows
    <3>1. \A p \in Rows : FilesOf(p, row[p]) \subseteq {p} \X Parts
      BY <1>0, FilesType DEF Rows, HasRow, PhotoTypes
    <3>2. \A x \in f.files : x[1] \in Rows
      BY <3>1
    <3> QED BY <3>2 DEF Doomed
  <2>3. f.op = "drop"
    OBVIOUS
  <2> HIDE DEF f
  <2> QED BY <1>4, <2>1, <2>2, <2>3
<1>16. ASSUME NEW k \in Slots, NEW u \in Users, NEW p \in Photos, RemovePhoto(k, u, p) PROVE FilesInv'
  <2> DEFINE f == [op |-> "remove", of |-> p, files |-> FilesOf(p, row[p])]
  <2>1. flight' = [flight EXCEPT ![k] = f] /\ UNCHANGED <<row, named, disk, job>> /\ p \in Rows
    BY <1>16 DEF RemovePhoto, Start, photoVars, Rows
  <2>2. f.files \subseteq {p} \X Parts /\ f.op = "remove" /\ f.of = p
    BY <1>0, <2>1, FilesType DEF Rows, HasRow, PhotoTypes
  <2> HIDE DEF f
  <2>3. Doomed(f) \subseteq Rows
    BY <2>1, <2>2 DEF Doomed
  <2> QED BY <1>4, <2>1, <2>2, <2>3
<1>17. ASSUME NEW k \in Slots, NEW u \in Users, NEW batch \in SUBSET Photos, Upload(k, u, batch)
       PROVE  FilesInv'
  <2> DEFINE f == [op |-> "upload", by |-> u, todo |-> batch, size |-> Cardinality(batch), failed |-> FALSE]
  <2>1. /\ flight' = [flight EXCEPT ![k] = f] /\ UNCHANGED <<row, job>>
        /\ batch \cap named = {} /\ named' = named \cup batch
        /\ disk' = disk \cup {<<p, "file">> : p \in batch}
    BY <1>17 DEF Upload, Start
  <2>2. f.op = "upload" /\ f.todo = batch
    OBVIOUS
  <2> HIDE DEF f
  <2>3. Held(f) = batch /\ Unsaved(f) = batch /\ Doomed(f) = {}
    BY <2>2 DEF Held, Unsaved, Doomed
  <2> QED BY <1>5, <2>1, <2>2, <2>3
<1>18. ASSUME NEW k \in Slots, NEW u \in Users, NEW p \in Photos, NEW video \in BOOLEAN,
              CompleteUpload(k, u, p, video)
       PROVE  FilesInv'
  <2> DEFINE f == [op |-> "merge", of |-> p, by |-> u, video |-> video]
             ps == {p}
  <2>1. /\ flight' = [flight EXCEPT ![k] = f] /\ UNCHANGED <<row, job>>
        /\ ps \cap named = {} /\ named' = named \cup ps
        /\ disk' = disk \cup {<<q, "file">> : q \in ps}
    BY <1>18 DEF CompleteUpload, Start
  <2>2. f.op = "merge" /\ f.of = p
    OBVIOUS
  <2> HIDE DEF f
  <2>3. Held(f) = ps /\ Unsaved(f) = ps /\ Doomed(f) = {} /\ ps \in SUBSET Photos
    BY <2>2 DEF Held, Unsaved, Doomed
  <2> HIDE DEF ps
  <2> QED BY <1>5, <2>1, <2>2, <2>3
<1>19. ASSUME NEW k \in Slots, NEW p \in Photos, NEW thumbed \in BOOLEAN, NEW saved \in BOOLEAN,
              SavePhoto(k, p, thumbed, saved)
       PROVE  FilesInv'
  <2> DEFINE f == [flight[k] EXCEPT !.todo = @ \ {p}, !.failed = @ \/ ~saved]
  <2>1. flight[k] \in Uploads /\ flight[k].op = "upload" /\ p \in flight[k].todo
    BY <1>0, <1>19, Kinds DEF SavePhoto
  <2>2. f.op = "upload" /\ f.todo = flight[k].todo \ {p} /\ flight[k].by \in Users
    BY <2>1 DEF Uploads
  <2>3. /\ flight' = [flight EXCEPT ![k] = f] /\ UNCHANGED <<job, named>>
        /\ disk' = IF thumbed THEN disk \cup {<<p, "thumb">>} ELSE disk
        /\ row' = IF saved THEN [row EXCEPT ![p] = NewRow(flight[k].by, thumbed)] ELSE row
    BY <1>19 DEF SavePhoto, Go
  <2> HIDE DEF f
  <2>4. /\ p \in Unsaved(flight[k]) /\ Doomed(f) = {} /\ f.op # "remove"
        /\ Held(f) \subseteq Held(flight[k]) /\ Unsaved(f) \subseteq Unsaved(flight[k]) \ {p}
    BY <2>1, <2>2 DEF Held, Unsaved, Doomed
  <2> QED BY <1>6, <2>2, <2>3, <2>4
<1>20. ASSUME NEW k \in Slots, NEW thumbed \in BOOLEAN, NEW saved \in BOOLEAN,
              StoreMerged(k, thumbed, saved)
       PROVE  FilesInv'
  <2> DEFINE f == IF saved THEN [flight[k] EXCEPT !.op = "count"] ELSE Idle
             p == flight[k].of
  <2>1. flight[k] \in Merges /\ flight[k].op = "store" /\ p \in Photos /\ flight[k].by \in Users
    <3>1. flight[k] \in Merges /\ flight[k].op = "store"
      BY <1>0, <1>20, Kinds DEF StoreMerged
    <3> QED BY <3>1 DEF Merges
  <2>2. f.op \in {"count", "idle"} /\ (f.op = "count" => f.of = p)
    BY <2>1 DEF Merges
  <2>3. /\ flight' = [flight EXCEPT ![k] = f] /\ UNCHANGED <<job, named>>
        /\ disk' = IF thumbed THEN disk \cup {<<p, "thumb">>} ELSE disk
        /\ row' = IF saved THEN [row EXCEPT ![p] = NewRow(flight[k].by, thumbed)] ELSE row
    BY <1>20 DEF StoreMerged, Go, Finish
  <2>5. Held(flight[k]) = {p} /\ Unsaved(flight[k]) = {p}
    BY <2>1 DEF Held, Unsaved
  <2> HIDE DEF f, p
  <2>4. /\ p \in Unsaved(flight[k]) /\ Doomed(f) = {} /\ f.op # "remove"
        /\ Held(f) \subseteq Held(flight[k]) /\ Unsaved(f) \subseteq Unsaved(flight[k]) \ {p}
    BY <2>2, <2>5 DEF Held, Unsaved, Doomed
  <2> QED BY <1>6, <2>1, <2>3, <2>4
\* A merge goes on with the photo it holds.
<1>21. ASSUME NEW k \in Slots, NEW f, flight' = [flight EXCEPT ![k] = f],
              UNCHANGED <<row, named, disk, job>>, flight[k].op \in {"merge", "merged"},
              f.op \in {"merged", "store"}, f.of = flight[k].of
       PROVE  FilesInv'
  <2>5. \A j \in Slots : flight'[j] = IF j = k THEN f ELSE flight[j]
    BY <1>0, <1>21 DEF FlightTypes
  <2>6. Held(f) \subseteq Held(flight[k]) /\ Unsaved(f) \subseteq Unsaved(flight[k]) /\ Doomed(f) = {}
        /\ f.op # "remove"
    BY <1>21 DEF Held, Unsaved, Doomed
  <2>7. \A j \in Slots : /\ Held(flight'[j]) \subseteq Held(flight[j])
                         /\ Unsaved(flight'[j]) \subseteq Unsaved(flight[j])
                         /\ Doomed(flight'[j]) \subseteq Doomed(flight[j])
    BY <2>5, <2>6
  <2>8. DoomedOnly'
    BY <1>0, <2>5, <2>6 DEF DoomedOnly
  <2>9. HeldApart' /\ HeldSafe'
    BY <1>0, <1>21, <2>7 DEF HeldApart, HeldSafe
  <2>10. HeldWhole'
    BY <1>0, <1>21, <2>7 DEF HeldWhole, HasRow
  <2>11. Transcoded' /\ RowsHaveFiles'
    BY <1>0, <1>21 DEF Transcoded, RowsHaveFiles, Rows, HasRow
  <2> QED BY <2>8, <2>9, <2>10, <2>11 DEF FilesInv
<1>31. ASSUME NEW k \in Slots, MergeChunks(k) PROVE FilesInv'
  <2>1. flight[k] \in Merges /\ flight[k].op = "merge" /\ UNCHANGED <<row, named, disk, job>>
    BY <1>0, <1>31, Kinds DEF MergeChunks, photoVars
  <2> DEFINE f == [flight[k] EXCEPT !.op = "merged"]
  <2>2. f.op = "merged" /\ f.of = flight[k].of
    BY <2>1 DEF Merges
  <2>3. flight' = [flight EXCEPT ![k] = f] \/ flight' = [flight EXCEPT ![k] = Idle]
    BY <1>31 DEF MergeChunks, Go, Finish
  <2> HIDE DEF f
  <2> QED BY <1>2, <1>21, <2>1, <2>2, <2>3
<1>32. ASSUME NEW k \in Slots, PurgeChunks(k) PROVE FilesInv'
  <2>1. flight[k] \in Merges /\ flight[k].op = "merged" /\ UNCHANGED <<row, named, disk, job>>
    BY <1>0, <1>32, Kinds DEF PurgeChunks
  <2> DEFINE f == [flight[k] EXCEPT !.op = "store"]
  <2>2. f.op = "store" /\ f.of = flight[k].of
    BY <2>1 DEF Merges
  <2>3. flight' = [flight EXCEPT ![k] = f]
    BY <1>32 DEF PurgeChunks, Go
  <2> HIDE DEF f
  <2> QED BY <1>21, <2>1, <2>2, <2>3
<1>22. ASSUME NEW k \in Slots, CountUpload(k) \/ DiscountPhoto(k) PROVE FilesInv'
  BY <1>2, <1>22 DEF CountUpload, DiscountPhoto, Finish, Go, photoVars
<1>23. ASSUME NEW u, NEW i, UploadChunk(u, i) PROVE FilesInv'
  BY <1>3, <1>23 DEF UploadChunk
<1>24. CASE CleanupChunks
  BY <1>3, <1>24 DEF CleanupChunks
<1>25. CASE UNCHANGED memoryVars
  BY <1>3, <1>25 DEF memoryVars, photoVars
<1>26. CASE TokenNext
  <2>1. ASSUME NEW k \in Slots, Download(k) PROVE FilesInv'
    BY <1>2, <2>1 DEF Download, Start, photoVars
  <2>2. ASSUME NEW k \in Slots, ServeArchive(k) PROVE FilesInv'
    BY <1>2, <2>2 DEF ServeArchive, Finish, Go, photoVars
  <2>3. ASSUME NEW u, CreateToken(u) PROVE FilesInv'
    BY <1>3, <2>3 DEF CreateToken, photoVars
  <2>4. CASE ExpireToken
    BY <1>3, <2>4 DEF ExpireToken, photoVars
  <2> QED BY <1>26, <2>1, <2>2, <2>3, <2>4 DEF TokenNext
<1>27. CASE CommentsNext
  <2>1. ASSUME NEW k \in Slots, NEW u, NEW c, NEW t, EditComment(k, u, c, t) PROVE FilesInv'
    BY <1>2, <2>1 DEF EditComment, Start, photoVars
  <2>2. ASSUME NEW k \in Slots, NEW u, NEW c, NEW p, NEW t, AddComment(k, u, c, p, t) PROVE FilesInv'
    BY <1>2, <2>2 DEF AddComment, Start, photoVars
  <2>3. ASSUME NEW k \in Slots, NEW u, NEW c, RemoveComment(k, u, c) \/ Translate(k, u, c) PROVE FilesInv'
    BY <1>2, <2>3 DEF RemoveComment, Translate, Start, photoVars
  <2>4. ASSUME NEW k \in Slots, NEW u, NEW c, NEW x, ToggleReaction(k, u, c, x) PROVE FilesInv'
    BY <1>2, <2>4 DEF ToggleReaction, Start, photoVars
  <2>5. ASSUME NEW k \in Slots, NEW ok, SaveComment(k) \/ WriteEdit(k) \/ DeleteComment(k) \/ WriteReactions(k)
                                          \/ WriteTranslation(k, ok)
        PROVE  FilesInv'
    BY <1>2, <2>5 DEF SaveComment, WriteEdit, DeleteComment, WriteReactions, WriteTranslation, Finish, Go, photoVars
  <2> QED BY <1>27, <2>1, <2>2, <2>3, <2>4, <2>5 DEF CommentsNext
<1>28. CASE AlbumNext
  <2>1. ASSUME NEW k \in Slots, NEW private, NEW list, CreateAlbum(k, private, list) PROVE FilesInv'
    BY <1>2, <2>1 DEF CreateAlbum, Go, photoVars
  <2>2. ASSUME NEW k \in Slots, NEW u, NEW list, UpdateMembers(k, u, list) PROVE FilesInv'
    BY <1>2, <2>2 DEF UpdateMembers, Start, photoVars
  <2>3. ASSUME NEW k \in Slots, NEW private, NEW relist, NEW list, UpdateAlbum(k, private, relist, list)
        PROVE  FilesInv'
    BY <1>2, <2>3 DEF UpdateAlbum, Start, photoVars
  <2>4. ASSUME NEW k \in Slots, WriteAlbum(k) PROVE FilesInv'
    <3> DEFINE f == IF flight[k].relist THEN [op |-> "wipe", list |-> flight[k].list] ELSE Idle
    <3>1. flight' = [flight EXCEPT ![k] = f] /\ f.op \in {"wipe", "idle"} /\ UNCHANGED photoVars
      BY <2>4 DEF WriteAlbum, Go
    <3> HIDE DEF f
    <3> QED BY <1>2, <3>1 DEF photoVars
  <2>5. ASSUME NEW k \in Slots, WipeMembers(k) \/ FillMembers(k) PROVE FilesInv'
    BY <1>2, <2>5 DEF WipeMembers, FillMembers, Finish, Go, photoVars
  <2> QED BY <1>7, <1>15, <1>28, <2>1, <2>2, <2>3, <2>4, <2>5 DEF AlbumNext
<1>29. CASE PhotosNext
  BY <1>8, <1>16, <1>17, <1>19, <1>22, <1>29 DEF PhotosNext
<1>30. CASE PartsNext
  <2>1. ASSUME NEW p \in Photos, NEW ok \in BOOLEAN, Encode(p, ok) PROVE FilesInv'
    BY <1>10, <2>1
  <2>2. ASSUME NEW p \in Photos, NEW ok \in BOOLEAN, Frame(p, ok) PROVE FilesInv'
    BY <1>10, <2>2
  <2> QED BY <1>11, <1>12, <1>13, <1>18, <1>20, <1>23, <1>24, <1>30, <1>31, <1>32, <2>1, <2>2 DEF PartsNext
<1> QED BY <1>14, <1>25, <1>26, <1>27, <1>28, <1>29, <1>30 DEF MemoriesNext

\* Through uploads, removals, transcodings and restarts, every photo that is shown has the file
\* its row names, and its thumbnail unless both attempts at one failed.
THEOREM RowsHaveFilesCorrect == MemoriesSpec => []RowsHaveFiles
<1>1. MemoriesInit => MemTypes /\ FilesInv
  BY MemTypesInit, FilesInit
<1>2. MemTypes /\ FilesInv /\ [MemoriesNext]_memoryVars => (MemTypes /\ FilesInv)'
  BY MemTypesStep, FilesStep
<1>3. FilesInv => RowsHaveFiles
  BY DEF FilesInv
<1> QED BY <1>1, <1>2, <1>3, PTL DEF MemoriesSpec

-----------------------------------------------------------------------------
(* The count of the photos.  While no count was missed, photoCount and the *)
(* photos saved and not counted yet are together the rows and the removals *)
(* that are not counted yet.                                               *)

\* What a request has saved and not counted: the photos of its batch, numbered from 1, or
\* the video of an upload in parts, as number 0.
Uncounted(f) ==
  IF f.op = "upload" /\ ~f.failed THEN 1 .. (f.size - Cardinality(f.todo))
  ELSE IF f.op = "count" THEN {0} ELSE {}
MaxBatch == Cardinality(Photos)
Pending == {x \in Slots \X (0 .. MaxBatch) : x[2] \in Uncounted(flight[x[1]])}
Discounts == {k \in Slots : flight[k].op = "discount"}

PhotoOps == {"upload", "remove", "discount", "merge", "merged", "store", "count"}

Batches ==
  \A k \in Slots : flight[k].op = "upload" =>
    /\ flight[k].size \in 1 .. MaxBatch
    /\ Cardinality(flight[k].todo) <= flight[k].size
    /\ flight[k].failed => "count" \in torn \/ flight[k].todo = {}
BeforeAlbum ==
  album.state = "none" => album.count = 0 /\ \A k \in Slots : flight[k].op \notin PhotoOps
Counting ==
  Live /\ "count" \notin torn =>
    album.count + Cardinality(Pending) = Cardinality(Rows) + Cardinality(Discounts)

CountInv == Batches /\ BeforeAlbum /\ Counting

LEMMA Finite ==
  /\ MaxBatch \in Nat /\ IsFiniteSet(0 .. MaxBatch)
  /\ IsFiniteSet(Pending) /\ IsFiniteSet(Discounts) /\ IsFiniteSet(Rows)
  /\ Cardinality(Pending) \in Nat /\ Cardinality(Discounts) \in Nat /\ Cardinality(Rows) \in Nat
<1>1. MaxBatch \in Nat
  BY FS_CardinalityType DEF MaxBatch
<1>5. 0 \in Int /\ MaxBatch \in Int
  BY <1>1
<1>6. IsFiniteSet(0 .. MaxBatch)
  BY <1>5, FS_Interval
<1>2. IsFiniteSet(Slots \X (0 .. MaxBatch))
  BY <1>6, FS_Product
<1>3. Pending \subseteq Slots \X (0 .. MaxBatch) /\ Discounts \subseteq Slots /\ Rows \subseteq Photos
  BY DEF Pending, Discounts, Rows
<1>4. IsFiniteSet(Pending) /\ IsFiniteSet(Discounts) /\ IsFiniteSet(Rows)
  BY <1>2, <1>3, FS_Subset
<1> QED BY <1>1, <1>4, <1>6, FS_CardinalityType

LEMMA UncountedType ==
  ASSUME FlightTypes, Batches, NEW k \in Slots
  PROVE  /\ Uncounted(flight[k]) \subseteq 0 .. MaxBatch
         /\ flight[k].op = "upload" => IsFiniteSet(flight[k].todo) /\ Cardinality(flight[k].todo) \in Nat
<1>1. CASE flight[k].op = "upload"
  <2>1. flight[k] \in Uploads
    BY <1>1, Kinds
  <2>2. IsFiniteSet(flight[k].todo) /\ Cardinality(flight[k].todo) \in Nat
    BY <2>1, FS_Subset, FS_CardinalityType DEF Uploads
  <2>3. flight[k].size \in 1 .. MaxBatch
    BY <1>1 DEF Batches
  <2> QED BY <1>1, <2>2, <2>3, Finite DEF Uncounted
<1>2. CASE flight[k].op # "upload"
  BY <1>2, Finite DEF Uncounted
<1> QED BY <1>1, <1>2

\* How the pending counts change when one request moves.
LEMMA PendingMoves ==
  ASSUME FlightTypes, Batches, NEW k \in Slots, NEW f, flight' = [flight EXCEPT ![k] = f]
  PROVE  /\ Uncounted(f) = Uncounted(flight[k]) => Pending' = Pending
         /\ \A n \in 0 .. MaxBatch : Uncounted(f) = Uncounted(flight[k]) \cup {n} /\ n \notin Uncounted(flight[k])
              => Cardinality(Pending') = Cardinality(Pending) + 1
         /\ Uncounted(f) = {} =>
              Cardinality(Pending') = Cardinality(Pending) - Cardinality(Uncounted(flight[k]))
<1>1. \A j \in Slots : flight'[j] = IF j = k THEN f ELSE flight[j]
  BY DEF FlightTypes
<1>2. Pending' = {x \in Slots \X (0 .. MaxBatch) : x[2] \in Uncounted(flight'[x[1]])}
  BY DEF Pending
<1>3. Uncounted(f) = Uncounted(flight[k]) => Pending' = Pending
  BY <1>1, <1>2 DEF Pending
<1>4. ASSUME NEW n \in 0 .. MaxBatch, Uncounted(f) = Uncounted(flight[k]) \cup {n},
             n \notin Uncounted(flight[k])
      PROVE  Cardinality(Pending') = Cardinality(Pending) + 1
  <2>1. Pending' = Pending \cup {<<k, n>>}
    BY <1>1, <1>2, <1>4 DEF Pending
  <2>2. <<k, n>> \notin Pending
    BY <1>4 DEF Pending
  <2> QED BY <2>1, <2>2, Finite, FS_AddElement
<1>5. ASSUME Uncounted(f) = {}
      PROVE  Cardinality(Pending') = Cardinality(Pending) - Cardinality(Uncounted(flight[k]))
  <2> DEFINE U == Uncounted(flight[k])
             mine == {k} \X U
  <2>1. U \subseteq 0 .. MaxBatch
    BY UncountedType
  <2>2. IsFiniteSet(U) /\ Cardinality(U) \in Nat
    BY <2>1, Finite, FS_Subset, FS_CardinalityType
  <2>3. IsFiniteSet({k}) /\ Cardinality({k}) = 1
    BY FS_Singleton
  <2> HIDE DEF U
  <2>4. Cardinality(mine) = Cardinality(U)
    BY <2>2, <2>3, FS_Product
  <2>5. Pending' = Pending \ mine /\ Pending \cap mine = mine
    BY <1>1, <1>2, <1>5, <2>1 DEF Pending, U
  <2> HIDE DEF mine
  <2>6. Cardinality(Pending') = Cardinality(Pending) - Cardinality(mine)
    BY <2>5, Finite, FS_Difference
  <2> QED BY <2>4, <2>6 DEF U
<1> QED BY <1>3, <1>4, <1>5

LEMMA CountInit == MemoriesInit => CountInv
<1> SUFFICES ASSUME MemoriesInit PROVE CountInv
  OBVIOUS
<1>1. flight = [k \in Slots |-> Idle]
  BY DEF MemoriesInit
<1>2. Pending = {} /\ Discounts = {}
  BY <1>1 DEF Pending, Discounts, Uncounted
<1>3. Rows = named /\ album.count = Cardinality(named) /\ album.count \in {0, 1}
  <2>1. row = [p \in Photos |-> IF p \in named THEN NewRow(Creator, TRUE) ELSE NoRow]
        /\ named \subseteq Photos
    BY DEF MemoriesInit
  <2>2. NewRow(Creator, TRUE) # NoRow
    BY NewRowType, RowKinds
  <2> QED BY <2>1, <2>2 DEF MemoriesInit, Rows, HasRow
<1>4. Counting
  BY <1>2, <1>3, FS_EmptySet DEF Counting
<1>5. Batches
  BY <1>1 DEF Batches
<1>6. BeforeAlbum
  <2>1. album.state = "none" => named = {}
    BY DEF MemoriesInit, Live
  <2> QED BY <1>1, <1>3, <2>1, FS_EmptySet DEF BeforeAlbum, PhotoOps
<1> QED BY <1>4, <1>5, <1>6 DEF CountInv

LEMMA CountStep ==
  ASSUME MemTypes, FilesInv, CountInv, [MemoriesNext]_memoryVars PROVE CountInv'
<1>0. /\ AlbumTypes /\ PhotoTypes /\ FlightTypes /\ HeldWhole
      /\ Batches /\ BeforeAlbum /\ Counting
  BY DEF MemTypes, FilesInv, CountInv
<1>a. album.count \in Nat /\ (Live => album.state # "none")
  BY <1>0 DEF AlbumTypes, Live
<1>1. ASSUME album'.count = album.count, album'.state = album.state, Rows' = Rows, torn' = torn,
             \A k \in Slots : \/ flight'[k] = flight[k]
                              \/ /\ flight[k].op \notin {"upload", "count", "discount"}
                                 /\ flight'[k].op \notin PhotoOps
      PROVE  CountInv'
  <2>1. Pending' = Pending
    <3>1. \A k \in Slots : Uncounted(flight'[k]) = Uncounted(flight[k])
      BY <1>1 DEF Uncounted, PhotoOps
    <3>2. Pending' = {x \in Slots \X (0 .. MaxBatch) : x[2] \in Uncounted(flight'[x[1]])}
      BY DEF Pending
    <3> QED BY <3>1, <3>2 DEF Pending
  <2>2. Discounts' = Discounts
    BY <1>1 DEF Discounts, PhotoOps
  <2>3. Counting'
    BY <1>0, <1>1, <2>1, <2>2 DEF Counting, Live
  <2>4. Batches' /\ BeforeAlbum'
    BY <1>0, <1>1 DEF Batches, BeforeAlbum, PhotoOps
  <2> QED BY <2>3, <2>4 DEF CountInv
<1>2. ASSUME NEW k \in Slots, NEW f, flight' = [flight EXCEPT ![k] = f],
             flight[k].op \notin {"upload", "count", "discount"}, f.op \notin PhotoOps,
             album' = album, Rows' = Rows, torn' = torn
      PROVE  CountInv'
  <2>1. \A j \in Slots : flight'[j] = IF j = k THEN f ELSE flight[j]
    BY <1>0, <1>2 DEF FlightTypes
  <2> QED BY <1>1, <1>2, <2>1
<1>3. ASSUME UNCHANGED <<album, row, torn, flight>> PROVE CountInv'
  BY <1>1, <1>3 DEF Rows, HasRow
\* A request of the live album that stores, saves or counts photos moves on.
<1>4. ASSUME NEW k \in Slots, NEW f, flight' = [flight EXCEPT ![k] = f],
             flight[k].op # "idle" => flight[k].op \in PhotoOps,
             flight[k].op = "idle" => Live,
             album'.state = album.state, album'.count \in Nat, torn \subseteq torn',
             f.op = "upload" =>
               /\ f.size \in 1 .. MaxBatch
               /\ Cardinality(f.todo) <= f.size
               /\ f.failed => "count" \in torn' \/ f.todo = {},
             Live /\ "count" \notin torn' =>
               album'.count + Cardinality(Pending') - Cardinality(Rows') - Cardinality(Discounts')
                 = album.count + Cardinality(Pending) - Cardinality(Rows) - Cardinality(Discounts)
      PROVE  CountInv'
  <2>1. \A j \in Slots : flight'[j] = IF j = k THEN f ELSE flight[j]
    BY <1>0, <1>4 DEF FlightTypes
  <2>2. Batches'
    <3>1. MaxBatch' = MaxBatch
      BY DEF MaxBatch
    <3>2. ASSUME NEW j \in Slots, flight'[j].op = "upload"
          PROVE  /\ flight'[j].size \in 1 .. MaxBatch
                 /\ Cardinality(flight'[j].todo) <= flight'[j].size
                 /\ flight'[j].failed => "count" \in torn' \/ flight'[j].todo = {}
      <4>1. CASE j = k
        BY <1>4, <2>1, <3>2, <4>1
      <4>2. CASE j # k
        <5>1. flight'[j] = flight[j]
          BY <2>1, <4>2
        <5> QED BY <1>0, <1>4, <3>2, <5>1 DEF Batches
      <4> QED BY <4>1, <4>2
    <3> QED BY <3>1, <3>2 DEF Batches
  <2>3. album.state # "none"
    BY <1>0, <1>4, <1>a DEF BeforeAlbum, PhotoOps
  <2>4. BeforeAlbum'
    BY <1>4, <2>3 DEF BeforeAlbum
  <2>5. Counting'
    <3> SUFFICES ASSUME Live', "count" \notin torn'
                 PROVE  album'.count + Cardinality(Pending') = Cardinality(Rows') + Cardinality(Discounts')
      BY DEF Counting
    <3>1. Live /\ "count" \notin torn
      BY <1>4 DEF Live
    <3>2. album.count + Cardinality(Pending) = Cardinality(Rows) + Cardinality(Discounts)
      BY <1>0, <3>1 DEF Counting
    <3>3. Cardinality(Pending') \in Nat /\ Cardinality(Rows') \in Nat /\ Cardinality(Discounts') \in Nat
      <4>1. Pending' \subseteq Slots \X (0 .. MaxBatch) /\ Discounts' \subseteq Slots /\ Rows' \subseteq Photos
        BY DEF Pending, Discounts, Rows, MaxBatch
      <4>2. IsFiniteSet(Slots \X (0 .. MaxBatch))
        BY Finite, FS_Product
      <4> QED BY <4>1, <4>2, FS_Subset, FS_CardinalityType
    <3> DEFINE c == album.count  cp == album'.count
               p == Cardinality(Pending)  pp == Cardinality(Pending')
               r == Cardinality(Rows)  rp == Cardinality(Rows')
               d == Cardinality(Discounts)  dp == Cardinality(Discounts')
    <3>4. c \in Nat /\ cp \in Nat /\ p \in Nat /\ pp \in Nat /\ r \in Nat /\ rp \in Nat /\ d \in Nat /\ dp \in Nat
      BY <1>4, <1>a, <3>3, Finite
    <3>5. cp + pp - rp - dp = c + p - r - d /\ c + p = r + d
      BY <1>4, <3>1, <3>2
    <3> HIDE DEF c, cp, p, pp, r, rp, d, dp
    <3>6. cp + pp = rp + dp
      BY <3>4, <3>5
    <3> QED BY <3>6 DEF cp, pp, rp, dp
  <2> QED BY <2>2, <2>4, <2>5 DEF CountInv
<1>5. ASSUME NEW k \in Slots, NEW f, flight' = [flight EXCEPT ![k] = f],
             flight[k].op # "discount", f.op # "discount"
      PROVE  Discounts' = Discounts
  <2>1. \A j \in Slots : flight'[j] = IF j = k THEN f ELSE flight[j]
    BY <1>0, <1>5 DEF FlightTypes
  <2> QED BY <1>5, <2>1 DEF Discounts
\* Numbers that differ by the same amount.
<1>b. /\ album.count \in Nat /\ Cardinality(Pending) \in Nat /\ Cardinality(Rows) \in Nat
      /\ Cardinality(Discounts) \in Nat
  BY <1>a, Finite
<1>6. ASSUME NEW k \in Slots, NEW u \in Users, NEW batch \in SUBSET Photos, Upload(k, u, batch)
      PROVE  CountInv'
  <2> DEFINE f == [op |-> "upload", by |-> u, todo |-> batch, size |-> Cardinality(batch), failed |-> FALSE]
  <2>1. flight' = [flight EXCEPT ![k] = f] /\ flight[k] = Idle /\ UNCHANGED <<album, row, torn>> /\ Live
    BY <1>6 DEF Upload, Start, Access, albumVars
  <2>2. Cardinality(batch) \in 1 .. MaxBatch
    <3>1. Cardinality(batch) <= MaxBatch /\ IsFiniteSet(batch)
      BY FS_Subset DEF MaxBatch
    <3>2. Cardinality(batch) \in Nat /\ Cardinality(batch) # 0
      BY <1>6, <3>1, FS_EmptySet, FS_CardinalityType DEF Upload
    <3> QED BY <3>1, <3>2, Finite
  <2>3. f.op = "upload" /\ f.size = Cardinality(batch) /\ f.todo = batch /\ f.failed = FALSE
    OBVIOUS
  <2> HIDE DEF f
  <2>4. Uncounted(f) = Uncounted(flight[k])
    <3>1. Uncounted(flight[k]) = {}
      BY <2>1 DEF Uncounted
    <3>2. f.size - Cardinality(f.todo) = 0
      BY <2>2, <2>3, Finite
    <3>3. Uncounted(f) = 1 .. 0
      BY <2>3, <3>2 DEF Uncounted
    <3> QED BY <3>1, <3>3
  <2>a. flight' = [flight EXCEPT ![k] = f] /\ flight[k].op = "idle"
    BY <2>1
  <2>5. Pending' = Pending
    BY <1>0, <2>4, <2>a, PendingMoves
  <2>6. Discounts' = Discounts
    BY <1>5, <2>3, <2>a
  <2>7. Rows' = Rows /\ album'.state = album.state /\ album'.count = album.count /\ torn \subseteq torn'
    BY <2>1 DEF Rows, HasRow
  <2>8. album'.count + Cardinality(Pending') - Cardinality(Rows') - Cardinality(Discounts')
          = album.count + Cardinality(Pending) - Cardinality(Rows) - Cardinality(Discounts)
    BY <2>5, <2>6, <2>7
  <2>9. f.size \in 1 .. MaxBatch /\ Cardinality(f.todo) <= f.size
    BY <2>2, <2>3, Finite
  <2>10. Live /\ album'.count \in Nat
    BY <1>a, <2>1
  <2> QED BY <1>4, <2>3, <2>7, <2>8, <2>9, <2>10, <2>a
<1>7. ASSUME NEW k \in Slots, NEW p \in Photos, NEW thumbed \in BOOLEAN, NEW saved \in BOOLEAN,
             SavePhoto(k, p, thumbed, saved)
      PROVE  CountInv'
  <2> DEFINE f == [flight[k] EXCEPT !.todo = @ \ {p}, !.failed = @ \/ ~saved]
  <2>1. flight[k] \in Uploads /\ flight[k].op = "upload" /\ p \in flight[k].todo
    BY <1>0, <1>7, Kinds DEF SavePhoto
  <2>2. /\ f.op = "upload" /\ f.todo = flight[k].todo \ {p} /\ f.size = flight[k].size
        /\ f.failed = (flight[k].failed \/ ~saved)
    BY <2>1 DEF Uploads
  <2>3. /\ flight' = [flight EXCEPT ![k] = f] /\ UNCHANGED album
        /\ torn' = IF f.size > 1 /\ f.failed THEN torn \cup {"count"} ELSE torn
        /\ row' = IF saved THEN [row EXCEPT ![p] = NewRow(flight[k].by, thumbed)] ELSE row
    BY <1>7, <2>2 DEF SavePhoto, Go, Miscount, albumVars
  <2> HIDE DEF f
  <2> DEFINE m == Cardinality(flight[k].todo)
  <2>4. /\ flight[k].size \in 1 .. MaxBatch /\ m \in Nat /\ m <= flight[k].size
        /\ Cardinality(f.todo) = m - 1 /\ m # 0 /\ Cardinality(f.todo) \in Nat
    <3>1. IsFiniteSet(flight[k].todo) /\ m \in Nat
      BY <1>0, <2>1, UncountedType
    <3>2. Cardinality(f.todo) = m - 1 /\ IsFiniteSet(f.todo)
      <4> DEFINE T == flight[k].todo
      <4>1. IsFiniteSet(T) /\ p \in T /\ f.todo = T \ {p} /\ m = Cardinality(T)
        BY <2>1, <2>2, <3>1
      <4> HIDE DEF T, m
      <4> QED BY <4>1, FS_RemoveElement
    <3>3. m # 0
      BY <2>1, <3>1, FS_EmptySet
    <3> QED BY <1>0, <2>1, <3>1, <3>2, <3>3, FS_CardinalityType DEF Batches
  <2>5. f.failed => "count" \in torn' \/ f.todo = {}
    <3> SUFFICES ASSUME f.failed, f.size <= 1 PROVE "count" \in torn' \/ f.todo = {}
      BY <2>2, <2>3, <2>4, Finite
    <3>1. Cardinality(f.todo) = 0
      BY <2>2, <2>4, Finite
    <3>2. IsFiniteSet(f.todo)
      BY <1>0, <2>1, <2>2, UncountedType, FS_RemoveElement
    <3> QED BY <3>1, <3>2, FS_EmptySet
  <2>6. Discounts' = Discounts
    BY <1>5, <2>1, <2>2, <2>3
  <2>7. ASSUME Live, "count" \notin torn'
        PROVE  album'.count + Cardinality(Pending') - Cardinality(Rows') - Cardinality(Discounts')
                 = album.count + Cardinality(Pending) - Cardinality(Rows) - Cardinality(Discounts)
    <3>1. "count" \notin torn /\ ~flight[k].failed
      <4>1. "count" \notin torn /\ (f.size > 1 => ~f.failed)
        BY <2>3, <2>7
      <4>2. flight[k].failed => flight[k].todo = {}
        BY <1>0, <2>1, <4>1 DEF Batches
      <4> QED BY <2>1, <4>1, <4>2
    <3>2. Uncounted(flight[k]) = 1 .. (flight[k].size - m)
      BY <2>1, <3>1 DEF Uncounted
    <3> HIDE DEF m
    <3>3. CASE saved
      <4> DEFINE n == flight[k].size - m + 1
      <4>1. n \in 0 .. MaxBatch /\ n \in Nat /\ flight[k].size - m = n - 1 /\ f.size - Cardinality(f.todo) = n
            /\ n \in 1 .. MaxBatch
        BY <2>2, <2>4, Finite
      <4>2. Uncounted(f) = 1 .. n
        BY <2>2, <3>1, <3>3, <4>1 DEF Uncounted
      <4> HIDE DEF n
      <4>3. Uncounted(f) = Uncounted(flight[k]) \cup {n} /\ n \notin Uncounted(flight[k])
        BY <3>2, <4>1, <4>2
      <4>4. Cardinality(Pending') = Cardinality(Pending) + 1
        BY <1>0, <2>3, <4>1, <4>3, PendingMoves
      <4>5. Rows' = Rows \cup {p} /\ p \notin Rows
        <5>1. ~HasRow(p)
          BY <1>0, <2>1 DEF HeldWhole, Unsaved
        <5>2. NewRow(flight[k].by, thumbed) # NoRow
          BY <2>1, NewRowType, RowKinds DEF Uploads
        <5> QED BY <1>0, <2>3, <3>3, <5>1, <5>2 DEF Rows, HasRow, PhotoTypes
      <4>6. Cardinality(Rows') = Cardinality(Rows) + 1
        BY <4>5, Finite, FS_AddElement
      <4>7. album'.count = album.count /\ Cardinality(Discounts') = Cardinality(Discounts)
        BY <2>3, <2>6
      <4> QED BY <1>b, <4>4, <4>6, <4>7
    <3>4. CASE ~saved
      <4>1. f.failed /\ f.size <= 1
        <5>1. f.failed
          BY <2>2, <3>4, Zenon
        <5>2. f.size \in Nat /\ ~(f.size > 1)
          BY <2>2, <2>3, <2>4, <2>7, <5>1, Finite
        <5> QED BY <5>1, <5>2
      <4>2. flight[k].size - m = 0
        BY <2>2, <2>4, <4>1, Finite
      <4>3. Uncounted(f) = Uncounted(flight[k])
        BY <2>2, <3>2, <4>1, <4>2 DEF Uncounted
      <4>4. Pending' = Pending
        BY <1>0, <2>3, <4>3, PendingMoves
      <4>5. Rows' = Rows
        BY <2>3, <3>4 DEF Rows, HasRow
      <4> QED BY <1>b, <2>3, <2>6, <4>4, <4>5
    <3> QED BY <3>3, <3>4
  <2>8. torn \subseteq torn' /\ flight[k].op \in PhotoOps /\ flight[k].op # "idle"
    BY <2>1, <2>3 DEF PhotoOps
  <2>9. Cardinality(f.todo) <= f.size /\ f.size \in 1 .. MaxBatch
    BY <2>2, <2>4, Finite
  <2> QED BY <1>4, <1>b, <2>3, <2>5, <2>7, <2>8, <2>9
<1>8. ASSUME NEW k \in Slots, CountUpload(k) PROVE CountInv'
  <2>1. flight[k] \in Uploads /\ flight[k].op = "upload" /\ flight[k].todo = {} /\ flight[k].size \in 1 .. MaxBatch
    BY <1>0, <1>8, Kinds DEF CountUpload, Batches
  <2>2. flight' = [flight EXCEPT ![k] = Idle] /\ UNCHANGED <<row, torn>>
    BY <1>8 DEF CountUpload, Finish, Go, photoVars
  <2>3. Uncounted(Idle) = {}
    BY DEF Uncounted
  <2>4. Cardinality(Pending') = Cardinality(Pending) - Cardinality(Uncounted(flight[k]))
    BY <1>0, <2>2, <2>3, PendingMoves
  <2>5. Discounts' = Discounts /\ Rows' = Rows
    <3>1. flight[k].op # "discount" /\ Idle.op # "discount"
      BY <2>1
    <3>2. Discounts' = Discounts
      BY <1>5, <2>2, <3>1
    <3> QED BY <2>2, <3>2 DEF Rows, HasRow
  <2>6. flight[k].size \in Nat /\ flight[k].failed \in BOOLEAN
    BY <2>1 DEF Uploads
  <2>7. Cardinality(Uncounted(flight[k])) = IF flight[k].failed THEN 0 ELSE flight[k].size
    <3>1. CASE flight[k].failed
      BY <2>1, <3>1, FS_EmptySet DEF Uncounted
    <3>2. CASE ~flight[k].failed
      <4>1. Uncounted(flight[k]) = 1 .. flight[k].size
        BY <2>1, <2>6, <3>2, FS_EmptySet DEF Uncounted
      <4>2. 1 \in Int /\ flight[k].size \in Int /\ ~(1 > flight[k].size)
        BY <2>1, <2>6, Finite
      <4>3. Cardinality(1 .. flight[k].size) = flight[k].size - 1 + 1
        BY <4>2, FS_Interval
      <4> QED BY <2>6, <3>2, <4>1, <4>3
    <3> QED BY <2>6, <3>1, <3>2
  <2>8. /\ album'.state = album.state
        /\ album'.count = IF flight[k].failed \/ ~Live THEN album.count ELSE album.count + flight[k].size
    BY <1>0, <1>8 DEF CountUpload, Counted, AlbumTypes
  <2>9. album'.count \in Nat
    BY <1>a, <2>6, <2>8
  <2>10. Live =>
           album'.count + Cardinality(Pending') - Cardinality(Rows') - Cardinality(Discounts')
             = album.count + Cardinality(Pending) - Cardinality(Rows) - Cardinality(Discounts)
    BY <1>b, <2>4, <2>5, <2>6, <2>7, <2>8
  <2>11. flight[k].op \in PhotoOps /\ flight[k].op # "idle"
    BY <2>1 DEF PhotoOps
  <2> QED BY <1>4, <2>2, <2>8, <2>9, <2>10, <2>11
<1>9. ASSUME NEW k \in Slots, DeletePhoto(k) PROVE CountInv'
  <2> DEFINE d == flight[k].of
             f == [op |-> "discount"]
  <2>1. flight[k] \in Removals /\ flight[k].op = "remove" /\ d \in Photos
    <3>1. flight[k] \in Removals /\ flight[k].op = "remove"
      BY <1>0, <1>9, Kinds DEF DeletePhoto
    <3> QED BY <3>1 DEF Removals
  <2>2. /\ flight' = [flight EXCEPT ![k] = f] /\ UNCHANGED album
        /\ torn' = IF HasRow(d) THEN torn ELSE torn \cup {"count"}
        /\ row' = [row EXCEPT ![d] = NoRow]
    BY <1>9 DEF DeletePhoto, Go, Miscount, albumVars
  <2>3. f.op = "discount"
    OBVIOUS
  <2> HIDE DEF f, d
  <2>4. \A j \in Slots : flight'[j] = IF j = k THEN f ELSE flight[j]
    BY <1>0, <2>2 DEF FlightTypes
  <2>5. Pending' = Pending
    <3>1. Uncounted(f) = Uncounted(flight[k])
      BY <2>1, <2>3 DEF Uncounted
    <3> QED BY <1>0, <2>2, <3>1, PendingMoves
  <2>6. Cardinality(Discounts') = Cardinality(Discounts) + 1
    <3>1. Discounts' = Discounts \cup {k} /\ k \notin Discounts
      BY <2>1, <2>3, <2>4 DEF Discounts
    <3> QED BY <3>1, Finite, FS_AddElement
  <2>7. ASSUME HasRow(d) PROVE Cardinality(Rows') = Cardinality(Rows) - 1
    <3>1. Rows' = Rows \ {d} /\ d \in Rows
      BY <1>0, <2>1, <2>2, <2>7 DEF Rows, HasRow, PhotoTypes
    <3> QED BY <3>1, Finite, FS_RemoveElement
  <2>8. ASSUME "count" \notin torn'
        PROVE  album'.count + Cardinality(Pending') - Cardinality(Rows') - Cardinality(Discounts')
                 = album.count + Cardinality(Pending) - Cardinality(Rows) - Cardinality(Discounts)
    <3>1. Cardinality(Rows') = Cardinality(Rows) - 1
      BY <2>2, <2>7, <2>8
    <3>2. album'.count = album.count
      BY <2>2
    <3> QED BY <1>b, <2>5, <2>6, <3>1, <3>2
  <2>9. /\ flight[k].op \in PhotoOps /\ flight[k].op # "idle" /\ f.op # "upload" /\ torn \subseteq torn'
        /\ album'.state = album.state /\ album'.count \in Nat
    BY <1>a, <2>1, <2>2, <2>3 DEF PhotoOps
  <2>10. flight' = [flight EXCEPT ![k] = f]
    BY <2>2
  <2> QED BY <1>4, <2>8, <2>9, <2>10
<1>10. ASSUME NEW k \in Slots, DiscountPhoto(k) PROVE CountInv'
  <2>1. /\ flight[k].op = "discount" /\ flight' = [flight EXCEPT ![k] = Idle] /\ UNCHANGED row
        /\ torn' = IF album.count = 0 THEN torn \cup {"count"} ELSE torn
        /\ album' = IF Live /\ album.count > 0 THEN [album EXCEPT !.count = @ - 1] ELSE album
    BY <1>10 DEF DiscountPhoto, Finish, Go, Miscount, photoVars
  <2>2. \A j \in Slots : flight'[j] = IF j = k THEN Idle ELSE flight[j]
    BY <1>0, <2>1 DEF FlightTypes
  <2>3. Pending' = Pending
    <3>1. Uncounted(Idle) = Uncounted(flight[k])
      BY <2>1 DEF Uncounted
    <3>2. flight' = [flight EXCEPT ![k] = Idle]
      BY <2>1
    <3> QED BY <1>0, <3>1, <3>2, PendingMoves
  <2>4. Cardinality(Discounts') = Cardinality(Discounts) - 1
    <3>1. Discounts' = Discounts \ {k} /\ k \in Discounts
      BY <2>1, <2>2 DEF Discounts
    <3> QED BY <3>1, Finite, FS_RemoveElement
  <2>5. Rows' = Rows
    BY <2>1 DEF Rows, HasRow
  <2>6. /\ album'.state = album.state /\ album'.count \in Nat
        /\ Live /\ album.count # 0 => album'.count = album.count - 1
    <3>1. album \in [state: {"none", "live", "gone"}, private: BOOLEAN, count: Nat]
      BY <1>0 DEF AlbumTypes
    <3> QED BY <2>1, <3>1
  <2>7. ASSUME Live, "count" \notin torn'
        PROVE  album'.count + Cardinality(Pending') - Cardinality(Rows') - Cardinality(Discounts')
                 = album.count + Cardinality(Pending) - Cardinality(Rows) - Cardinality(Discounts)
    <3>1. album'.count = album.count - 1
      BY <2>1, <2>6, <2>7
    <3> QED BY <1>b, <2>3, <2>4, <2>5, <3>1
  <2>8. flight[k].op \in PhotoOps /\ flight[k].op # "idle" /\ torn \subseteq torn'
    BY <2>1 DEF PhotoOps
  <2>9. flight' = [flight EXCEPT ![k] = Idle] /\ Idle.op # "upload"
    BY <2>1
  <2> QED BY <1>4, <2>6, <2>7, <2>8, <2>9
<1>11. ASSUME NEW k \in Slots, NEW thumbed \in BOOLEAN, NEW saved \in BOOLEAN,
              StoreMerged(k, thumbed, saved)
       PROVE  CountInv'
  <2> DEFINE p == flight[k].of
             f == IF saved THEN [flight[k] EXCEPT !.op = "count"] ELSE Idle
  <2>1. flight[k] \in Merges /\ flight[k].op = "store" /\ p \in Photos /\ flight[k].by \in Users
    <3>1. flight[k] \in Merges /\ flight[k].op = "store"
      BY <1>0, <1>11, Kinds DEF StoreMerged
    <3> QED BY <3>1 DEF Merges
  <2>2. /\ flight' = [flight EXCEPT ![k] = f] /\ UNCHANGED <<album, torn>>
        /\ row' = IF saved THEN [row EXCEPT ![p] = NewRow(flight[k].by, thumbed)] ELSE row
    BY <1>11 DEF StoreMerged, Go, Finish, albumVars
  <2>3. f.op = IF saved THEN "count" ELSE "idle"
    BY <2>1 DEF Merges
  <2>4. ~HasRow(p)
    BY <1>0, <2>1 DEF HeldWhole, Unsaved
  <2> HIDE DEF f, p
  <2>5. Uncounted(flight[k]) = {} /\ Uncounted(f) = IF saved THEN {0} ELSE {}
    BY <2>1, <2>3 DEF Uncounted
  <2>6. flight' = [flight EXCEPT ![k] = f] /\ f.op # "discount" /\ f.op # "upload"
        /\ flight[k].op # "discount" /\ flight[k].op # "idle"
    BY <2>1, <2>2, <2>3
  <2>7. Discounts' = Discounts
    BY <1>5, <2>6
  <2>8. Cardinality(Pending') = Cardinality(Pending) + IF saved THEN 1 ELSE 0
    <3>1. CASE saved
      <4>1. Uncounted(f) = Uncounted(flight[k]) \cup {0} /\ 0 \notin Uncounted(flight[k]) /\ 0 \in 0 .. MaxBatch
        BY <2>5, <3>1, Finite
      <4>2. Cardinality(Pending') = Cardinality(Pending) + 1
        BY <1>0, <2>6, <4>1, PendingMoves
      <4> QED BY <3>1, <4>2
    <3>2. CASE ~saved
      <4>1. Pending' = Pending
        BY <1>0, <2>5, <2>6, <3>2, PendingMoves
      <4> QED BY <3>2, <4>1, <1>b
    <3> QED BY <3>1, <3>2
  <2>9. Cardinality(Rows') = Cardinality(Rows) + IF saved THEN 1 ELSE 0
    <3>1. CASE saved
      <4>1. NewRow(flight[k].by, thumbed) # NoRow
        BY <2>1, NewRowType, RowKinds
      <4>2. Rows' = Rows \cup {p} /\ p \notin Rows
        BY <1>0, <2>1, <2>2, <2>4, <3>1, <4>1 DEF Rows, HasRow, PhotoTypes
      <4>3. Cardinality(Rows') = Cardinality(Rows) + 1
        BY <4>2, Finite, FS_AddElement
      <4> QED BY <3>1, <4>3
    <3>2. CASE ~saved
      <4>1. Rows' = Rows
        BY <2>2, <3>2 DEF Rows, HasRow
      <4> QED BY <3>2, <4>1, <1>b
    <3> QED BY <3>1, <3>2
  <2>10. album'.count = album.count /\ album'.state = album.state /\ album'.count \in Nat /\ torn \subseteq torn'
    BY <1>a, <2>2
  <2>11. album'.count + Cardinality(Pending') - Cardinality(Rows') - Cardinality(Discounts')
           = album.count + Cardinality(Pending) - Cardinality(Rows) - Cardinality(Discounts)
    BY <1>b, <2>7, <2>8, <2>9, <2>10
  <2>12. flight[k].op \in PhotoOps
    BY <2>1 DEF PhotoOps
  <2> QED BY <1>4, <2>6, <2>10, <2>11, <2>12
<1>12. ASSUME NEW k \in Slots, CountMerged(k) PROVE CountInv'
  <2>1. /\ flight[k].op = "count" /\ flight' = [flight EXCEPT ![k] = Idle] /\ UNCHANGED <<row, torn>>
        /\ album' = Counted(1)
    BY <1>12 DEF CountMerged, Finish, Go
  <2>2. flight' = [flight EXCEPT ![k] = Idle] /\ Idle.op # "discount" /\ Idle.op # "upload"
        /\ flight[k].op # "discount" /\ flight[k].op # "idle"
    BY <2>1
  <2>3. Uncounted(flight[k]) = {0} /\ Uncounted(Idle) = {}
    BY <2>1 DEF Uncounted
  <2>4. Cardinality(Pending') = Cardinality(Pending) - 1
    <3>1. Cardinality({0}) = 1
      BY FS_Singleton
    <3>2. Cardinality(Pending') = Cardinality(Pending) - Cardinality(Uncounted(flight[k]))
      BY <1>0, <2>2, <2>3, PendingMoves
    <3> QED BY <2>3, <3>1, <3>2
  <2>5. Discounts' = Discounts
    BY <1>5, <2>2
  <2>6. Rows' = Rows
    BY <2>1 DEF Rows, HasRow
  <2>7. album'.state = album.state /\ album'.count = IF Live THEN album.count + 1 ELSE album.count
    BY <1>0, <2>1 DEF Counted, AlbumTypes
  <2>8. album'.count \in Nat /\ torn \subseteq torn'
    BY <1>a, <2>1, <2>7
  <2>9. Live =>
          album'.count + Cardinality(Pending') - Cardinality(Rows') - Cardinality(Discounts')
            = album.count + Cardinality(Pending) - Cardinality(Rows) - Cardinality(Discounts)
    BY <1>b, <2>4, <2>5, <2>6, <2>7
  <2>10. flight[k].op \in PhotoOps
    BY <2>1 DEF PhotoOps
  <2> QED BY <1>4, <2>2, <2>7, <2>8, <2>9, <2>10
\* A request about a photo moves on and neither saves nor counts.
<1>13. ASSUME NEW k \in Slots, NEW f, flight' = [flight EXCEPT ![k] = f],
              flight[k].op \notin {"upload", "count", "discount"},
              f.op \notin {"upload", "count", "discount"},
              flight[k].op # "idle" => flight[k].op \in PhotoOps,
              flight[k].op = "idle" => Live,
              UNCHANGED <<album, row, torn>>
       PROVE  CountInv'
  <2>1. Uncounted(f) = Uncounted(flight[k])
    BY <1>13 DEF Uncounted
  <2>2. Pending' = Pending
    BY <1>0, <1>13, <2>1, PendingMoves
  <2>3. Discounts' = Discounts
    BY <1>5, <1>13
  <2>4. Rows' = Rows /\ album'.count = album.count /\ album'.state = album.state /\ album'.count \in Nat
    BY <1>13, <1>a DEF Rows, HasRow
  <2>5. album'.count + Cardinality(Pending') - Cardinality(Rows') - Cardinality(Discounts')
          = album.count + Cardinality(Pending) - Cardinality(Rows) - Cardinality(Discounts)
    BY <2>2, <2>3, <2>4
  <2> QED BY <1>4, <1>13, <2>4, <2>5
<1>14. ASSUME NEW k \in Slots, NEW u \in Users, NEW p \in Photos, RemovePhoto(k, u, p) PROVE CountInv'
  <2> DEFINE f == [op |-> "remove", of |-> p, files |-> FilesOf(p, row[p])]
  <2>1. flight' = [flight EXCEPT ![k] = f] /\ flight[k].op = "idle" /\ f.op = "remove" /\ UNCHANGED <<album, row, torn>>
    BY <1>14 DEF RemovePhoto, Start, albumVars, photoVars
  <2>2. Live
    BY <1>0, <1>14 DEF RemovePhoto, AlbumTypes, Rows
  <2> HIDE DEF f
  <2> QED BY <1>13, <2>1, <2>2
<1>15. ASSUME NEW k \in Slots, NEW u \in Users, NEW p \in Photos, NEW video \in BOOLEAN,
              CompleteUpload(k, u, p, video)
       PROVE  CountInv'
  <2> DEFINE f == [op |-> "merge", of |-> p, by |-> u, video |-> video]
  <2>1. flight' = [flight EXCEPT ![k] = f] /\ flight[k].op = "idle" /\ f.op = "merge" /\ UNCHANGED <<album, row, torn>>
        /\ Live
    BY <1>15 DEF CompleteUpload, Start, albumVars, Access
  <2> HIDE DEF f
  <2> QED BY <1>13, <2>1
<1>16. ASSUME NEW k \in Slots, MergeChunks(k) PROVE CountInv'
  <2> DEFINE f == [flight[k] EXCEPT !.op = "merged"]
  <2>1. flight[k].op = "merge" /\ f.op = "merged" /\ UNCHANGED <<album, row, torn>>
    <3>1. flight[k] \in Merges
      BY <1>0, <1>16, Kinds DEF MergeChunks
    <3> QED BY <1>16, <3>1 DEF MergeChunks, albumVars, photoVars, Merges
  <2>2. flight' = [flight EXCEPT ![k] = f] \/ flight' = [flight EXCEPT ![k] = Idle]
    BY <1>16 DEF MergeChunks, Go, Finish
  <2> HIDE DEF f
  <2>3. flight[k].op \in PhotoOps /\ Idle.op \notin {"upload", "count", "discount"}
    BY <2>1 DEF PhotoOps
  <2> QED BY <1>13, <2>1, <2>2, <2>3
<1>17. ASSUME NEW k \in Slots, PurgeChunks(k) PROVE CountInv'
  <2> DEFINE f == [flight[k] EXCEPT !.op = "store"]
  <2>1. flight[k].op = "merged" /\ f.op = "store" /\ UNCHANGED <<album, row, torn>>
    <3>1. flight[k] \in Merges
      BY <1>0, <1>17, Kinds DEF PurgeChunks
    <3> QED BY <1>17, <3>1 DEF PurgeChunks, albumVars, Merges
  <2>2. flight' = [flight EXCEPT ![k] = f]
    BY <1>17 DEF PurgeChunks, Go
  <2> HIDE DEF f
  <2>3. flight[k].op \in PhotoOps
    BY <2>1 DEF PhotoOps
  <2> QED BY <1>13, <2>1, <2>2, <2>3
<1>18. ASSUME NEW k \in Slots, DropAlbum(k) PROVE CountInv'
  <2>1. flight' = [flight EXCEPT ![k] = Idle] /\ torn' = torn /\ album'.state = "gone"
    BY <1>0, <1>18 DEF DropAlbum, Finish, Go, AlbumTypes
  <2>2. \A j \in Slots : flight'[j] = IF j = k THEN Idle ELSE flight[j]
    BY <1>0, <2>1 DEF FlightTypes
  <2>3. Batches'
    BY <1>0, <2>1, <2>2 DEF Batches, MaxBatch
  <2>4. BeforeAlbum' /\ Counting'
    BY <2>1 DEF BeforeAlbum, Counting, Live
  <2> QED BY <2>3, <2>4 DEF CountInv
<1>19. ASSUME NEW k \in Slots, NEW private \in BOOLEAN, NEW list \in SUBSET Users,
              CreateAlbum(k, private, list)
       PROVE  CountInv'
  <2> DEFINE f == [op |-> "wipe", list |-> Merged(list)]
  <2>1. /\ album.state = "none" /\ flight' = [flight EXCEPT ![k] = f] /\ f.op = "wipe"
        /\ UNCHANGED <<row, torn>> /\ album'.state = "live" /\ album'.count = album.count
    BY <1>0, <1>19 DEF CreateAlbum, Go, photoVars, AlbumTypes
  <2> HIDE DEF f
  <2>2. \A j \in Slots : flight'[j].op \notin PhotoOps
    BY <1>0, <2>1 DEF FlightTypes, BeforeAlbum, PhotoOps
  <2>3. Rows' = {} /\ album'.count = 0
    BY <1>0, <2>1 DEF AlbumTypes, Live, BeforeAlbum, Rows, HasRow
  <2>4. Pending' = {} /\ Discounts' = {}
    BY <2>2 DEF Pending, Discounts, PhotoOps, Uncounted
  <2>5. Counting'
    BY <2>3, <2>4, FS_EmptySet DEF Counting
  <2>6. Batches' /\ BeforeAlbum'
    BY <2>1, <2>2 DEF Batches, BeforeAlbum, PhotoOps
  <2> QED BY <2>5, <2>6 DEF CountInv
<1>20. CASE Restart
  <2>1. /\ flight' = [k \in Slots |-> Idle] /\ UNCHANGED <<album, row>> /\ torn \subseteq torn'
        /\ "count" \notin torn' => Busy({"upload", "count", "discount"}) = {}
    BY <1>20 DEF Restart, albumVars
  <2>2. Pending' = {} /\ Discounts' = {} /\ Rows' = Rows
    BY <2>1 DEF Pending, Discounts, Rows, HasRow, Uncounted
  <2>3. Counting'
    <3> SUFFICES ASSUME "count" \notin torn' PROVE Counting'
      BY DEF Counting
    <3>1. Pending = {} /\ Discounts = {}
      BY <2>1 DEF Busy, Pending, Discounts, Uncounted
    <3> QED BY <1>0, <2>1, <2>2, <3>1 DEF Counting, Live
  <2>4. Batches' /\ BeforeAlbum'
    BY <1>0, <2>1 DEF Batches, BeforeAlbum, PhotoOps
  <2> QED BY <2>3, <2>4 DEF CountInv
<1>21. ASSUME NEW k \in Slots, WriteAlbum(k) PROVE CountInv'
  <2> DEFINE f == IF flight[k].relist THEN [op |-> "wipe", list |-> flight[k].list] ELSE Idle
  <2>1. flight' = [flight EXCEPT ![k] = f] /\ f.op \in {"wipe", "idle"} /\ UNCHANGED <<row, torn>>
        /\ flight[k].op = "update"
    BY <1>21 DEF WriteAlbum, Go, photoVars
  <2> HIDE DEF f
  <2>2. album'.state = album.state /\ album'.count = album.count
    BY <1>0, <1>21 DEF WriteAlbum, AlbumTypes
  <2>3. \A j \in Slots : flight'[j] = IF j = k THEN f ELSE flight[j]
    BY <1>0, <2>1 DEF FlightTypes
  <2>4. \A j \in Slots : \/ flight'[j] = flight[j]
                         \/ /\ flight[j].op \notin {"upload", "count", "discount"}
                            /\ flight'[j].op \notin PhotoOps
    BY <2>1, <2>3 DEF PhotoOps
  <2>5. Rows' = Rows /\ torn' = torn
    BY <2>1 DEF Rows, HasRow
  <2> QED BY <1>1, <2>2, <2>4, <2>5
<1>22. ASSUME NEW k \in Slots, NEW f, f.op \notin PhotoOps,
              flight[k].op \notin {"upload", "count", "discount"},
              UNCHANGED <<album, row, torn>>, flight' = [flight EXCEPT ![k] = f]
       PROVE  CountInv'
  <2>1. Rows' = Rows
    BY <1>22 DEF Rows, HasRow
  <2> QED BY <1>2, <1>22, <2>1
<1>29. ASSUME NEW k \in Slots, NEW f, f.op \notin PhotoOps, Start(k, f), UNCHANGED <<album, row, torn>>
       PROVE  CountInv'
  <2>1. flight[k].op = "idle" /\ flight' = [flight EXCEPT ![k] = f]
    BY <1>29 DEF Start
  <2> QED BY <1>22, <1>29, <2>1
<1>23. CASE AlbumNext
  <2>1. ASSUME NEW k \in Slots, NEW u, NEW list, UpdateMembers(k, u, list) PROVE CountInv'
    BY <1>29, <2>1 DEF UpdateMembers, photoVars, albumVars, PhotoOps
  <2>2. ASSUME NEW k \in Slots, NEW private, NEW relist, NEW list, UpdateAlbum(k, private, relist, list)
        PROVE  CountInv'
    BY <1>29, <2>2 DEF UpdateAlbum, photoVars, albumVars, PhotoOps
  <2>3. ASSUME NEW k \in Slots, WipeMembers(k) \/ FillMembers(k) PROVE CountInv'
    BY <1>22, <2>3 DEF WipeMembers, FillMembers, Finish, Go, photoVars, PhotoOps
  <2>4. ASSUME NEW k \in Slots, RemoveAlbum(k) PROVE CountInv'
    <3> DEFINE f == [op |-> "drop", files |-> UNION {FilesOf(p, row[p]) : p \in Rows}]
    <3>1. flight' = [flight EXCEPT ![k] = f] /\ flight[k].op = "idle" /\ f.op = "drop"
          /\ UNCHANGED <<album, row, torn>>
      BY <2>4 DEF RemoveAlbum, Start, photoVars, albumVars
    <3> HIDE DEF f
    <3> QED BY <1>22, <3>1 DEF PhotoOps
  <2> QED BY <1>18, <1>19, <1>21, <1>23, <2>1, <2>2, <2>3, <2>4 DEF AlbumNext
<1>24. CASE TokenNext
  <2>1. ASSUME NEW k \in Slots, Download(k) PROVE CountInv'
    BY <1>29, <2>1 DEF Download, photoVars, albumVars, PhotoOps
  <2>2. ASSUME NEW k \in Slots, ServeArchive(k) PROVE CountInv'
    BY <1>22, <2>2 DEF ServeArchive, Finish, Go, photoVars, albumVars, PhotoOps
  <2>3. ASSUME NEW u, CreateToken(u) PROVE CountInv'
    BY <1>3, <2>3 DEF CreateToken, photoVars, albumVars
  <2>4. CASE ExpireToken
    BY <1>3, <2>4 DEF ExpireToken, photoVars, albumVars
  <2> QED BY <1>24, <2>1, <2>2, <2>3, <2>4 DEF TokenNext
<1>25. CASE CommentsNext
  <2>1. ASSUME NEW k \in Slots, NEW u, NEW c, NEW t, EditComment(k, u, c, t) PROVE CountInv'
    BY <1>29, <2>1 DEF EditComment, photoVars, albumVars, PhotoOps
  <2>2. ASSUME NEW k \in Slots, NEW u, NEW c, NEW p, NEW t, AddComment(k, u, c, p, t) PROVE CountInv'
    BY <1>29, <2>2 DEF AddComment, photoVars, albumVars, PhotoOps
  <2>3. ASSUME NEW k \in Slots, NEW u, NEW c, RemoveComment(k, u, c) \/ Translate(k, u, c) PROVE CountInv'
    BY <1>29, <2>3 DEF RemoveComment, Translate, photoVars, albumVars, PhotoOps
  <2>4. ASSUME NEW k \in Slots, NEW u, NEW c, NEW x, ToggleReaction(k, u, c, x) PROVE CountInv'
    BY <1>29, <2>4 DEF ToggleReaction, photoVars, albumVars, PhotoOps
  <2>5. ASSUME NEW k \in Slots, NEW ok, SaveComment(k) \/ WriteEdit(k) \/ DeleteComment(k) \/ WriteReactions(k)
                                          \/ WriteTranslation(k, ok)
        PROVE  CountInv'
    BY <1>22, <2>5 DEF SaveComment, WriteEdit, DeleteComment, WriteReactions, WriteTranslation, Finish, Go,
       photoVars, albumVars, PhotoOps
  <2> QED BY <1>25, <2>1, <2>2, <2>3, <2>4, <2>5 DEF CommentsNext
<1>26. CASE PhotosNext
  BY <1>6, <1>7, <1>8, <1>9, <1>10, <1>14, <1>26 DEF PhotosNext
<1>27. CASE PartsNext
  <2>1. ASSUME NEW u, NEW i, UploadChunk(u, i) PROVE CountInv'
    BY <1>3, <2>1 DEF UploadChunk, albumVars
  <2>2. CASE CleanupChunks
    BY <1>3, <2>2 DEF CleanupChunks, albumVars
  <2>3. ASSUME NEW p, NEW ok, Encode(p, ok) PROVE CountInv'
    BY <1>3, <2>3 DEF Encode, albumVars
  <2>4. ASSUME NEW p, NEW ok, Frame(p, ok) PROVE CountInv'
    BY <1>3, <2>4 DEF Frame, albumVars
  <2>5. ASSUME NEW p \in Photos, NEW ok \in BOOLEAN, SwapVideo(p, ok) PROVE CountInv'
    <3>1. UNCHANGED <<album, torn, flight>>
      BY <2>5 DEF SwapVideo, albumVars
    <3>2. Rows' = Rows
      <4>1. CASE ok /\ HasRow(p)
        <5>1. row'[p].url = "tc" /\ \A q \in Photos : q # p => row'[q] = row[q]
          BY <1>0, <2>5, <4>1 DEF SwapVideo, PhotoTypes
        <5>2. row'[p] # NoRow
          BY <5>1 DEF NoRow
        <5> QED BY <4>1, <5>1, <5>2 DEF Rows, HasRow
      <4>2. CASE ~(ok /\ HasRow(p))
        BY <2>5, <4>2 DEF SwapVideo, Rows, HasRow
      <4> QED BY <4>1, <4>2
    <3> QED BY <1>1, <3>1, <3>2
  <2>6. ASSUME NEW p, UnlinkOriginal(p) PROVE CountInv'
    BY <1>3, <2>6 DEF UnlinkOriginal, albumVars
  <2> QED BY <1>11, <1>12, <1>15, <1>16, <1>17, <1>27, <2>1, <2>2, <2>3, <2>4, <2>5, <2>6 DEF PartsNext
<1>28. CASE UNCHANGED memoryVars
  BY <1>3, <1>28 DEF memoryVars, albumVars, photoVars
<1> QED BY <1>20, <1>23, <1>24, <1>25, <1>26, <1>27, <1>28 DEF MemoriesNext

\* photoCount is the number of the photos whenever no upload and no removal is under way and
\* none was cut short, doubled, failed in part or counted before its upload: the increments
\* and decrements of memory_albums.photo_count commute with the inserts and deletions.
THEOREM CountMatchesCorrect == MemoriesSpec => []CountMatches
<1>1. MemoriesInit => MemTypes /\ FilesInv /\ CountInv
  BY MemTypesInit, FilesInit, CountInit
<1>2. MemTypes /\ FilesInv /\ CountInv /\ [MemoriesNext]_memoryVars => (MemTypes /\ FilesInv /\ CountInv)'
  BY MemTypesStep, FilesStep, CountStep
<1>3. MemTypes /\ CountInv => CountMatches
  <2> SUFFICES ASSUME MemTypes, CountInv, Live, "count" \notin torn,
                      Busy({"upload", "count", "discount"}) = {}
               PROVE  album.count = Cardinality(Rows)
    BY DEF CountMatches
  <2>1. Pending = {} /\ Discounts = {}
    BY DEF Busy, Pending, Discounts, Uncounted
  <2>2. album.count + Cardinality(Pending) = Cardinality(Rows) + Cardinality(Discounts)
    BY DEF CountInv, Counting
  <2>3. album.count \in Nat
    BY DEF MemTypes, AlbumTypes
  <2> QED BY <2>1, <2>2, <2>3, Finite, FS_EmptySet
<1> QED BY <1>1, <1>2, <1>3, PTL DEF MemoriesSpec

-----------------------------------------------------------------------------
(* The comments.  What is kept with a comment is read before an await and  *)
(* written after it: it is right as long as no other request about the     *)
(* comment came between, which is what overlap records.                    *)

CommentOps == {"comment", "edit", "uncomment", "react", "translate"}
NoReactions == [v \in Users |-> None]

\* The requests about a comment.
About(c, ops) == {k \in Slots : flight[k].op \in ops /\ flight[k].of = c}

Unmade(c) ==
  c \notin created => ~HasComment(c) /\ told[c] = NoReactions /\ About(c, CommentOps) = {}
Making(c) ==
  \A k \in About(c, {"comment"}) :
    /\ ~HasComment(c) /\ told[c] = NoReactions /\ About(c, CommentOps) = {k}
    /\ flight[k].new.trans = None /\ flight[k].new.reactions = NoReactions
TextKept(c) ==
  c \in PhotoComments /\ <<c, "text">> \notin overlap =>
    /\ About(c, {"edit"}) = {} \/ About(c, {"translate"}) = {}
    /\ HasComment(c) =>
         /\ comment[c].trans \in {None, comment[c].text}
         /\ \A k \in About(c, {"translate"}) : flight[k].text = comment[c].text
ReactionsKept(c) ==
  <<c, "reactions">> \notin overlap =>
    /\ \A k1, k2 \in About(c, {"react"}) : k1 = k2
    /\ HasComment(c) =>
         /\ comment[c].reactions = told[c]
         /\ \A k \in About(c, {"react"}) : \A v \in Users :
              v # flight[k].by => flight[k].reactions[v] = told[c][v]

Kept(c) == Unmade(c) /\ Making(c) /\ TextKept(c) /\ ReactionsKept(c)
CommentsInv == \A c \in Comments : Kept(c)

LEMMA CommentsInit == MemoriesInit => CommentsInv
<1> SUFFICES ASSUME MemoriesInit, NEW c \in Comments PROVE Kept(c)
  BY DEF CommentsInv
<1>1. ~HasComment(c) /\ told[c] = NoReactions /\ \A k \in Slots : flight[k].op = "idle"
  BY DEF MemoriesInit, HasComment, NoReactions
<1>2. \A ops \in SUBSET CommentOps : About(c, ops) = {}
  BY <1>1 DEF About, CommentOps
<1>3. {"comment"} \in SUBSET CommentOps /\ {"react"} \in SUBSET CommentOps /\ {"edit"} \in SUBSET CommentOps
      /\ {"translate"} \in SUBSET CommentOps
  BY DEF CommentOps
<1> QED BY <1>1, <1>2, <1>3 DEF Kept, Unmade, Making, TextKept, ReactionsKept

\* Nothing is asked of the comment and nothing written to it, except that it may go.
LEMMA KeptAlone ==
  ASSUME CommentTypes, NEW c \in Comments, Kept(c),
         told'[c] = told[c], c \in created' <=> c \in created, overlap \subseteq overlap',
         comment'[c] = comment[c] \/ comment'[c] = NoComment,
         \A k \in Slots : \/ flight'[k] = flight[k]
                          \/ flight'[k].op \notin CommentOps
                          \/ flight'[k].of # c
  PROVE  Kept(c)'
<1>1. \A ops \in SUBSET CommentOps : About(c, ops)' \subseteq About(c, ops)
      /\ \A k \in About(c, ops)' : flight'[k] = flight[k]
  BY DEF About
<1>2. {"comment"} \in SUBSET CommentOps /\ {"react"} \in SUBSET CommentOps /\ {"edit"} \in SUBSET CommentOps
      /\ {"translate"} \in SUBSET CommentOps
  BY DEF CommentOps
<1>3. HasComment(c)' => HasComment(c) /\ comment'[c] = comment[c]
  BY DEF HasComment
<1>4. Unmade(c)'
  BY <1>1, <1>3 DEF Kept, Unmade
<1>5. Making(c)'
  <2> SUFFICES ASSUME NEW k \in About(c, {"comment"})'
               PROVE  /\ ~HasComment(c)' /\ told'[c] = NoReactions /\ About(c, CommentOps)' = {k}
                      /\ flight'[k].new.trans = None /\ flight'[k].new.reactions = NoReactions
    BY DEF Making, NoReactions
  <2>1. k \in About(c, {"comment"}) /\ flight'[k] = flight[k]
    BY <1>1, <1>2
  <2>2. About(c, CommentOps)' \subseteq {k} /\ k \in About(c, CommentOps)'
    BY <1>1, <2>1 DEF Kept, Making, About, CommentOps
  <2> QED BY <1>3, <2>1, <2>2 DEF Kept, Making
<1>6. TextKept(c)'
  BY <1>1, <1>2, <1>3 DEF Kept, TextKept
<1>7. ReactionsKept(c)'
  BY <1>1, <1>2, <1>3 DEF Kept, ReactionsKept
<1> QED BY <1>4, <1>5, <1>6, <1>7 DEF Kept

\* Another request about the comment starts.
LEMMA KeptAsked ==
  ASSUME CommentTypes, FlightTypes, NEW c \in Comments, Kept(c), HasComment(c),
         NEW k \in Slots, NEW f, flight' = [flight EXCEPT ![k] = f], flight[k].op = "idle",
         f.op \in CommentOps \ {"comment"}, f.of = c,
         UNCHANGED commentVars, overlap \subseteq overlap',
         c \in PhotoComments /\ <<c, "text">> \notin overlap' =>
           /\ f.op = "edit" => About(c, {"translate"}) = {}
           /\ f.op = "translate" => About(c, {"edit"}) = {} /\ f.text = comment[c].text,
         <<c, "reactions">> \notin overlap' /\ f.op = "react" =>
           About(c, {"react"}) = {} /\ \A v \in Users : v # f.by => f.reactions[v] = told[c][v]
  PROVE  Kept(c)'
<1>1. \A j \in Slots : flight'[j] = IF j = k THEN f ELSE flight[j]
  BY DEF FlightTypes
<1>2. \A ops \in SUBSET CommentOps :
        About(c, ops)' = IF f.op \in ops THEN About(c, ops) \cup {k} ELSE About(c, ops)
  BY <1>1 DEF About, CommentOps
<1>3. \A ops \in SUBSET CommentOps : k \notin About(c, ops)
  BY DEF About, CommentOps
<1>4. UNCHANGED <<comment, told, created>> /\ (HasComment(c)' <=> HasComment(c))
  BY DEF commentVars, HasComment
<1>5. {"comment"} \in SUBSET CommentOps /\ {"react"} \in SUBSET CommentOps /\ {"edit"} \in SUBSET CommentOps
      /\ {"translate"} \in SUBSET CommentOps
  BY DEF CommentOps
<1>6. Unmade(c)'
  BY <1>4 DEF Kept, Unmade
<1>7. Making(c)'
  <2>1. About(c, {"comment"})' = {}
    BY <1>2, <1>5 DEF Kept, Making
  <2> QED BY <2>1 DEF Making
<1>8. TextKept(c)'
  <2> SUFFICES ASSUME c \in PhotoComments, <<c, "text">> \notin overlap'
               PROVE  /\ About(c, {"edit"})' = {} \/ About(c, {"translate"})' = {}
                      /\ comment[c].trans \in {None, comment[c].text}
                      /\ \A j \in About(c, {"translate"})' : flight'[j].text = comment[c].text
    BY <1>4 DEF TextKept
  <2>1. /\ About(c, {"edit"}) = {} \/ About(c, {"translate"}) = {}
        /\ comment[c].trans \in {None, comment[c].text}
        /\ \A j \in About(c, {"translate"}) : flight[j].text = comment[c].text
    BY DEF Kept, TextKept
  <2>2. About(c, {"edit"})' = IF f.op = "edit" THEN About(c, {"edit"}) \cup {k} ELSE About(c, {"edit"})
    BY <1>2, <1>5
  <2>3. About(c, {"translate"})' =
          IF f.op = "translate" THEN About(c, {"translate"}) \cup {k} ELSE About(c, {"translate"})
    BY <1>2, <1>5
  <2>4. \A j \in About(c, {"translate"}) : j \in Slots /\ flight'[j] = flight[j]
    BY <1>1, <1>3, <1>5 DEF About
  <2> QED BY <1>1, <2>1, <2>2, <2>3, <2>4
<1>9. ReactionsKept(c)'
  <2> SUFFICES ASSUME <<c, "reactions">> \notin overlap'
               PROVE  /\ \A k1, k2 \in About(c, {"react"})' : k1 = k2
                      /\ comment[c].reactions = told[c]
                      /\ \A j \in About(c, {"react"})' : \A v \in Users :
                           v # flight'[j].by => flight'[j].reactions[v] = told[c][v]
    BY <1>4 DEF ReactionsKept
  <2>1. /\ \A k1, k2 \in About(c, {"react"}) : k1 = k2
        /\ comment[c].reactions = told[c]
        /\ \A j \in About(c, {"react"}) : \A v \in Users :
             v # flight[j].by => flight[j].reactions[v] = told[c][v]
    BY DEF Kept, ReactionsKept
  <2>2. About(c, {"react"})' = IF f.op = "react" THEN About(c, {"react"}) \cup {k} ELSE About(c, {"react"})
    BY <1>2, <1>5
  <2>3. \A j \in About(c, {"react"}) : j \in Slots /\ flight'[j] = flight[j]
    BY <1>1, <1>3, <1>5 DEF About
  <2> QED BY <1>1, <2>1, <2>2, <2>3
<1> QED BY <1>6, <1>7, <1>8, <1>9 DEF Kept

LEMMA CommentsStep ==
  ASSUME MemTypes, CommentsInv, [MemoriesNext]_memoryVars PROVE CommentsInv'
<1> SUFFICES ASSUME NEW c \in Comments PROVE Kept(c)'
  BY DEF CommentsInv
<1>0. CommentTypes /\ FlightTypes /\ PhotoTypes /\ Kept(c)
  BY DEF MemTypes, CommentsInv
<1>1. ASSUME NEW k \in Slots, NEW f, flight' = [flight EXCEPT ![k] = f], f.op \notin CommentOps \/ f.of # c,
             UNCHANGED <<told, created>>, overlap \subseteq overlap',
             comment'[c] = comment[c] \/ comment'[c] = NoComment
      PROVE  Kept(c)'
  <2>1. \A j \in Slots : flight'[j] = IF j = k THEN f ELSE flight[j]
    BY <1>0, <1>1 DEF FlightTypes
  <2>2. \A j \in Slots : \/ flight'[j] = flight[j]
                         \/ flight'[j].op \notin CommentOps
                         \/ flight'[j].of # c
    BY <1>1, <2>1
  <2>3. told'[c] = told[c] /\ (c \in created' <=> c \in created)
    BY <1>1
  <2> QED BY <1>0, <1>1, <2>2, <2>3, KeptAlone
<1>2. ASSUME NEW k \in Slots, NEW f, Start(k, f) \/ Go(k, f), f.op \notin CommentOps,
             UNCHANGED commentVars, overlap \subseteq overlap'
      PROVE  Kept(c)'
  BY <1>1, <1>2 DEF Start, Go, commentVars
<1>3. ASSUME UNCHANGED <<flight, commentVars, overlap>> PROVE Kept(c)'
  <2>1. told'[c] = told[c] /\ (c \in created' <=> c \in created) /\ comment'[c] = comment[c]
    BY <1>3 DEF commentVars
  <2>2. \A j \in Slots : flight'[j] = flight[j]
    BY <1>3
  <2> QED BY <1>0, <1>3, <2>1, <2>2, KeptAlone
<1>4. ASSUME NEW k \in Slots, Finish(k), UNCHANGED <<told, created, overlap>>,
             comment'[c] = comment[c] \/ comment'[c] = NoComment
      PROVE  Kept(c)'
  <2>1. flight' = [flight EXCEPT ![k] = Idle] /\ Idle.op \notin CommentOps
    BY <1>4 DEF Finish, Go, CommentOps
  <2> QED BY <1>1, <1>4, <2>1
<1>5. ASSUME NEW k \in Slots, DropAlbum(k) PROVE Kept(c)'
  BY <1>4, <1>5 DEF DropAlbum, WithoutPhotos
<1>6. ASSUME NEW k \in Slots, DeletePhoto(k) PROVE Kept(c)'
  <2>1. comment'[c] = comment[c] \/ comment'[c] = NoComment
    BY <1>6 DEF DeletePhoto, WithoutPhotos
  <2>2. flight' = [flight EXCEPT ![k] = [op |-> "discount"]] /\ UNCHANGED <<told, created, overlap>>
    BY <1>6 DEF DeletePhoto, Go
  <2>3. [op |-> "discount"].op \notin CommentOps
    BY DEF CommentOps
  <2> QED BY <1>1, <2>1, <2>2, <2>3
<1>7. ASSUME NEW k \in Slots, NEW u \in Users, NEW d \in Comments, NEW p \in Photos \cup {None}, NEW t \in Texts,
             AddComment(k, u, d, p, t)
      PROVE  Kept(c)'
  <2> DEFINE f == [op |-> "comment", of |-> d, new |-> NewComment(p, u, t)]
  <2>1. flight' = [flight EXCEPT ![k] = f] /\ flight[k].op = "idle" /\ UNCHANGED <<comment, told, overlap>>
        /\ created' = created \cup {d} /\ d \notin created
    BY <1>7 DEF AddComment, Start
  <2>2. f.op = "comment" /\ f.of = d /\ f.new.trans = None /\ f.new.reactions = NoReactions
    BY DEF NewComment, NoReactions
  <2> HIDE DEF f
  <2>3. \A j \in Slots : flight'[j] = IF j = k THEN f ELSE flight[j]
    BY <1>0, <2>1 DEF FlightTypes
  <2>4. CASE c # d
    <3>1. \A j \in Slots : \/ flight'[j] = flight[j]
                           \/ flight'[j].op \notin CommentOps
                           \/ flight'[j].of # c
      BY <2>2, <2>3, <2>4
    <3>2. told'[c] = told[c] /\ (c \in created' <=> c \in created) /\ comment'[c] = comment[c]
      BY <2>1, <2>4
    <3> QED BY <1>0, <2>1, <3>1, <3>2, KeptAlone
  <2>5. CASE c = d
    <3>1. ~HasComment(c)' /\ told'[c] = NoReactions /\ About(c, CommentOps) = {}
      BY <1>0, <2>1, <2>5 DEF Kept, Unmade, HasComment
    <3>2. \A j \in Slots : j # k => ~(flight[j].op \in CommentOps /\ flight[j].of = c)
      BY <3>1 DEF About
    <3>3. About(c, CommentOps)' = {k} /\ About(c, {"comment"})' = {k} /\ About(c, {"translate"})' = {}
          /\ About(c, {"react"})' = {}
      BY <2>2, <2>3, <2>5, <3>2 DEF About, CommentOps
    <3>4. Unmade(c)' /\ TextKept(c)' /\ ReactionsKept(c)'
      BY <2>1, <2>5, <3>1, <3>3 DEF Unmade, TextKept, ReactionsKept
    <3>5. Making(c)'
      BY <2>2, <2>3, <3>1, <3>3 DEF Making, NoReactions
    <3> QED BY <3>4, <3>5 DEF Kept
  <2> QED BY <2>4, <2>5
<1>8. ASSUME NEW k \in Slots, SaveComment(k) PROVE Kept(c)'
  <2> DEFINE d == flight[k].of
  <2>1. flight[k] \in AddedComments /\ flight[k].op = "comment" /\ d \in Comments /\ flight[k].new \in Comment
    <3>1. flight[k] \in AddedComments /\ flight[k].op = "comment"
      BY <1>0, <1>8, Kinds DEF SaveComment
    <3> QED BY <3>1 DEF AddedComments
  <2>2. /\ flight' = [flight EXCEPT ![k] = Idle] /\ UNCHANGED <<told, created, overlap>>
        /\ \A x \in Comments : x # d => comment'[x] = comment[x]
        /\ comment'[d] = comment[d] \/ comment'[d] = flight[k].new
    BY <1>0, <1>8, <2>1 DEF SaveComment, Finish, Go, CommentTypes
  <2> HIDE DEF d
  <2>3. CASE comment'[c] = comment[c]
    BY <1>4, <1>8, <2>2, <2>3 DEF SaveComment
  <2>4. CASE comment'[c] # comment[c]
    <3>1. c = d /\ comment'[c] = flight[k].new /\ k \in About(c, {"comment"})
      BY <2>1, <2>2, <2>4 DEF About, d
    <3>2. /\ told[c] = NoReactions /\ About(c, CommentOps) = {k}
          /\ flight[k].new.trans = None /\ flight[k].new.reactions = NoReactions
      BY <1>0, <3>1 DEF Kept, Making
    <3>3. \A j \in Slots : flight'[j] = IF j = k THEN Idle ELSE flight[j]
      BY <1>0, <2>2 DEF FlightTypes
    <3>4. About(c, CommentOps)' = {}
      BY <3>2, <3>3 DEF About, CommentOps
    <3>5. About(c, {"comment"})' = {} /\ About(c, {"translate"})' = {} /\ About(c, {"react"})' = {}
      BY <3>4 DEF About, CommentOps
    <3>6. c \in created
      BY <1>0, <3>2 DEF Kept, Unmade
    <3>7. told'[c] = NoReactions /\ c \in created'
      BY <2>2, <3>2, <3>6
    <3> QED BY <3>1, <3>2, <3>5, <3>7 DEF Kept, Unmade, Making, TextKept, ReactionsKept
  <2> QED BY <2>3, <2>4
\* A request about a comment starts.
<1>9. ASSUME NEW k \in Slots, NEW d \in Comments, NEW f, Start(k, f), f.of = d,
             f.op \in CommentOps \ {"comment"}, HasComment(d),
             UNCHANGED commentVars, overlap \subseteq overlap',
             d \in PhotoComments /\ <<d, "text">> \notin overlap' =>
               /\ f.op = "edit" => About(d, {"translate"}) = {}
               /\ f.op = "translate" => About(d, {"edit"}) = {} /\ f.text = comment[d].text,
             <<d, "reactions">> \notin overlap' /\ f.op = "react" =>
               About(d, {"react"}) = {} /\ \A v \in Users : v # f.by => f.reactions[v] = told[d][v]
      PROVE  Kept(c)'
  <2>1. flight' = [flight EXCEPT ![k] = f] /\ flight[k].op = "idle"
    BY <1>9 DEF Start
  <2>2. CASE c # d
    BY <1>1, <1>9, <2>1, <2>2 DEF commentVars
  <2>3. CASE c = d
    BY <1>0, <1>9, <2>1, <2>3, KeptAsked
  <2> QED BY <2>2, <2>3
<1>10. ASSUME NEW k \in Slots, NEW u \in Users, NEW d \in Comments, NEW t \in Texts, EditComment(k, u, d, t)
       PROVE  Kept(c)'
  <2> DEFINE f == [op |-> "edit", of |-> d, text |-> t]
  <2>1. Start(k, f) /\ HasComment(d) /\ UNCHANGED commentVars
        /\ overlap' = (IF \E j \in Busy({"translate"}) : flight[j].of = d
                       THEN overlap \cup {<<d, "text">>} ELSE overlap)
    BY <1>10 DEF EditComment, Overlap
  <2>2. f.op = "edit" /\ f.of = d
    OBVIOUS
  <2> HIDE DEF f
  <2>3. <<d, "text">> \notin overlap' => About(d, {"translate"}) = {}
    BY <2>1 DEF Busy, About
  <2>4. overlap \subseteq overlap' /\ f.op \in CommentOps \ {"comment"} /\ f.op # "translate" /\ f.op # "react"
    BY <2>1, <2>2 DEF CommentOps
  <2> QED BY <1>9, <2>1, <2>2, <2>3, <2>4
<1>11. ASSUME NEW k \in Slots, NEW u \in Users, NEW d \in Comments, RemoveComment(k, u, d) PROVE Kept(c)'
  <2> DEFINE f == [op |-> "uncomment", of |-> d]
  <2>1. Start(k, f) /\ HasComment(d) /\ UNCHANGED <<commentVars, overlap>>
    BY <1>11 DEF RemoveComment
  <2>2. f.op = "uncomment" /\ f.of = d
    OBVIOUS
  <2> HIDE DEF f
  <2>3. f.op \in CommentOps \ {"comment"} /\ f.op # "translate" /\ f.op # "react" /\ f.op # "edit"
    BY <2>2 DEF CommentOps
  <2>4. UNCHANGED commentVars /\ overlap \subseteq overlap'
    BY <2>1
  <2> QED BY <1>9, <2>1, <2>2, <2>3, <2>4
<1>12. ASSUME NEW k \in Slots, NEW u \in Users, NEW d \in Comments, Translate(k, u, d) PROVE Kept(c)'
  <2> DEFINE f == [op |-> "translate", of |-> d, text |-> comment[d].text]
  <2>1. Start(k, f) /\ HasComment(d) /\ UNCHANGED commentVars
        /\ overlap' = (IF \E j \in Busy({"edit"}) : flight[j].of = d
                       THEN overlap \cup {<<d, "text">>} ELSE overlap)
    BY <1>12 DEF Translate, Overlap
  <2>2. f.op = "translate" /\ f.of = d /\ f.text = comment[d].text
    OBVIOUS
  <2> HIDE DEF f
  <2>3. <<d, "text">> \notin overlap' => About(d, {"edit"}) = {}
    BY <2>1 DEF Busy, About
  <2>4. overlap \subseteq overlap' /\ f.op \in CommentOps \ {"comment"} /\ f.op # "edit" /\ f.op # "react"
    BY <2>1, <2>2 DEF CommentOps
  <2> QED BY <1>9, <2>1, <2>2, <2>3, <2>4
<1>13. ASSUME NEW k \in Slots, NEW u \in Users, NEW d \in Comments, NEW x \in Types, ToggleReaction(k, u, d, x)
       PROVE  Kept(c)'
  <2> DEFINE rs == Toggled(comment[d].reactions, u, x)
             f == [op |-> "react", of |-> d, by |-> u, reactions |-> rs]
  <2>1. Start(k, f) /\ HasComment(d) /\ UNCHANGED commentVars
        /\ overlap' = (IF \E j \in Busy({"react"}) : flight[j].of = d
                       THEN overlap \cup {<<d, "reactions">>} ELSE overlap)
    BY <1>13 DEF ToggleReaction, Overlap
  <2>2. f.op = "react" /\ f.of = d /\ f.by = u /\ f.reactions = rs
    OBVIOUS
  <2>3. comment[d].reactions \in Reactions
    BY <1>0, <2>1 DEF CommentTypes, HasComment, Comment, Reactions
  <2>4. \A v \in Users : v # u => rs[v] = comment[d].reactions[v]
    BY <2>3 DEF Toggled, Reactions
  <2> HIDE DEF f, rs
  <2>5. <<d, "reactions">> \notin overlap' =>
          About(d, {"react"}) = {} /\ comment[d].reactions = told[d]
    <3>1. <<d, "reactions">> \notin overlap' => About(d, {"react"}) = {} /\ <<d, "reactions">> \notin overlap
      BY <2>1 DEF Busy, About
    <3> QED BY <2>1, <3>1 DEF CommentsInv, Kept, ReactionsKept
  <2>6. <<d, "reactions">> \notin overlap' =>
          About(d, {"react"}) = {} /\ \A v \in Users : v # f.by => f.reactions[v] = told[d][v]
    BY <2>2, <2>4, <2>5
  <2>7. overlap \subseteq overlap' /\ f.op \in CommentOps \ {"comment"} /\ f.op # "edit" /\ f.op # "translate"
    BY <2>1, <2>2 DEF CommentOps
  <2> QED BY <1>9, <2>1, <2>2, <2>6, <2>7
\* A request writes what it holds to its comment, which is there.
<1>14. ASSUME NEW k \in Slots, Finish(k), flight[k].op \in CommentOps \ {"comment"}, flight[k].of = c,
              HasComment(c), UNCHANGED <<created, overlap>>
       PROVE  /\ Unmade(c)' /\ Making(c)'
              /\ \A ops \in SUBSET CommentOps : About(c, ops)' = About(c, ops) \ {k}
              /\ \A j \in Slots : j # k => flight'[j] = flight[j]
  <2>1. \A j \in Slots : flight'[j] = IF j = k THEN Idle ELSE flight[j]
    BY <1>0, <1>14 DEF Finish, Go, FlightTypes
  <2>2. \A ops \in SUBSET CommentOps : About(c, ops)' = About(c, ops) \ {k}
    BY <2>1 DEF About, CommentOps
  <2>3. Unmade(c)'
    BY <1>0, <1>14 DEF Kept, Unmade
  <2>4. {"comment"} \in SUBSET CommentOps
    BY DEF CommentOps
  <2>5. About(c, {"comment"})' = {}
    BY <1>0, <1>14, <2>2, <2>4 DEF Kept, Making
  <2>6. Making(c)'
    BY <2>5 DEF Making
  <2> QED BY <2>1, <2>2, <2>3, <2>6
<1>s. {"edit"} \in SUBSET CommentOps /\ {"translate"} \in SUBSET CommentOps /\ {"react"} \in SUBSET CommentOps
      /\ {"edit", "uncomment", "react", "translate"} = CommentOps \ {"comment"}
  BY DEF CommentOps
<1>15. ASSUME NEW k \in Slots, WriteEdit(k) PROVE Kept(c)'
  <2> DEFINE d == flight[k].of
  <2>1. flight[k] \in Edits /\ flight[k].op = "edit" /\ d \in Comments /\ flight[k].text \in Texts
    <3>1. flight[k] \in Edits /\ flight[k].op = "edit"
      BY <1>0, <1>15, Kinds DEF WriteEdit
    <3> QED BY <3>1 DEF Edits
  <2>2. Finish(k) /\ UNCHANGED <<told, created, overlap>>
    BY <1>15 DEF WriteEdit
  <2>3. comment' = IF HasComment(d) THEN [comment EXCEPT ![d] = Edited(@, d, flight[k].text)] ELSE comment
    BY <1>15 DEF WriteEdit
  <2>4. CASE c # d \/ ~HasComment(d)
    <3>1. comment'[c] = comment[c]
      BY <1>0, <2>3, <2>4 DEF CommentTypes
    <3> QED BY <1>4, <2>2, <3>1
  <2>5. CASE c = d /\ HasComment(c)
    <3>1. comment'[c] = Edited(comment[c], c, flight[k].text) /\ comment[c] \in Comment
      BY <1>0, <2>3, <2>5 DEF CommentTypes, HasComment
    <3>2. comment'[c].reactions = comment[c].reactions /\ (c \in PhotoComments => comment'[c].trans = None)
      BY <3>1 DEF Edited, Comment
    <3>3. /\ Unmade(c)' /\ Making(c)'
          /\ \A ops \in SUBSET CommentOps : About(c, ops)' = About(c, ops) \ {k}
          /\ \A j \in Slots : j # k => flight'[j] = flight[j]
      BY <1>14, <1>s, <2>1, <2>2, <2>5
    <3>4. TextKept(c)'
      <4>1. <<c, "text">> \notin overlap /\ c \in PhotoComments => About(c, {"translate"}) = {}
        BY <1>0, <2>1, <2>5 DEF Kept, TextKept, About
      <4>2. About(c, {"translate"})' \subseteq About(c, {"translate"})
        BY <1>s, <3>3
      <4> QED BY <2>2, <3>2, <4>1, <4>2 DEF TextKept
    <3>5. ReactionsKept(c)'
      <4>1. About(c, {"react"})' = About(c, {"react"}) \ {k}
        BY <1>s, <3>3
      <4>2. \A j \in About(c, {"react"})' : j \in About(c, {"react"}) /\ flight'[j] = flight[j]
        BY <3>3, <4>1 DEF About
      <4> QED BY <1>0, <2>2, <2>5, <3>2, <4>2 DEF Kept, ReactionsKept
    <3> QED BY <3>3, <3>4, <3>5 DEF Kept
  <2> QED BY <2>4, <2>5
<1>16. ASSUME NEW k \in Slots, DeleteComment(k) PROVE Kept(c)'
  <2>1. comment'[c] = comment[c] \/ comment'[c] = NoComment
    BY <1>0, <1>16 DEF DeleteComment, CommentTypes
  <2> QED BY <1>4, <1>16, <2>1 DEF DeleteComment
<1>17. ASSUME NEW k \in Slots, WriteReactions(k) PROVE Kept(c)'
  <2> DEFINE d == flight[k].of
             u == flight[k].by
             rs == flight[k].reactions
  <2>1. flight[k] \in Toggles /\ flight[k].op = "react" /\ d \in Comments /\ u \in Users /\ rs \in Reactions
    <3>1. flight[k] \in Toggles /\ flight[k].op = "react"
      BY <1>0, <1>17, Kinds DEF WriteReactions
    <3> QED BY <3>1 DEF Toggles
  <2>2. Finish(k) /\ UNCHANGED <<created, overlap>>
    BY <1>17 DEF WriteReactions
  <2>3. /\ comment' = IF HasComment(d) THEN [comment EXCEPT ![d].reactions = rs] ELSE comment
        /\ told' = [told EXCEPT ![d][u] = rs[u]]
    BY <1>17 DEF WriteReactions
  <2>4. CASE c # d
    <3>1. comment'[c] = comment[c] /\ told'[c] = told[c] /\ (c \in created' <=> c \in created)
          /\ overlap \subseteq overlap'
      BY <1>0, <2>2, <2>3, <2>4 DEF CommentTypes
    <3>2. \A j \in Slots : flight'[j] = flight[j] \/ flight'[j].op \notin CommentOps
      BY <1>0, <2>2 DEF Finish, Go, FlightTypes, CommentOps
    <3> QED BY <1>0, <3>1, <3>2, KeptAlone
  <2>5. CASE c = d /\ ~HasComment(c)
    <3>1. ~HasComment(c)' /\ k \in About(c, CommentOps) /\ k \notin About(c, {"comment"})
      BY <2>1, <2>3, <2>5 DEF HasComment, About, CommentOps
    <3>2. c \in created /\ About(c, {"comment"}) = {}
      BY <1>0, <3>1 DEF Kept, Unmade, Making
    <3>3. \A j \in Slots : flight'[j] = IF j = k THEN Idle ELSE flight[j]
      BY <1>0, <2>2 DEF Finish, Go, FlightTypes
    <3>4. \A ops \in SUBSET CommentOps : About(c, ops)' = About(c, ops) \ {k}
      BY <3>3 DEF About, CommentOps
    <3>5. About(c, {"comment"})' = {} /\ c \in created'
      BY <2>2, <3>2, <3>3 DEF About, CommentOps
    <3>6. TextKept(c)'
      BY <1>0, <1>s, <2>2, <3>1, <3>4 DEF Kept, TextKept
    <3>7. ReactionsKept(c)'
      BY <1>0, <1>s, <2>2, <3>1, <3>4 DEF Kept, ReactionsKept
    <3> QED BY <3>5, <3>6, <3>7 DEF Kept, Unmade, Making
  <2>6. CASE c = d /\ HasComment(c)
    <3>1. comment[c] \in Comment /\ told[c] \in Reactions
      BY <1>0, <2>6 DEF CommentTypes, HasComment
    <3>2. /\ comment'[c].reactions = rs /\ comment'[c].text = comment[c].text
          /\ comment'[c].trans = comment[c].trans
          /\ told'[c] = [told[c] EXCEPT ![u] = rs[u]]
      BY <1>0, <2>3, <2>6, <3>1 DEF CommentTypes, Comment
    <3>3. /\ Unmade(c)' /\ Making(c)'
          /\ \A ops \in SUBSET CommentOps : About(c, ops)' = About(c, ops) \ {k}
          /\ \A j \in Slots : j # k => flight'[j] = flight[j]
      BY <1>14, <1>s, <2>1, <2>2, <2>6
    <3>4. TextKept(c)'
      <4>1. About(c, {"translate"})' \subseteq About(c, {"translate"})
            /\ About(c, {"edit"})' \subseteq About(c, {"edit"})
            /\ \A j \in About(c, {"translate"})' : flight'[j] = flight[j]
        BY <1>s, <3>3 DEF About
      <4> QED BY <1>0, <2>2, <2>6, <3>2, <4>1 DEF Kept, TextKept
    <3>5. ReactionsKept(c)'
      <4> SUFFICES ASSUME <<c, "reactions">> \notin overlap PROVE ReactionsKept(c)'
        BY <2>2 DEF ReactionsKept
      <4>1. k \in About(c, {"react"})
        BY <2>1, <2>6 DEF About
      <4>2. About(c, {"react"})' = {}
        BY <1>0, <1>s, <3>3, <4>1 DEF Kept, ReactionsKept
      <4>3. \A v \in Users : v # u => rs[v] = told[c][v]
        BY <1>0, <2>6, <4>1 DEF Kept, ReactionsKept
      <4> HIDE DEF rs, u, d
      <4>4. told'[c] = rs
        BY <2>1, <3>1, <3>2, <4>3 DEF Reactions
      <4> QED BY <3>2, <4>2, <4>4 DEF ReactionsKept
    <3> QED BY <3>3, <3>4, <3>5 DEF Kept
  <2> QED BY <2>4, <2>5, <2>6
<1>18. ASSUME NEW k \in Slots, NEW ok \in BOOLEAN, WriteTranslation(k, ok) PROVE Kept(c)'
  <2> DEFINE d == flight[k].of
  <2>1. flight[k] \in Translations /\ flight[k].op = "translate" /\ d \in Comments /\ flight[k].text \in Texts
    <3>1. flight[k] \in Translations /\ flight[k].op = "translate"
      BY <1>0, <1>18, Kinds DEF WriteTranslation
    <3> QED BY <3>1 DEF Translations
  <2>2. Finish(k) /\ UNCHANGED <<told, created, overlap>>
    BY <1>18 DEF WriteTranslation
  <2>3. comment' = IF ok /\ HasComment(d) THEN [comment EXCEPT ![d].trans = flight[k].text] ELSE comment
    BY <1>18 DEF WriteTranslation
  <2>4. CASE c # d \/ ~HasComment(d) \/ ~ok
    <3>1. comment'[c] = comment[c]
      BY <1>0, <2>3, <2>4 DEF CommentTypes
    <3> QED BY <1>4, <2>2, <3>1
  <2>5. CASE c = d /\ HasComment(c) /\ ok
    <3>1. comment[c] \in Comment
      BY <1>0, <2>5 DEF CommentTypes, HasComment
    <3>2. /\ comment'[c].reactions = comment[c].reactions /\ comment'[c].text = comment[c].text
          /\ comment'[c].trans = flight[k].text
      BY <1>0, <2>3, <2>5, <3>1 DEF CommentTypes, Comment
    <3>3. /\ Unmade(c)' /\ Making(c)'
          /\ \A ops \in SUBSET CommentOps : About(c, ops)' = About(c, ops) \ {k}
          /\ \A j \in Slots : j # k => flight'[j] = flight[j]
      BY <1>14, <1>s, <2>1, <2>2, <2>5
    <3>4. TextKept(c)'
      <4>1. About(c, {"translate"})' \subseteq About(c, {"translate"})
            /\ About(c, {"edit"})' \subseteq About(c, {"edit"})
            /\ \A j \in About(c, {"translate"})' : flight'[j] = flight[j]
        BY <1>s, <3>3 DEF About
      <4>2. k \in About(c, {"translate"})
        BY <2>1, <2>5 DEF About
      <4> QED BY <1>0, <2>2, <2>5, <3>2, <4>1, <4>2 DEF Kept, TextKept
    <3>5. ReactionsKept(c)'
      <4>1. About(c, {"react"})' = About(c, {"react"}) \ {k}
        BY <1>s, <3>3
      <4>2. \A j \in About(c, {"react"})' : j \in About(c, {"react"}) /\ flight'[j] = flight[j]
        BY <3>3, <4>1 DEF About
      <4> QED BY <1>0, <2>2, <2>5, <3>2, <4>2 DEF Kept, ReactionsKept
    <3> QED BY <3>3, <3>4, <3>5 DEF Kept
  <2> QED BY <2>4, <2>5
<1>19. CASE Restart
  <2>1. told'[c] = told[c] /\ (c \in created' <=> c \in created) /\ comment'[c] = comment[c]
        /\ overlap \subseteq overlap'
    BY <1>19 DEF Restart, commentVars
  <2>2. \A k \in Slots : flight'[k].op \notin CommentOps
    BY <1>19 DEF Restart, CommentOps
  <2> QED BY <1>0, <2>1, <2>2, KeptAlone
<1>20. CASE AlbumNext
  <2>1. ASSUME NEW k \in Slots, NEW private, NEW list, CreateAlbum(k, private, list) PROVE Kept(c)'
    BY <1>2, <2>1 DEF CreateAlbum, CommentOps
  <2>2. ASSUME NEW k \in Slots, NEW u, NEW list, UpdateMembers(k, u, list) PROVE Kept(c)'
    BY <1>2, <2>2 DEF UpdateMembers, CommentOps
  <2>3. ASSUME NEW k \in Slots, NEW private, NEW relist, NEW list, UpdateAlbum(k, private, relist, list)
        PROVE  Kept(c)'
    BY <1>2, <2>3 DEF UpdateAlbum, CommentOps
  <2>4. ASSUME NEW k \in Slots, WriteAlbum(k) PROVE Kept(c)'
    <3> DEFINE f == IF flight[k].relist THEN [op |-> "wipe", list |-> flight[k].list] ELSE Idle
    <3>1. Go(k, f) /\ f.op \notin CommentOps /\ UNCHANGED <<commentVars, overlap>>
      BY <2>4 DEF WriteAlbum, CommentOps
    <3> HIDE DEF f
    <3> QED BY <1>2, <3>1
  <2>5. ASSUME NEW k \in Slots, WipeMembers(k) \/ FillMembers(k) PROVE Kept(c)'
    BY <1>2, <2>5 DEF WipeMembers, FillMembers, Finish, CommentOps
  <2>6. ASSUME NEW k \in Slots, RemoveAlbum(k) PROVE Kept(c)'
    <3> DEFINE f == [op |-> "drop", files |-> UNION {FilesOf(p, row[p]) : p \in Rows}]
    <3>1. Start(k, f) /\ f.op \notin CommentOps /\ UNCHANGED <<commentVars, overlap>>
      BY <2>6 DEF RemoveAlbum, CommentOps
    <3> HIDE DEF f
    <3> QED BY <1>2, <3>1
  <2> QED BY <1>5, <1>20, <2>1, <2>2, <2>3, <2>4, <2>5, <2>6 DEF AlbumNext
<1>21. CASE PhotosNext
  <2>1. ASSUME NEW k \in Slots, NEW u, NEW batch, Upload(k, u, batch) PROVE Kept(c)'
    BY <1>2, <2>1 DEF Upload, CommentOps
  <2>2. ASSUME NEW k \in Slots, NEW p, NEW thumbed, NEW saved, SavePhoto(k, p, thumbed, saved) PROVE Kept(c)'
    <3>1. flight[k] \in Uploads
      BY <1>0, <2>2, Kinds DEF SavePhoto
    <3> DEFINE f == [flight[k] EXCEPT !.todo = @ \ {p}, !.failed = @ \/ ~saved]
    <3>2. Go(k, f) /\ f.op = "upload" /\ UNCHANGED <<commentVars, overlap>>
      BY <2>2, <3>1 DEF SavePhoto, Uploads
    <3> HIDE DEF f
    <3> QED BY <1>2, <3>2 DEF CommentOps
  <2>3. ASSUME NEW k \in Slots, NEW u, NEW p, RemovePhoto(k, u, p) PROVE Kept(c)'
    BY <1>2, <2>3 DEF RemovePhoto, CommentOps
  <2>4. ASSUME NEW k \in Slots, CountUpload(k) \/ DiscountPhoto(k) PROVE Kept(c)'
    BY <1>2, <2>4 DEF CountUpload, DiscountPhoto, Finish, CommentOps
  <2> QED BY <1>6, <1>21, <2>1, <2>2, <2>3, <2>4 DEF PhotosNext
<1>22. CASE PartsNext
  <2>1. ASSUME NEW u, NEW i, UploadChunk(u, i) PROVE Kept(c)'
    BY <1>3, <2>1 DEF UploadChunk
  <2>2. CASE CleanupChunks
    BY <1>3, <2>2 DEF CleanupChunks
  <2>3. ASSUME NEW k \in Slots, NEW u, NEW p, NEW video, CompleteUpload(k, u, p, video) PROVE Kept(c)'
    BY <1>2, <2>3 DEF CompleteUpload, CommentOps
  <2>4. ASSUME NEW k \in Slots, NEW f, Go(k, f), f = Idle \/ f.op \in {"merged", "store", "count"},
               UNCHANGED <<commentVars, overlap>>
        PROVE  Kept(c)'
    BY <1>2, <2>4 DEF CommentOps
  <2>5. ASSUME NEW k \in Slots, MergeChunks(k) PROVE Kept(c)'
    <3>1. flight[k] \in Merges
      BY <1>0, <2>5, Kinds DEF MergeChunks
    <3>2. [flight[k] EXCEPT !.op = "merged"].op = "merged"
      BY <3>1 DEF Merges
    <3> QED BY <2>4, <2>5, <3>2 DEF MergeChunks, Finish
  <2>6. ASSUME NEW k \in Slots, PurgeChunks(k) PROVE Kept(c)'
    <3>1. flight[k] \in Merges
      BY <1>0, <2>6, Kinds DEF PurgeChunks
    <3>2. [flight[k] EXCEPT !.op = "store"].op = "store"
      BY <3>1 DEF Merges
    <3> QED BY <2>4, <2>6, <3>2 DEF PurgeChunks
  <2>7. ASSUME NEW k \in Slots, NEW thumbed, NEW saved, StoreMerged(k, thumbed, saved) PROVE Kept(c)'
    <3>1. flight[k] \in Merges
      BY <1>0, <2>7, Kinds DEF StoreMerged
    <3>2. [flight[k] EXCEPT !.op = "count"].op = "count"
      BY <3>1 DEF Merges
    <3> QED BY <2>4, <2>7, <3>2 DEF StoreMerged, Finish
  <2>8. ASSUME NEW k \in Slots, CountMerged(k) PROVE Kept(c)'
    BY <2>4, <2>8 DEF CountMerged, Finish
  <2>9. ASSUME NEW p, NEW ok, Encode(p, ok) PROVE Kept(c)'
    BY <1>3, <2>9 DEF Encode
  <2>10. ASSUME NEW p, NEW ok, Frame(p, ok) PROVE Kept(c)'
    BY <1>3, <2>10 DEF Frame
  <2>11. ASSUME NEW p, NEW ok, SwapVideo(p, ok) PROVE Kept(c)'
    BY <1>3, <2>11 DEF SwapVideo
  <2>12. ASSUME NEW p, UnlinkOriginal(p) PROVE Kept(c)'
    BY <1>3, <2>12 DEF UnlinkOriginal
  <2> QED BY <1>22, <2>1, <2>2, <2>3, <2>5, <2>6, <2>7, <2>8, <2>9, <2>10, <2>11, <2>12 DEF PartsNext
<1>23. CASE TokenNext
  <2>1. ASSUME NEW k \in Slots, Download(k) PROVE Kept(c)'
    <3>1. overlap \subseteq overlap'
      BY <2>1 DEF Download, Overlap
    <3> QED BY <1>2, <2>1, <3>1 DEF Download, CommentOps
  <2>2. ASSUME NEW k \in Slots, ServeArchive(k) PROVE Kept(c)'
    BY <1>2, <2>2 DEF ServeArchive, Finish, CommentOps
  <2>3. ASSUME NEW u, CreateToken(u) PROVE Kept(c)'
    BY <1>3, <2>3 DEF CreateToken
  <2>4. CASE ExpireToken
    BY <1>3, <2>4 DEF ExpireToken
  <2> QED BY <1>23, <2>1, <2>2, <2>3, <2>4 DEF TokenNext
<1>24. CASE CommentsNext
  BY <1>7, <1>8, <1>10, <1>11, <1>12, <1>13, <1>15, <1>16, <1>17, <1>18, <1>24 DEF CommentsNext
<1>25. CASE UNCHANGED memoryVars
  BY <1>3, <1>25 DEF memoryVars
<1> QED BY <1>19, <1>20, <1>21, <1>22, <1>23, <1>24, <1>25 DEF MemoriesNext

\* A comment keeps what was done to it: the translations kept with a comment on a photo are of
\* its text, and its reactions are the ones its users were last told, whatever else is under way,
\* unless two requests about the same text or the same reactions overlapped.
THEOREM CommentsKeepUpCorrect == MemoriesSpec => []CommentsKeepUp
<1>1. MemoriesInit => MemTypes /\ CommentsInv
  BY MemTypesInit, CommentsInit
<1>2. MemTypes /\ CommentsInv /\ [MemoriesNext]_memoryVars => (MemTypes /\ CommentsInv)'
  BY MemTypesStep, CommentsStep
<1>3. CommentsInv => CommentsKeepUp
  BY DEF CommentsInv, Kept, TextKept, ReactionsKept, CommentsKeepUp
<1> QED BY <1>1, <1>2, <1>3, PTL DEF MemoriesSpec

-----------------------------------------------------------------------------
(* The members and the download token.  Every list that is written holds   *)
(* the creator, so that a list of members is empty or right; the token is  *)
(* consumed after the album was found, by the only download under way.     *)

ListOps == {"wipe", "fill", "update"}

ListsRight ==
  /\ \A k \in Slots : flight[k].op \in ListOps => Creator \in flight[k].list
  /\ members = {} \/ Creator \in members
  /\ Live /\ "members" \notin torn /\ members = {} => Busy({"wipe", "fill"}) # {}
TokenOnce ==
  <<"token">> \notin overlap =>
    /\ \A k1, k2 \in Busy({"download"}) : k1 = k2
    /\ token # "spent" \/ Busy({"download"}) # {} => served = 0
    /\ served \in {0, 1}

LEMMA ListsInit == MemoriesInit => ListsRight /\ TokenOnce
BY DEF MemoriesInit, ListsRight, TokenOnce, ListOps, Busy, Live

LEMMA ListsStep ==
  ASSUME MemTypes, ListsRight, TokenOnce, [MemoriesNext]_memoryVars PROVE ListsRight' /\ TokenOnce'
<1> DEFINE Done == ListsRight' /\ TokenOnce'
           Held4 == {"wipe", "fill", "update", "download"}
<1>0. AlbumTypes /\ FlightTypes
  BY DEF MemTypes
\* Neither lists nor the token are touched.
<1>1. ASSUME UNCHANGED <<members, token, served>>, album'.state = album.state, overlap \subseteq overlap',
             torn \subseteq torn', "members" \in torn' => "members" \in torn,
             \A k \in Slots : flight'[k] = flight[k] \/ (flight[k].op \notin Held4 /\ flight'[k].op \notin Held4)
      PROVE  Done
  <2>1. \A ops \in SUBSET Held4 : Busy(ops)' = Busy(ops)
    BY <1>1 DEF Busy
  <2>2. {"download"} \in SUBSET Held4 /\ {"wipe", "fill"} \in SUBSET Held4
    OBVIOUS
  <2>3. ListsRight'
    BY <1>1, <2>1, <2>2 DEF ListsRight, ListOps, Live
  <2>4. TokenOnce'
    BY <1>1, <2>1, <2>2 DEF TokenOnce
  <2> QED BY <2>3, <2>4
<1>2. ASSUME NEW k \in Slots, NEW f, flight' = [flight EXCEPT ![k] = f],
             flight[k].op \notin Held4, f.op \notin Held4,
             UNCHANGED <<members, token, served>>, album'.state = album.state, overlap \subseteq overlap',
             torn' \in {torn, torn \cup {"count"}}
      PROVE  Done
  <2>1. \A j \in Slots : flight'[j] = IF j = k THEN f ELSE flight[j]
    BY <1>0, <1>2 DEF FlightTypes
  <2>2. \A j \in Slots : flight'[j] = flight[j] \/ (flight[j].op \notin Held4 /\ flight'[j].op \notin Held4)
    <3> SUFFICES ASSUME NEW j \in Slots, j = k
                 PROVE  flight[j].op \notin Held4 /\ flight'[j].op \notin Held4
      BY <2>1
    <3> HIDE DEF Held4
    <3> QED BY <1>2, <2>1
  <2>3. torn \subseteq torn' /\ ("members" \in torn' => "members" \in torn)
    BY <1>2
  <2>4. UNCHANGED <<members, token, served>> /\ album'.state = album.state /\ overlap \subseteq overlap'
    BY <1>2
  <2> HIDE DEF Done, Held4
  <2> QED BY <1>1, <2>2, <2>3, <2>4
<1>3. ASSUME UNCHANGED <<members, token, served, album, overlap, torn, flight>> PROVE Done
  BY <1>1, <1>3
\* A request that answers for lists moves on.
<1>4. ASSUME NEW k \in Slots, NEW f, flight' = [flight EXCEPT ![k] = f],
             f.op \in ListOps \cup {"idle"}, f.op # "idle" => Creator \in f.list,
             flight[k].op # "download", UNCHANGED <<token, served, overlap, torn>>,
             members' = {} \/ Creator \in members',
             Live' /\ "members" \notin torn /\ members' = {} =>
               f.op \in {"wipe", "fill"} \/ (flight[k].op \notin {"wipe", "fill"} /\ Live /\ members = {})
      PROVE  Done
  <2>1. \A j \in Slots : flight'[j] = IF j = k THEN f ELSE flight[j]
    BY <1>0, <1>4 DEF FlightTypes
  <2>2. Busy({"download"})' = Busy({"download"})
    BY <1>4, <2>1 DEF Busy, ListOps
  <2>3. TokenOnce'
    BY <1>4, <2>2 DEF TokenOnce
  <2>4. \A j \in Slots : flight'[j].op \in ListOps => Creator \in flight'[j].list
    BY <1>4, <2>1 DEF ListsRight, ListOps
  <2>5. Live' /\ "members" \notin torn /\ members' = {} => Busy({"wipe", "fill"})' # {}
    <3> SUFFICES ASSUME Live', "members" \notin torn, members' = {} PROVE Busy({"wipe", "fill"})' # {}
      OBVIOUS
    <3>1. CASE f.op \in {"wipe", "fill"}
      BY <2>1, <3>1 DEF Busy
    <3>2. CASE f.op \notin {"wipe", "fill"}
      <4>1. PICK j \in Busy({"wipe", "fill"}) : TRUE
        BY <1>4, <3>2 DEF ListsRight
      <4>2. j # k /\ flight[k].op \notin {"wipe", "fill"}
        BY <1>4, <3>2, <4>1 DEF Busy
      <4> QED BY <2>1, <4>1, <4>2 DEF Busy
    <3> QED BY <3>1, <3>2
  <2>6. torn' = torn
    BY <1>4
  <2>7. ListsRight'
    BY <1>4, <2>4, <2>5, <2>6 DEF ListsRight
  <2> QED BY <2>3, <2>7
<1> SUFFICES Done
  OBVIOUS
<1> HIDE DEF Held4, Done
<1>a. \A op : op \notin {"wipe", "fill", "update", "download"} => op \notin Held4
  BY DEF Held4
<1>5. ASSUME NEW k \in Slots, NEW f, Start(k, f), f.op \notin {"wipe", "fill", "update", "download"},
             UNCHANGED <<albumVars, tokenVars, torn>>, overlap \subseteq overlap'
      PROVE  Done
  <2>1. flight' = [flight EXCEPT ![k] = f] /\ flight[k].op = "idle" /\ UNCHANGED <<members, token, served>>
        /\ album'.state = album.state
    BY <1>5 DEF Start, albumVars, tokenVars
  <2> QED BY <1>2, <1>5, <1>a, <2>1
<1>6. ASSUME NEW k \in Slots, NEW f, Go(k, f), f.op \notin {"wipe", "fill", "update", "download"},
             flight[k].op \notin {"wipe", "fill", "update", "download"},
             UNCHANGED <<members, tokenVars, overlap>>, album'.state = album.state,
             torn' \in {torn, torn \cup {"count"}}
      PROVE  Done
  BY <1>2, <1>6, <1>a DEF Go, tokenVars
<1>7. ASSUME NEW k \in Slots, NEW private \in BOOLEAN, NEW list \in SUBSET Users, CreateAlbum(k, private, list)
      PROVE  Done
  <2> DEFINE f == [op |-> "wipe", list |-> Merged(list)]
  <2>1. /\ flight' = [flight EXCEPT ![k] = f] /\ flight[k].op = "idle"
        /\ UNCHANGED <<members, token, served, overlap, torn>>
    BY <1>7 DEF CreateAlbum, Go, tokenVars
  <2>2. f.op = "wipe" /\ Creator \in f.list
    BY DEF Merged
  <2> HIDE DEF f
  <2>3. members' = {} \/ Creator \in members'
    BY <2>1 DEF ListsRight
  <2>4. f.op \in ListOps \cup {"idle"} /\ f.op \in {"wipe", "fill"} /\ flight[k].op # "download"
    BY <2>1, <2>2 DEF ListOps
  <2> QED BY <1>4, <2>1, <2>2, <2>3, <2>4
<1>8. ASSUME NEW k \in Slots, NEW u, NEW list, UpdateMembers(k, u, list) PROVE Done
  <2> DEFINE f == [op |-> "wipe", list |-> Merged(list)]
  <2>1. /\ flight' = [flight EXCEPT ![k] = f] /\ flight[k].op = "idle"
        /\ UNCHANGED <<members, token, served, overlap, torn>>
    BY <1>8 DEF UpdateMembers, Start, tokenVars, albumVars
  <2>2. f.op = "wipe" /\ Creator \in f.list
    BY DEF Merged
  <2> HIDE DEF f
  <2>3. members' = {} \/ Creator \in members'
    BY <2>1 DEF ListsRight
  <2>4. f.op \in ListOps \cup {"idle"} /\ f.op \in {"wipe", "fill"} /\ flight[k].op # "download"
    BY <2>1, <2>2 DEF ListOps
  <2> QED BY <1>4, <2>1, <2>2, <2>3, <2>4
<1>9. ASSUME NEW k \in Slots, NEW private, NEW relist, NEW list, UpdateAlbum(k, private, relist, list)
      PROVE  Done
  <2> DEFINE f == [op |-> "update", private |-> private, relist |-> relist, list |-> Merged(list)]
  <2>1. /\ flight' = [flight EXCEPT ![k] = f] /\ flight[k].op = "idle"
        /\ UNCHANGED <<album, members, token, served, overlap, torn>>
    BY <1>9 DEF UpdateAlbum, Start, tokenVars, albumVars
  <2>2. f.op = "update" /\ Creator \in f.list
    BY DEF Merged
  <2> HIDE DEF f
  <2>3. members' = {} \/ Creator \in members'
    BY <2>1 DEF ListsRight
  <2>4. f.op \in ListOps \cup {"idle"} /\ flight[k].op # "download" /\ flight[k].op \notin {"wipe", "fill"}
        /\ (Live' => Live)
    BY <2>1, <2>2 DEF ListOps, Live
  <2> QED BY <1>4, <2>1, <2>2, <2>3, <2>4
<1>10. ASSUME NEW k \in Slots, WriteAlbum(k) PROVE Done
  <2> DEFINE f == IF flight[k].relist THEN [op |-> "wipe", list |-> flight[k].list] ELSE Idle
  <2>1. /\ flight' = [flight EXCEPT ![k] = f] /\ flight[k].op = "update"
        /\ UNCHANGED <<members, token, served, overlap, torn>>
    BY <1>10 DEF WriteAlbum, Go, tokenVars
  <2>2. Creator \in flight[k].list
    BY <2>1 DEF ListsRight, ListOps
  <2>3. f.op \in ListOps \cup {"idle"} /\ (f.op # "idle" => Creator \in f.list)
    BY <2>2 DEF ListOps
  <2> HIDE DEF f
  <2>4. Live' => Live
    BY <1>0, <1>10 DEF WriteAlbum, Live, AlbumTypes
  <2>5. members' = {} \/ Creator \in members'
    BY <2>1 DEF ListsRight
  <2>6. flight[k].op # "download" /\ flight[k].op \notin {"wipe", "fill"}
    BY <2>1
  <2> QED BY <1>4, <2>1, <2>3, <2>4, <2>5, <2>6
<1>11. ASSUME NEW k \in Slots, WipeMembers(k) PROVE Done
  <2> DEFINE f == [op |-> "fill", list |-> flight[k].list]
  <2>1. /\ flight' = [flight EXCEPT ![k] = f] /\ flight[k].op = "wipe" /\ members' = {}
        /\ UNCHANGED <<token, served, overlap, torn>>
    BY <1>11 DEF WipeMembers, Go, tokenVars
  <2>2. Creator \in flight[k].list
    BY <2>1 DEF ListsRight, ListOps
  <2>3. f.op = "fill" /\ Creator \in f.list
    BY <2>2
  <2> HIDE DEF f
  <2>4. f.op \in ListOps \cup {"idle"} /\ f.op \in {"wipe", "fill"} /\ flight[k].op # "download"
    BY <2>1, <2>3 DEF ListOps
  <2> QED BY <1>4, <2>1, <2>3, <2>4
<1>12. ASSUME NEW k \in Slots, FillMembers(k) PROVE Done
  <2>1. /\ flight' = [flight EXCEPT ![k] = Idle] /\ flight[k].op = "fill" /\ album' = album
        /\ UNCHANGED <<token, served, overlap, torn>>
        /\ members' = IF CanFill(flight[k].list) THEN members \cup flight[k].list ELSE members
    BY <1>12 DEF FillMembers, Finish, Go, tokenVars
  <2>2. Creator \in flight[k].list
    BY <2>1 DEF ListsRight, ListOps
  <2>3. Creator \in members' \/ (members' = members /\ (Live => members # {}))
    BY <2>1, <2>2 DEF CanFill
  <2>4. members' = {} \/ Creator \in members'
    BY <2>3 DEF ListsRight
  <2>5. ~(Live' /\ members' = {})
    BY <2>1, <2>3 DEF Live
  <2>6. Idle.op \in ListOps \cup {"idle"} /\ Idle.op = "idle" /\ flight[k].op # "download"
    BY <2>1
  <2> QED BY <1>4, <2>1, <2>4, <2>5, <2>6
<1>13. ASSUME NEW k \in Slots, DropAlbum(k) PROVE Done
  <2>1. /\ flight' = [flight EXCEPT ![k] = Idle] /\ flight[k].op = "drop" /\ members' = {} /\ ~Live'
        /\ UNCHANGED <<token, served, overlap, torn>>
    BY <1>0, <1>13 DEF DropAlbum, Finish, Go, tokenVars, Live, AlbumTypes
  <2>2. Idle.op \in ListOps \cup {"idle"} /\ Idle.op = "idle" /\ flight[k].op # "download"
    BY <2>1
  <2> QED BY <1>4, <2>1, <2>2
<1>14. ASSUME NEW k \in Slots, RemoveAlbum(k) PROVE Done
  <2> DEFINE f == [op |-> "drop", files |-> UNION {FilesOf(p, row[p]) : p \in Rows}]
  <2>1. flight' = [flight EXCEPT ![k] = f] /\ flight[k].op = "idle" /\ f.op = "drop"
        /\ UNCHANGED <<members, token, served, torn, overlap>> /\ album'.state = album.state
    BY <1>14 DEF RemoveAlbum, Start, albumVars, tokenVars
  <2> HIDE DEF f
  <2>2. f.op \notin Held4 /\ flight[k].op \notin Held4 /\ torn' \in {torn, torn \cup {"count"}}
        /\ overlap \subseteq overlap'
    BY <1>a, <2>1
  <2> QED BY <1>2, <2>1, <2>2
<1>15. CASE AlbumNext
  BY <1>7, <1>8, <1>9, <1>10, <1>11, <1>12, <1>13, <1>14, <1>15 DEF AlbumNext
<1>16. CASE PhotosNext
  <2>1. ASSUME NEW k \in Slots, NEW u, NEW batch, Upload(k, u, batch) PROVE Done
    BY <1>5, <2>1 DEF Upload
  <2>2. ASSUME NEW k \in Slots, NEW p, NEW thumbed, NEW saved, SavePhoto(k, p, thumbed, saved) PROVE Done
    <3>1. flight[k] \in Uploads /\ flight[k].op = "upload"
      BY <1>0, <2>2, Kinds DEF SavePhoto
    <3> DEFINE f == [flight[k] EXCEPT !.todo = @ \ {p}, !.failed = @ \/ ~saved]
    <3>2. /\ Go(k, f) /\ f.op = "upload" /\ UNCHANGED <<album, members, tokenVars, overlap>>
          /\ torn' \in {torn, torn \cup {"count"}}
      BY <2>2, <3>1 DEF SavePhoto, Uploads, albumVars, Miscount
    <3> HIDE DEF f
    <3> QED BY <1>6, <3>1, <3>2
  <2>3. ASSUME NEW k \in Slots, NEW u, NEW p, RemovePhoto(k, u, p) PROVE Done
    BY <1>5, <2>3 DEF RemovePhoto
  <2>4. ASSUME NEW k \in Slots, CountUpload(k) PROVE Done
    <3>1. album'.state = album.state
      BY <1>0, <2>4 DEF CountUpload, Counted, AlbumTypes
    <3> QED BY <1>6, <2>4, <3>1 DEF CountUpload, Finish
  <2>5. ASSUME NEW k \in Slots, DiscountPhoto(k) PROVE Done
    <3>1. album'.state = album.state
      BY <1>0, <2>5 DEF DiscountPhoto, AlbumTypes
    <3> QED BY <1>6, <2>5, <3>1 DEF DiscountPhoto, Finish, Miscount
  <2>6. ASSUME NEW k \in Slots, DeletePhoto(k) PROVE Done
    BY <1>6, <2>6 DEF DeletePhoto, Miscount, albumVars
  <2> QED BY <1>16, <2>1, <2>2, <2>3, <2>4, <2>5, <2>6 DEF PhotosNext
<1>17. CASE PartsNext
  <2>1. ASSUME NEW u, NEW i, UploadChunk(u, i) PROVE Done
    BY <1>3, <2>1 DEF UploadChunk, albumVars, tokenVars
  <2>2. CASE CleanupChunks
    BY <1>3, <2>2 DEF CleanupChunks, albumVars, tokenVars
  <2>3. ASSUME NEW k \in Slots, NEW u, NEW p, NEW video, CompleteUpload(k, u, p, video) PROVE Done
    BY <1>5, <2>3 DEF CompleteUpload
  <2>4. ASSUME NEW k \in Slots, NEW f, Go(k, f), f = Idle \/ f.op \in {"merged", "store", "count"},
               flight[k].op \in {"merge", "merged", "store", "count"},
               UNCHANGED <<members, tokenVars, overlap, torn>>, album'.state = album.state
        PROVE  Done
    BY <1>6, <2>4
  <2>5. ASSUME NEW k \in Slots, MergeChunks(k) PROVE Done
    <3>1. flight[k] \in Merges
      BY <1>0, <2>5, Kinds DEF MergeChunks
    <3>2. [flight[k] EXCEPT !.op = "merged"].op = "merged"
      BY <3>1 DEF Merges
    <3> QED BY <2>4, <2>5, <3>2 DEF MergeChunks, Finish, albumVars
  <2>6. ASSUME NEW k \in Slots, PurgeChunks(k) PROVE Done
    <3>1. flight[k] \in Merges
      BY <1>0, <2>6, Kinds DEF PurgeChunks
    <3>2. [flight[k] EXCEPT !.op = "store"].op = "store"
      BY <3>1 DEF Merges
    <3> QED BY <2>4, <2>6, <3>2 DEF PurgeChunks, albumVars
  <2>7. ASSUME NEW k \in Slots, NEW thumbed, NEW saved, StoreMerged(k, thumbed, saved) PROVE Done
    <3>1. flight[k] \in Merges
      BY <1>0, <2>7, Kinds DEF StoreMerged
    <3>2. [flight[k] EXCEPT !.op = "count"].op = "count"
      BY <3>1 DEF Merges
    <3> QED BY <2>4, <2>7, <3>2 DEF StoreMerged, Finish, albumVars
  <2>8. ASSUME NEW k \in Slots, CountMerged(k) PROVE Done
    <3>1. album'.state = album.state
      BY <1>0, <2>8 DEF CountMerged, Counted, AlbumTypes
    <3> QED BY <2>4, <2>8, <3>1 DEF CountMerged, Finish
  <2>9. ASSUME NEW p, NEW ok, Encode(p, ok) PROVE Done
    BY <1>3, <2>9 DEF Encode, albumVars, tokenVars
  <2>10. ASSUME NEW p, NEW ok, Frame(p, ok) PROVE Done
    BY <1>3, <2>10 DEF Frame, albumVars, tokenVars
  <2>11. ASSUME NEW p, NEW ok, SwapVideo(p, ok) PROVE Done
    BY <1>3, <2>11 DEF SwapVideo, albumVars, tokenVars
  <2>12. ASSUME NEW p, UnlinkOriginal(p) PROVE Done
    BY <1>3, <2>12 DEF UnlinkOriginal, albumVars, tokenVars
  <2> QED BY <1>17, <2>1, <2>2, <2>3, <2>5, <2>6, <2>7, <2>8, <2>9, <2>10, <2>11, <2>12 DEF PartsNext
<1>18. CASE CommentsNext
  <2>1. ASSUME NEW k \in Slots, NEW u, NEW c, NEW t, EditComment(k, u, c, t) PROVE Done
    BY <1>5, <2>1 DEF EditComment, Overlap
  <2>2. ASSUME NEW k \in Slots, NEW u, NEW c, NEW p, NEW t, AddComment(k, u, c, p, t) PROVE Done
    BY <1>5, <2>2 DEF AddComment
  <2>3. ASSUME NEW k \in Slots, NEW u, NEW c, RemoveComment(k, u, c) PROVE Done
    BY <1>5, <2>3 DEF RemoveComment
  <2>4. ASSUME NEW k \in Slots, NEW u, NEW c, Translate(k, u, c) PROVE Done
    BY <1>5, <2>4 DEF Translate, Overlap
  <2>5. ASSUME NEW k \in Slots, NEW u, NEW c, NEW x, ToggleReaction(k, u, c, x) PROVE Done
    BY <1>5, <2>5 DEF ToggleReaction, Overlap
  <2>6. ASSUME NEW k \in Slots, Finish(k), UNCHANGED <<album, members, tokenVars, overlap, torn>>,
               flight[k].op \in {"comment", "edit", "uncomment", "react", "translate"}
        PROVE  Done
    BY <1>6, <2>6 DEF Finish
  <2>7. ASSUME NEW k \in Slots, SaveComment(k) \/ WriteEdit(k) \/ DeleteComment(k) \/ WriteReactions(k)
        PROVE  Done
    BY <2>6, <2>7 DEF SaveComment, WriteEdit, DeleteComment, WriteReactions, albumVars
  <2>8. ASSUME NEW k \in Slots, NEW ok, WriteTranslation(k, ok) PROVE Done
    BY <2>6, <2>8 DEF WriteTranslation, albumVars
  <2> QED BY <1>18, <2>1, <2>2, <2>3, <2>4, <2>5, <2>7, <2>8 DEF CommentsNext
<1>19. CASE TokenNext
  <2>1. ASSUME UNCHANGED <<albumVars, torn>>,
               \A k \in Slots : flight'[k] = flight[k]
                                  \/ (flight[k].op \in {"idle", "download"} /\ flight'[k].op \in {"idle", "download"})
        PROVE  ListsRight'
    <3>1. Busy({"wipe", "fill"})' = Busy({"wipe", "fill"})
      BY <2>1 DEF Busy
    <3> QED BY <2>1, <3>1 DEF ListsRight, ListOps, Live, albumVars
  <2>2. ASSUME NEW u, CreateToken(u) PROVE Done
    <3>1. UNCHANGED <<albumVars, torn, flight, overlap, served>> /\ token = None
      BY <2>2 DEF CreateToken
    <3>2. ListsRight'
      BY <2>1, <3>1
    <3>3. Busy({"download"})' = Busy({"download"})
      BY <3>1 DEF Busy
    <3>4. TokenOnce'
      BY <3>1, <3>3 DEF TokenOnce
    <3> QED BY <3>2, <3>4 DEF Done
  <2>3. CASE ExpireToken
    <3>1. UNCHANGED <<albumVars, torn, flight, overlap, served>> /\ token = "issued" /\ token' = "spent"
      BY <2>3 DEF ExpireToken
    <3>2. ListsRight'
      BY <2>1, <3>1
    <3>3. Busy({"download"})' = Busy({"download"})
      BY <3>1 DEF Busy
    <3>4. TokenOnce'
      BY <3>1, <3>3 DEF TokenOnce
    <3> QED BY <3>2, <3>4 DEF Done
  <2>4. ASSUME NEW k \in Slots, Download(k) PROVE Done
    <3>1. /\ flight' = [flight EXCEPT ![k] = [op |-> "download", of |-> "token"]] /\ flight[k].op = "idle"
          /\ UNCHANGED <<albumVars, torn, token, served>> /\ token = "issued"
          /\ overlap' = (IF \E j \in Busy({"download"}) : flight[j].of = "token"
                         THEN overlap \cup {<<"token">>} ELSE overlap)
      BY <2>4 DEF Download, Start, Overlap, tokenVars
    <3>2. \A j \in Slots : flight'[j] = IF j = k THEN [op |-> "download", of |-> "token"] ELSE flight[j]
      BY <1>0, <3>1 DEF FlightTypes
    <3>3. ListsRight'
      BY <2>1, <3>1, <3>2
    <3>4. Busy({"download"})' = Busy({"download"}) \cup {k}
      BY <3>2 DEF Busy
    <3>5. \A j \in Busy({"download"}) : flight[j].of = "token"
      <4>1. \A j \in Slots : flight[j] \in Flight
        BY <1>0 DEF FlightTypes
      <4> QED BY <4>1 DEF Busy, Flight, AlbumFlight, PhotoFlight, CommentFlight, Members, Update, Drops,
             Uploads, Removals, Merges, AddedComments, Edits, Deletions, Toggles, Translations
    <3>6. <<"token">> \notin overlap' => <<"token">> \notin overlap /\ Busy({"download"}) = {}
      BY <3>1, <3>5
    <3>7. TokenOnce'
      BY <3>1, <3>4, <3>6 DEF TokenOnce
    <3> QED BY <3>3, <3>7 DEF Done
  <2>5. ASSUME NEW k \in Slots, ServeArchive(k) PROVE Done
    <3>1. /\ flight' = [flight EXCEPT ![k] = Idle] /\ flight[k].op = "download"
          /\ UNCHANGED <<albumVars, torn, overlap>>
          /\ (token' = "spent" /\ served' = served + 1) \/ UNCHANGED <<token, served>>
      BY <2>5 DEF ServeArchive, Finish, Go, tokenVars, Consumed
    <3>2. \A j \in Slots : flight'[j] = IF j = k THEN Idle ELSE flight[j]
      BY <1>0, <3>1 DEF FlightTypes
    <3>3. ListsRight'
      BY <2>1, <3>1, <3>2
    <3>4. Busy({"download"})' = Busy({"download"}) \ {k} /\ k \in Busy({"download"})
      BY <3>1, <3>2 DEF Busy
    <3>5. TokenOnce'
      BY <3>1, <3>4 DEF TokenOnce
    <3> QED BY <3>3, <3>5 DEF Done
  <2> QED BY <1>19, <2>2, <2>3, <2>4, <2>5 DEF TokenNext
<1>20. CASE Restart
  <2>1. /\ flight' = [k \in Slots |-> Idle] /\ UNCHANGED <<album, members, overlap>>
        /\ torn \subseteq torn' /\ token' = None /\ served' = 0
        /\ "members" \notin torn' => Busy({"wipe", "fill"}) = {}
    BY <1>20 DEF Restart, albumVars
  <2>2. Busy({"download"})' = {} /\ \A k \in Slots : flight'[k].op = "idle"
    BY <2>1 DEF Busy
  <2>3. ListsRight'
    BY <2>1, <2>2 DEF ListsRight, ListOps, Live
  <2>4. TokenOnce'
    BY <2>1, <2>2 DEF TokenOnce
  <2> QED BY <2>3, <2>4 DEF Done
<1>21. CASE UNCHANGED memoryVars
  BY <1>3, <1>21 DEF memoryVars, albumVars, tokenVars
<1> QED BY <1>15, <1>16, <1>17, <1>18, <1>19, <1>20, <1>21 DEF MemoriesNext

\* However replacements of the members overlapped, the creator is one of them once none is under
\* way and none was cut short (setAlbumMembers: DELETE, then INSERT of a list with the creator).
THEOREM CreatorStaysMember == MemoriesSpec => []CreatorIsMember
<1>1. MemoriesInit => MemTypes /\ ListsRight /\ TokenOnce
  BY MemTypesInit, ListsInit
<1>2. MemTypes /\ ListsRight /\ TokenOnce /\ [MemoriesNext]_memoryVars => (MemTypes /\ ListsRight /\ TokenOnce)'
  BY MemTypesStep, ListsStep
<1>3. ListsRight => CreatorIsMember
  BY DEF ListsRight, CreatorIsMember, Busy
<1> QED BY <1>1, <1>2, <1>3, PTL DEF MemoriesSpec

\* A download token serves one archive, unless a download began before another one had ended
\* (downloadAlbum consumes the token only after it awaited the album).
THEOREM TokenServesOnceCorrect == MemoriesSpec => []TokenServesOnce
<1>1. MemoriesInit => MemTypes /\ ListsRight /\ TokenOnce
  BY MemTypesInit, ListsInit
<1>2. MemTypes /\ ListsRight /\ TokenOnce /\ [MemoriesNext]_memoryVars => (MemTypes /\ ListsRight /\ TokenOnce)'
  BY MemTypesStep, ListsStep
<1>3. TokenOnce => TokenServesOnce
  BY DEF TokenOnce, TokenServesOnce
<1> QED BY <1>1, <1>2, <1>3, PTL DEF MemoriesSpec
=============================================================================
