------------------------------ MODULE Memories ------------------------------
(***************************************************************************)
(* An album of the memories service (memories.service.ts): its members,    *)
(* its photos and their files on disk, the transcoding of videos, the      *)
(* download token and the comments.  A step is one database statement with *)
(* the synchronous code that follows it; a request is suspended between    *)
(* two of its statements.  Texts, languages and pixels are abstract: a     *)
(* translation is the text it translates, a file is its photo and part.    *)
(***************************************************************************)
EXTENDS Naturals, FiniteSets

CONSTANTS
  Users,
  Creator,        \* who made the album
  Photos,         \* photos that may be stored, each under a name of its own
  PhotoComments,  \* comments that may be made on photos
  AlbumComments,  \* comments that may be made on the album
  Texts,
  Types,          \* types of reaction
  Chunks,         \* chunks of the upload in parts
  Slots,          \* requests that may overlap
  MaxRequests     \* bound on the requests

ASSUME MemoriesAssumption ==
  /\ Creator \in Users
  /\ IsFiniteSet(Photos) /\ IsFiniteSet(Slots)
  /\ PhotoComments \cap AlbumComments = {}
  /\ MaxRequests \in Nat

Comments == PhotoComments \cup AlbumComments
None == "none"
Idle == [op |-> "idle"]

\* A row of memory_photos: which of the photo's files its two urls name.
Parts == {"file", "thumb", "tc", "tcthumb"}
PhotoRow == [url: {"file", "tc"}, thumb: {"file", "thumb", "tcthumb"}, by: Users]
NoRow == [url |-> None]

\* A row of memory_comments or memory_album_comments; on: the photo, if any.
Comment ==
  [on: Photos \cup {None}, by: Users, text: Texts, trans: Texts \cup {None},
   reactions: [Users -> Types \cup {None}]]
NoComment == [on |-> None, text |-> None]

VARIABLES
  album,     \* the row of memory_albums: its state, privacy and photoCount
  members,   \* rows of memory_album_members
  row,       \* rows of memory_photos
  named,     \* photos whose name was given
  disk,      \* files under uploads/memories
  temp,      \* chunks under uploads/temp
  job,       \* transcoding of each video, in memory
  token,     \* the download token, in memory
  served,    \* history: archives served for the token
  comment,   \* rows of the comments
  told,      \* history: what each user was last told of his reaction
  flight,    \* requests suspended at an await
  torn,      \* history: "count" was missed, doubled or floored, "members" cut short
  overlap,   \* history: objects two of whose requests overlapped
  created,   \* comments already made
  requests   \* number of requests, for the bound

albumVars == <<album, members>>
photoVars == <<row, named, disk, temp, job>>
tokenVars == <<token, served>>
commentVars == <<comment, told, created>>
memoryVars ==
  <<albumVars, photoVars, tokenVars, commentVars, flight, torn, overlap, requests>>

Live == album.state = "live"
HasRow(p) == row[p] # NoRow
Rows == {p \in Photos : HasRow(p)}
HasComment(c) == comment[c] # NoComment
FilesOf(p, r) == {<<p, r.url>>, <<p, r.thumb>>}

\* assertAlbumAccess, after the album was found.
Access(u) == Live /\ (~album.private \/ u = Creator \/ u \in members)

NewRow(u, thumbed) ==
  [url |-> "file", thumb |-> IF thumbed THEN "thumb" ELSE "file", by |-> u]

\* The service starts over an empty database, or over an album with a photo or none.
MemoriesInit ==
  /\ album \in [state: {"none", "live"}, private: {FALSE}, count: {0, 1}]
  /\ members = IF Live THEN {Creator} ELSE {}
  /\ named \in {ps \in SUBSET Photos : Cardinality(ps) = album.count}
  /\ named # {} => Live
  /\ row = [p \in Photos |-> IF p \in named THEN NewRow(Creator, TRUE) ELSE NoRow]
  /\ disk = named \X {"file", "thumb"}
  /\ temp = {}
  /\ job = [p \in Photos |-> None]
  /\ token = None /\ served = 0
  /\ comment = [c \in Comments |-> NoComment]
  /\ told = [c \in Comments |-> [u \in Users |-> None]]
  /\ flight = [k \in Slots |-> Idle]
  /\ torn = {} /\ overlap = {} /\ created = {} /\ requests = 0

Ask == requests < MaxRequests /\ requests' = requests + 1
Start(k, f) == Ask /\ flight[k] = Idle /\ flight' = [flight EXCEPT ![k] = f]
Go(k, f) == flight' = [flight EXCEPT ![k] = f] /\ UNCHANGED requests
Finish(k) == Go(k, Idle)
Busy(ops) == {k \in Slots : flight[k].op \in ops}

Miscount(cond) == torn' = IF cond THEN torn \cup {"count"} ELSE torn

\* Requests about x that are already under way when another one starts.
Overlap(x, ops, mark) ==
  overlap' = IF \E k \in Busy(ops) : flight[k].of = x THEN overlap \cup {mark} ELSE overlap

----------------------------------------------------------------------------
(* The album and its members: a list is replaced by DELETE, then INSERT.   *)

\* The creator stays a member whatever list is given.
Merged(list) == list \cup {Creator}

\* create
CreateAlbum(k, private, list) ==
  /\ album.state = "none"
  /\ flight[k] = Idle
  /\ album' = [album EXCEPT !.state = "live", !.private = private]
  /\ Go(k, [op |-> "wipe", list |-> Merged(list)])
  /\ UNCHANGED <<members, photoVars, tokenVars, commentVars, torn, overlap>>

\* updateMembers: anyone with access
UpdateMembers(k, u, list) ==
  /\ Access(u)
  /\ Start(k, [op |-> "wipe", list |-> Merged(list)])
  /\ UNCHANGED <<albumVars, photoVars, tokenVars, commentVars, torn, overlap>>

\* update: by the creator, members included only when relist
UpdateAlbum(k, private, relist, list) ==
  /\ Live
  /\ relist \/ list = {}
  /\ Start(k, [op |-> "update", private |-> private, relist |-> relist,
               list |-> Merged(list)])
  /\ UNCHANGED <<albumVars, photoVars, tokenVars, commentVars, torn, overlap>>

WriteAlbum(k) ==
  LET f == flight[k] IN
  /\ f.op = "update"
  /\ album' = IF Live THEN [album EXCEPT !.private = f.private] ELSE album
  /\ Go(k, IF f.relist THEN [op |-> "wipe", list |-> f.list] ELSE Idle)
  /\ UNCHANGED <<members, photoVars, tokenVars, commentVars, torn, overlap>>

\* setAlbumMembers
WipeMembers(k) ==
  /\ flight[k].op = "wipe"
  /\ members' = {}
  /\ Go(k, [op |-> "fill", list |-> flight[k].list])
  /\ UNCHANGED <<album, photoVars, tokenVars, commentVars, torn, overlap>>

\* One INSERT: refused as a whole when the album is gone or a member is there.
CanFill(list) == Live /\ list \cap members = {}

FillMembers(k) ==
  /\ flight[k].op = "fill"
  /\ members' = IF CanFill(flight[k].list) THEN members \cup flight[k].list ELSE members
  /\ Finish(k)
  /\ UNCHANGED <<album, photoVars, tokenVars, commentVars, torn, overlap>>

\* The comments left once these photos are deleted.
WithoutPhotos(ps) ==
  [c \in Comments |->
    IF HasComment(c) /\ comment[c].on \in ps THEN NoComment ELSE comment[c]]

\* remove: the photos are listed, the album is deleted with its rows, then files
RemoveAlbum(k) ==
  /\ Live
  /\ Start(k, [op |-> "drop", files |-> UNION {FilesOf(p, row[p]) : p \in Rows}])
  /\ UNCHANGED <<albumVars, photoVars, tokenVars, commentVars, torn, overlap>>

DropAlbum(k) ==
  /\ flight[k].op = "drop"
  /\ album' = [album EXCEPT !.state = "gone"]
  /\ members' = {}
  /\ row' = [p \in Photos |-> NoRow]
  /\ comment' = WithoutPhotos(Photos)
  /\ disk' = disk \ flight[k].files
  /\ Finish(k)
  /\ UNCHANGED <<named, temp, job, tokenVars, told, created, torn, overlap>>

----------------------------------------------------------------------------
(* Photos.                                                                 *)

\* uploadPhotos: each file is stored, given a thumbnail when that succeeds, and
\* saved; the count grows once all are saved.
Upload(k, u, batch) ==
  /\ Access(u)
  /\ batch # {} /\ batch \cap named = {}
  /\ Start(k, [op |-> "upload", by |-> u, todo |-> batch, size |-> Cardinality(batch),
               failed |-> FALSE])
  /\ named' = named \cup batch
  /\ disk' = disk \cup {<<p, "file">> : p \in batch}
  /\ UNCHANGED <<albumVars, row, temp, job, tokenVars, commentVars, torn, overlap>>

\* A row needs its album; saving it may fail for other reasons too.
SavePhoto(k, p, thumbed, saved) ==
  LET f == flight[k] IN
  /\ f.op = "upload" /\ p \in f.todo
  /\ saved => Live
  /\ disk' = IF thumbed THEN disk \cup {<<p, "thumb">>} ELSE disk
  /\ row' = IF saved THEN [row EXCEPT ![p] = NewRow(f.by, thumbed)] ELSE row
  /\ Go(k, [f EXCEPT !.todo = @ \ {p}, !.failed = @ \/ ~saved])
  /\ Miscount(f.size > 1 /\ (f.failed \/ ~saved))
  /\ UNCHANGED <<albumVars, named, temp, job, tokenVars, commentVars, overlap>>

\* The statement of the count: photo_count + n, evaluated by the database.
CountedOne(n) == IF Live THEN [album EXCEPT !.count = @ + 1] ELSE album
Counted(n) == IF Live THEN [album EXCEPT !.count = @ + n] ELSE album

CountUpload(k) ==
  LET f == flight[k] IN
  /\ f.op = "upload" /\ f.todo = {}
  /\ album' = IF f.failed THEN album ELSE Counted(f.size)
  /\ Finish(k)
  /\ UNCHANGED <<members, photoVars, tokenVars, commentVars, torn, overlap>>

\* removePhoto: by its uploader or the creator of the album
RemovePhoto(k, u, p) ==
  /\ HasRow(p)
  /\ u \in {row[p].by, Creator}
  /\ Start(k, [op |-> "remove", of |-> p, files |-> FilesOf(p, row[p])])
  /\ UNCHANGED <<albumVars, photoVars, tokenVars, commentVars, torn, overlap>>

DeletePhoto(k) ==
  LET f == flight[k] IN
  /\ f.op = "remove"
  /\ row' = [row EXCEPT ![f.of] = NoRow]
  /\ comment' = WithoutPhotos({f.of})
  /\ disk' = disk \ f.files
  /\ Go(k, [op |-> "discount"])
  /\ Miscount(~HasRow(f.of))
  /\ UNCHANGED <<albumVars, named, temp, job, tokenVars, told, created, overlap>>

\* CASE WHEN photo_count > 0 THEN photo_count - 1 ELSE 0 END
DiscountPhoto(k) ==
  /\ flight[k].op = "discount"
  /\ album' = IF Live /\ album.count > 0 THEN [album EXCEPT !.count = @ - 1] ELSE album
  /\ Miscount(album.count = 0)
  /\ Finish(k)
  /\ UNCHANGED <<members, photoVars, tokenVars, commentVars, overlap>>

----------------------------------------------------------------------------
(* The upload in parts, and the transcoding of a video.                    *)

\* uploadChunk
UploadChunk(u, i) ==
  /\ Access(u) /\ Ask
  /\ i \notin temp
  /\ temp' = temp \cup {i}
  /\ UNCHANGED <<albumVars, row, named, disk, job, tokenVars, commentVars, flight,
                 torn, overlap>>

\* cleanupExpiredTempChunks: the directory is older than a day
CleanupChunks ==
  /\ temp # {}
  /\ temp' = {}
  /\ UNCHANGED <<albumVars, row, named, disk, job, tokenVars, commentVars, flight,
                 torn, overlap, requests>>

\* completeChunkUpload: refused while a chunk is missing
CompleteUpload(k, u, p, video) ==
  /\ Access(u)
  /\ temp = Chunks
  /\ p \notin named
  /\ Start(k, [op |-> "merge", of |-> p, by |-> u, video |-> video])
  /\ named' = named \cup {p}
  /\ disk' = disk \cup {<<p, "file">>}
  /\ UNCHANGED <<albumVars, row, temp, job, tokenVars, commentVars, torn, overlap>>

\* The chunks are read one after the other; one that has gone breaks the merge off.
MergeChunks(k) ==
  LET f == flight[k] IN
  /\ f.op = "merge"
  /\ IF temp = Chunks THEN Go(k, [f EXCEPT !.op = "merged"]) ELSE Finish(k)
  /\ UNCHANGED <<albumVars, photoVars, tokenVars, commentVars, torn, overlap>>

PurgeChunks(k) ==
  /\ flight[k].op = "merged"
  /\ temp' = {}
  /\ Go(k, [flight[k] EXCEPT !.op = "store"])
  /\ UNCHANGED <<albumVars, row, named, disk, job, tokenVars, commentVars, torn, overlap>>

StoreMerged(k, thumbed, saved) ==
  LET f == flight[k] IN
  /\ f.op = "store"
  /\ saved => Live
  /\ disk' = IF thumbed THEN disk \cup {<<f.of, "thumb">>} ELSE disk
  /\ row' = IF saved THEN [row EXCEPT ![f.of] = NewRow(f.by, thumbed)] ELSE row
  /\ IF saved THEN Go(k, [f EXCEPT !.op = "count"]) ELSE Finish(k)
  /\ UNCHANGED <<albumVars, named, temp, job, tokenVars, commentVars, torn, overlap>>

CountMerged(k) ==
  LET f == flight[k] IN
  /\ f.op = "count"
  /\ album' = Counted(1)
  /\ job' = IF f.video THEN [job EXCEPT ![f.of] = "encoding"] ELSE job
  /\ Finish(k)
  /\ UNCHANGED <<members, row, named, disk, temp, tokenVars, commentVars, torn, overlap>>

\* transcodeVideoAsync: ffmpeg ends, well or not; its output takes its final name
Encode(p, ok) ==
  /\ job[p] = "encoding"
  /\ job' = [job EXCEPT ![p] = IF ok THEN "encoded" ELSE None]
  /\ disk' = IF ok THEN disk \cup {<<p, "tc">>} ELSE disk
  /\ UNCHANGED <<albumVars, row, named, temp, tokenVars, commentVars, flight, torn,
                 overlap, requests>>

\* generateVideoThumbnail, of the new file
Frame(p, ok) ==
  /\ job[p] = "encoded"
  /\ job' = [job EXCEPT ![p] = IF ok THEN "framed" ELSE "frameless"]
  /\ disk' = IF ok THEN disk \cup {<<p, "tcthumb">>} ELSE disk
  /\ UNCHANGED <<albumVars, row, named, temp, tokenVars, commentVars, flight, torn,
                 overlap, requests>>

\* The row gets the new url, and the new thumbnail when there is one ...
SwapVideo(p, ok) ==
  /\ job[p] \in {"framed", "frameless"}
  /\ row' = IF ~ok \/ ~HasRow(p) THEN row
            ELSE [row EXCEPT ![p] =
              [url |-> "tc", by |-> @.by,
               thumb |-> IF job[p] = "framed" THEN "tcthumb" ELSE @.thumb]]
  /\ job' = [job EXCEPT ![p] = IF ok THEN "swapped" ELSE None]
  /\ UNCHANGED <<albumVars, named, disk, temp, tokenVars, commentVars, flight, torn,
                 overlap, requests>>

\* ... and only then the original goes.
UnlinkableEarly == {"framed", "frameless", "swapped"}
Unlinkable == {"swapped"}

UnlinkOriginal(p) ==
  /\ job[p] \in Unlinkable
  /\ disk' = disk \ {<<p, "file">>}
  /\ job' = [job EXCEPT ![p] = IF @ = "swapped" THEN None ELSE @]
  /\ UNCHANGED <<albumVars, row, named, temp, tokenVars, commentVars, flight, torn,
                 overlap, requests>>

----------------------------------------------------------------------------
(* The download token: for one archive, within five minutes.               *)

\* createDownloadToken: by the creator or a member, not of a private album
CreateToken(u) ==
  /\ Live /\ ~album.private
  /\ u = Creator \/ u \in members
  /\ token = None
  /\ Ask
  /\ token' = "issued"
  /\ UNCHANGED <<albumVars, photoVars, served, commentVars, flight, torn, overlap>>

\* Five minutes pass.
ExpireToken ==
  /\ token = "issued"
  /\ token' = "spent"
  /\ UNCHANGED <<albumVars, photoVars, served, commentVars, flight, torn, overlap,
                 requests>>

\* downloadAlbum: the token is checked, then the album is found ...
Download(k) ==
  /\ token = "issued"
  /\ Start(k, [op |-> "download", of |-> "token"])
  /\ Overlap("token", {"download"}, <<"token">>)
  /\ UNCHANGED <<albumVars, photoVars, tokenVars, commentVars, torn>>

\* ... and the token is consumed unless the album is gone or private.
Consumed == "spent"

ServeArchive(k) ==
  /\ flight[k].op = "download"
  /\ IF Live /\ ~album.private
     THEN token' = Consumed /\ served' = served + 1
     ELSE UNCHANGED tokenVars
  /\ Finish(k)
  /\ UNCHANGED <<albumVars, photoVars, commentVars, torn, overlap>>

----------------------------------------------------------------------------
(* Comments of the photos and of the album.                                *)

NewComment(p, u, t) ==
  [on |-> p, by |-> u, text |-> t, trans |-> None, reactions |-> [v \in Users |-> None]]

\* addComment, addAlbumComment: only the latter asks for access
AddComment(k, u, c, p, t) ==
  /\ c \notin created
  /\ IF c \in PhotoComments THEN p # None /\ HasRow(p) ELSE p = None /\ Access(u)
  /\ Start(k, [op |-> "comment", of |-> c, new |-> NewComment(p, u, t)])
  /\ created' = created \cup {c}
  /\ UNCHANGED <<albumVars, photoVars, tokenVars, comment, told, torn, overlap>>

\* A comment on a photo needs the photo's row.
SaveComment(k) ==
  LET f == flight[k] IN
  /\ f.op = "comment"
  /\ comment' = IF f.new.on = None \/ HasRow(f.new.on)
                THEN [comment EXCEPT ![f.of] = f.new] ELSE comment
  /\ Finish(k)
  /\ UNCHANGED <<albumVars, photoVars, tokenVars, told, created, torn, overlap>>

\* updateComment, updateAlbumComment: by the owner
EditComment(k, u, c, t) ==
  /\ HasComment(c) /\ comment[c].by = u
  /\ Start(k, [op |-> "edit", of |-> c, text |-> t])
  /\ Overlap(c, {"translate"}, <<c, "text">>)
  /\ UNCHANGED <<albumVars, photoVars, tokenVars, commentVars, torn>>

\* The edit of a comment on a photo drops its translations; the edit of a comment on
\* the album leaves them.
EditedKeeping(r, c, t) == [r EXCEPT !.text = t]
Edited(r, c, t) ==
  [r EXCEPT !.text = t, !.trans = IF c \in PhotoComments THEN None ELSE @]

WriteEdit(k) ==
  LET f == flight[k] IN
  /\ f.op = "edit"
  /\ comment' = IF HasComment(f.of)
                THEN [comment EXCEPT ![f.of] = Edited(@, f.of, f.text)] ELSE comment
  /\ Finish(k)
  /\ UNCHANGED <<albumVars, photoVars, tokenVars, told, created, torn, overlap>>

\* removeComment: by the owner or the album's creator; deleteAlbumComment: by the owner
RemoveComment(k, u, c) ==
  /\ HasComment(c)
  /\ u = comment[c].by \/ (c \in PhotoComments /\ u = Creator)
  /\ Start(k, [op |-> "uncomment", of |-> c])
  /\ UNCHANGED <<albumVars, photoVars, tokenVars, commentVars, torn, overlap>>

DeleteComment(k) ==
  LET f == flight[k] IN
  /\ f.op = "uncomment"
  /\ comment' = [comment EXCEPT ![f.of] = NoComment]
  /\ Finish(k)
  /\ UNCHANGED <<albumVars, photoVars, tokenVars, told, created, torn, overlap>>

\* toggleCommentReaction: read the reactions, change the user's own, write them all.
ToggledAlone(rs, u, x) ==
  [v \in Users |-> IF v = u THEN (IF rs[u] = x THEN None ELSE x)
                   ELSE IF rs[v] = x THEN None ELSE rs[v]]
Toggled(rs, u, x) == [rs EXCEPT ![u] = IF @ = x THEN None ELSE x]

ToggleReaction(k, u, c, x) ==
  /\ HasComment(c)
  /\ Start(k, [op |-> "react", of |-> c, by |-> u,
               reactions |-> Toggled(comment[c].reactions, u, x)])
  /\ Overlap(c, {"react"}, <<c, "reactions">>)
  /\ UNCHANGED <<albumVars, photoVars, tokenVars, commentVars, torn>>

WriteReactions(k) ==
  LET f == flight[k] IN
  /\ f.op = "react"
  /\ comment' = IF HasComment(f.of)
                THEN [comment EXCEPT ![f.of].reactions = f.reactions] ELSE comment
  /\ told' = [told EXCEPT ![f.of][f.by] = f.reactions[f.by]]
  /\ Finish(k)
  /\ UNCHANGED <<albumVars, photoVars, tokenVars, created, torn, overlap>>

\* translateComment, translateAlbumComment: only a comment without translations
Translate(k, u, c) ==
  /\ HasComment(c) /\ Access(u)
  /\ comment[c].trans = None
  /\ Start(k, [op |-> "translate", of |-> c, text |-> comment[c].text])
  /\ Overlap(c, {"edit"}, <<c, "text">>)
  /\ UNCHANGED <<albumVars, photoVars, tokenVars, commentVars, torn>>

\* The provider answers, or fails.
WriteTranslation(k, ok) ==
  LET f == flight[k] IN
  /\ f.op = "translate"
  /\ comment' = IF ok /\ HasComment(f.of)
                THEN [comment EXCEPT ![f.of].trans = f.text] ELSE comment
  /\ Finish(k)
  /\ UNCHANGED <<albumVars, photoVars, tokenVars, told, created, torn, overlap>>

----------------------------------------------------------------------------

\* The process restarts: requests, transcodings and the token are lost.
Restart ==
  /\ Ask
  /\ flight' = [k \in Slots |-> Idle]
  /\ job' = [p \in Photos |-> None]
  /\ token' = None /\ served' = 0
  /\ torn' = torn \cup (IF Busy({"upload", "count", "discount"}) # {}
                        THEN {"count"} ELSE {})
                  \cup (IF Busy({"wipe", "fill"}) # {} THEN {"members"} ELSE {})
  /\ UNCHANGED <<albumVars, row, named, disk, temp, commentVars, overlap>>

AlbumNext ==
  \/ \E k \in Slots : WriteAlbum(k) \/ WipeMembers(k) \/ FillMembers(k)
  \/ \E k \in Slots : RemoveAlbum(k) \/ DropAlbum(k)
  \/ \E k \in Slots, u \in Users, list \in SUBSET Users : UpdateMembers(k, u, list)
  \/ \E k \in Slots, private \in BOOLEAN, list \in SUBSET Users :
       \/ CreateAlbum(k, private, list)
       \/ \E relist \in BOOLEAN : UpdateAlbum(k, private, relist, list)

PhotosNext ==
  \/ \E k \in Slots, u \in Users, batch \in SUBSET Photos : Upload(k, u, batch)
  \/ \E k \in Slots, p \in Photos, thumbed, saved \in BOOLEAN :
       SavePhoto(k, p, thumbed, saved)
  \/ \E k \in Slots, u \in Users, p \in Photos : RemovePhoto(k, u, p)
  \/ \E k \in Slots : CountUpload(k) \/ DeletePhoto(k) \/ DiscountPhoto(k)

PartsNext ==
  \/ \E u \in Users, i \in Chunks : UploadChunk(u, i)
  \/ CleanupChunks
  \/ \E k \in Slots, u \in Users, p \in Photos, video \in BOOLEAN :
       CompleteUpload(k, u, p, video)
  \/ \E k \in Slots : MergeChunks(k) \/ PurgeChunks(k) \/ CountMerged(k)
  \/ \E k \in Slots, thumbed, saved \in BOOLEAN : StoreMerged(k, thumbed, saved)
  \/ \E p \in Photos, ok \in BOOLEAN : Encode(p, ok) \/ Frame(p, ok) \/ SwapVideo(p, ok)
  \/ \E p \in Photos : UnlinkOriginal(p)

TokenNext ==
  \/ \E u \in Users : CreateToken(u)
  \/ ExpireToken
  \/ \E k \in Slots : Download(k) \/ ServeArchive(k)

CommentsNext ==
  \/ \E k \in Slots, u \in Users, c \in Comments, t \in Texts :
       \/ EditComment(k, u, c, t)
       \/ \E p \in Photos \cup {None} : AddComment(k, u, c, p, t)
  \/ \E k \in Slots, u \in Users, c \in Comments :
       \/ RemoveComment(k, u, c)
       \/ Translate(k, u, c)
       \/ \E x \in Types : ToggleReaction(k, u, c, x)
  \/ \E k \in Slots :
       SaveComment(k) \/ WriteEdit(k) \/ DeleteComment(k) \/ WriteReactions(k)
  \/ \E k \in Slots, ok \in BOOLEAN : WriteTranslation(k, ok)

MemoriesNext == AlbumNext \/ PhotosNext \/ PartsNext \/ TokenNext \/ CommentsNext \/ Restart

MemoriesSpec == MemoriesInit /\ [][MemoriesNext]_memoryVars

----------------------------------------------------------------------------
(* Properties.                                                             *)

\* Rows, files, jobs and comments have their form, and nothing of an album, neither
\* member nor photo nor comment on a photo, outlives it or its photo.
MemoriesTypeOK ==
  /\ album \in [state: {"none", "live", "gone"}, private: BOOLEAN, count: Nat]
  /\ members \subseteq Users
  /\ row \in [Photos -> PhotoRow \cup {NoRow}]
  /\ disk \subseteq named \X Parts
  /\ named \subseteq Photos /\ temp \subseteq Chunks
  /\ job \in [Photos -> {None, "encoding", "encoded", "framed", "frameless", "swapped"}]
  /\ token \in {None, "issued", "spent"}
  /\ comment \in [Comments -> Comment \cup {NoComment}]
  /\ ~Live => members = {} /\ Rows = {}
  /\ \A c \in PhotoComments : HasComment(c) => HasRow(comment[c].on)

\* photoCount is the number of the photos once no upload or removal is under way: the
\* database does the arithmetic.  What breaks it is a batch of which one file fails,
\* two removals of one photo, a removal counted before its upload, or a restart.
CountMatches ==
  Live /\ "count" \notin torn /\ Busy({"upload", "count", "discount"}) = {} =>
    album.count = Cardinality(Rows)

\* Every photo that is shown has its file, and its thumbnail unless both attempts at
\* one failed: through transcoding, removals and restarts nothing a row names is unlinked.
RowsHaveFiles ==
  \A p \in Rows :
    /\ <<p, row[p].url>> \in disk
    /\ <<p, row[p].thumb>> \in disk \/ (row[p].url = "tc" /\ row[p].thumb = "file")

\* Once no list of members is being replaced, the creator is one of the members,
\* however replacements overlapped: the last INSERT that succeeds finds an empty list.
CreatorIsMember ==
  Live /\ "members" \notin torn /\ Busy({"wipe", "fill"}) = {} => Creator \in members

\* A download token serves one archive ("consumed on first use"), unless downloads
\* overlapped: the token is consumed only after the album was found.
TokenServesOnce == served <= 1 \/ <<"token">> \in overlap

\* Comments keep what was done to them: the translations kept with a comment on a photo
\* are of its text, unless a translation was under way while the text was edited, and
\* every user's reaction is the one he was last told, unless two toggles of the comment
\* overlapped - the list of all reactions is read, then written back.
CommentsKeepUp ==
  \A c \in Comments : HasComment(c) =>
    /\ c \in PhotoComments /\ <<c, "text">> \notin overlap =>
         comment[c].trans \in {None, comment[c].text}
    /\ <<c, "reactions">> \notin overlap => comment[c].reactions = told[c]

\* updateAlbumComment (memories.service.ts:1906): "Reset translations since text
\* changed".  The update writes the text and the language only.
AlbumTranslationsReset ==
  \A c \in AlbumComments :
    HasComment(c) /\ <<c, "text">> \notin overlap => comment[c].trans \in {None, comment[c].text}
============================================================================
