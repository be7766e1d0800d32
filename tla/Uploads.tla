------------------------------ MODULE Uploads -------------------------------
(***************************************************************************)
(* The bytes of one image: the upload, ImageService.confirmUpload and      *)
(* deleteImage, and the variants ImageController makes and keeps on disk.  *)
(* Files and the Image row are written in separate steps; serving never    *)
(* looks at the row, and an upload never asks whether the id is in use.    *)
(*                                                                         *)
(* One width and format of variant; what Sharp measures, URLs, permissions *)
(* and the quality (which the name of a cached file does not hold) are     *)
(* left out.  Which of a product's images is its cover is the second part. *)
(***************************************************************************)
EXTENDS Integers, FiniteSets

CONSTANTS
  Senders,    \* requests handled at the same time
  Formats,    \* file extensions a master may have
  MaxUploads, \* bound: uploads under this id
  MaxJams     \* bound: crashes and file operations that fail

ASSUME UploadConstantsOK == Formats # {} /\ MaxUploads \in Nat /\ MaxJams \in Nat

VARIABLES
  provider,  \* IMAGE_PROVIDER: "local" or "s3"
  master,    \* which upload each master file holds, 0: no file
  thumb,     \* which upload the cached variant was made of, 0: none
  imageRow,  \* the Image row: "none", "live", "deleted"
  arrivals,  \* history: formats uploaded before a deletion began; late uploads
  doing,     \* what each request is about to do, and what it has seen
  tangled,   \* history: a variant was being made, or bytes came, while a deletion ran
  jams

uploadVars == <<provider, master, thumb, imageRow, arrivals, doing, tangled, jams>>

Still == [do |-> "idle", saw |-> 0, file |-> "none"]
Files == {f \in Formats : master[f] # 0}
Sheds == {"unlink", "clear", "mark"}      \* the steps of a deletion that is under way
Shedding == \E w \in Senders : doing[w].do \in Sheds

UploadsInit ==
  /\ provider \in {"local", "s3"}
  /\ master = [f \in Formats |-> 0] /\ thumb = 0 /\ imageRow = "none"
  /\ arrivals = [formats |-> {}, count |-> 0]
  /\ doing = [w \in Senders |-> Still] /\ tangled = FALSE /\ jams = 0

Proceeds(w, what, saw, f) == doing' = [doing EXCEPT ![w] = [do |-> what, saw |-> saw, file |-> f]]
Rests(w)               == doing' = [doing EXCEPT ![w] = Still]
Jammed                 == jams < MaxJams /\ jams' = jams + 1

\* The local master has the extension of its own bytes; S3 keeps one object under the id.
UploadBytes(f) ==
  /\ arrivals.count < MaxUploads
  /\ provider = "s3" => f = CHOOSE g \in Formats : TRUE
  /\ master' = [master EXCEPT ![f] = arrivals.count + 1]
  /\ arrivals' = [formats |-> arrivals.formats \cup {f}, count |-> arrivals.count + 1]
  /\ tangled' = (tangled \/ Shedding \/ imageRow = "deleted")
  /\ UNCHANGED <<provider, thumb, imageRow, doing, jams>>

\* HEAD of the object in S3; on disk, a file named after the id.
Arrived == Files # {}

\* The bytes must be there, the row must not: a deleted row keeps its externalId.
ConfirmUpload(w) ==
  /\ doing[w] = Still /\ Arrived /\ Proceeds(w, "confirm", 0, "none")
  /\ UNCHANGED <<provider, master, thumb, imageRow, arrivals, tangled, jams>>

CreateImage(w) ==
  /\ doing[w].do = "confirm"
  /\ imageRow' = IF imageRow = "none" THEN "live" ELSE imageRow
  /\ tangled' = (tangled \/ Files = {})
  /\ Rests(w)
  /\ UNCHANGED <<provider, master, thumb, arrivals, jams>>

\* A cached variant is sent as it is.
CacheHit == thumb # 0

\* Else a master, any that is found, is read and transformed.
ServeVariant(w) ==
  /\ doing[w] = Still /\ ~CacheHit
  /\ \E f \in Files : Proceeds(w, "fill", master[f], f)
  /\ UNCHANGED <<provider, master, thumb, imageRow, arrivals, tangled, jams>>

FillCache(w) ==
  /\ doing[w].do = "fill"
  /\ \/ thumb' = doing[w].saw /\ UNCHANGED jams
     \/ Jammed /\ UNCHANGED thumb
  /\ tangled' = (tangled \/ Shedding \/ imageRow = "deleted")
  /\ Rests(w)
  /\ UNCHANGED <<provider, master, imageRow, arrivals>>

DeleteImage(w) ==
  /\ doing[w] = Still /\ imageRow = "live"
  /\ \/ \E f \in Files : Proceeds(w, "unlink", 0, f)
     \/ Files = {} /\ Proceeds(w, "clear", 0, "none")
  /\ tangled' = (tangled \/ \E v \in Senders : doing[v].do = "fill")
  /\ UNCHANGED <<provider, master, thumb, imageRow, arrivals, jams>>

\* A failure is logged and the deletion goes on.
UnlinkMaster(w) ==
  /\ doing[w].do = "unlink"
  /\ \/ master' = [master EXCEPT ![doing[w].file] = 0] /\ UNCHANGED jams
     \/ Jammed /\ UNCHANGED master
  /\ Proceeds(w, "clear", 0, "none")
  /\ UNCHANGED <<provider, thumb, imageRow, arrivals, tangled>>

ClearedVariant == 0

\* Only the local provider clears the variants, although both providers' are kept on disk.
ClearVariants(w) ==
  /\ doing[w].do = "clear"
  /\ \/ thumb' = (IF provider = "local" THEN ClearedVariant ELSE thumb) /\ UNCHANGED jams
     \/ Jammed /\ UNCHANGED thumb
  /\ Proceeds(w, "mark", 0, "none")
  /\ UNCHANGED <<provider, master, imageRow, arrivals, tangled>>

MarkDeletedImage(w) ==
  /\ doing[w].do = "mark" /\ imageRow' = "deleted" /\ Rests(w)
  /\ UNCHANGED <<provider, master, thumb, arrivals, tangled, jams>>

SenderCrash(w) ==
  /\ doing[w] # Still /\ Jammed /\ Rests(w)
  /\ UNCHANGED <<provider, master, thumb, imageRow, arrivals, tangled>>

-----------------------------------------------------------------------------
UploadsNext ==
  \/ \E f \in Formats : UploadBytes(f)
  \/ \E w \in Senders :
       \/ ConfirmUpload(w) \/ CreateImage(w) \/ ServeVariant(w) \/ FillCache(w)
       \/ DeleteImage(w) \/ UnlinkMaster(w) \/ ClearVariants(w) \/ MarkDeletedImage(w)
       \/ SenderCrash(w)

UploadsSpec == UploadsInit /\ [][UploadsNext]_uploadVars

-----------------------------------------------------------------------------
\* Every variable has its type.
UploadsTypeOK ==
  /\ provider \in {"local", "s3"} /\ master \in [Formats -> 0 .. MaxUploads]
  /\ thumb \in 0 .. MaxUploads /\ imageRow \in {"none", "live", "deleted"}
  /\ arrivals.formats \subseteq Formats /\ arrivals.count \in 0 .. MaxUploads
  /\ doing \in [Senders -> [do : {"idle", "confirm", "fill"} \cup Sheds, saw : 0 .. MaxUploads,
                            file : Formats \cup {"none"}]]
  /\ tangled \in BOOLEAN /\ jams \in 0 .. MaxJams

\* While nothing fails and no bytes come or are transformed during a deletion, an image that
\* is not being deleted can be served, and a deleted one cannot: of its masters one is gone,
\* which is all of them unless it was uploaded in two formats, and of the variants none is
\* left on local storage.
BytesFollowRow ==
  jams = 0 /\ ~tangled =>
    /\ imageRow = "live" /\ ~Shedding => Files # {}
    /\ imageRow = "deleted" =>
         /\ Cardinality(Files) < Cardinality(arrivals.formats)
         /\ provider = "local" => thumb = 0

-----------------------------------------------------------------------------
(***************************************************************************)
(* ProductService: the images of one product.  addImage and updateImage    *)
(* are transactions of several statements, each of which sees what others  *)
(* had committed when it ran; the cover is cleared from every image seen   *)
(* before another one becomes it.  Left out: order, text and addresses.    *)
(***************************************************************************)
CONSTANTS
  Shooters,   \* requests handled at the same time
  MaxImages   \* bound: images added

ASSUME ImageConstantsOK == MaxImages \in Nat

ImageIds == 1 .. MaxImages

VARIABLES
  shots,      \* the ProductImage rows
  covers,     \* those with isPrimary
  shotsTaken,      \* images added so far
  shooter,    \* the transaction of each request
  shotSlips   \* history: "overlap" when two transactions ran at once, "unset" when the cover was
              \* removed or lost the mark without another taking it

imageVars == <<shots, covers, shotsTaken, shooter, shotSlips>>

NoShot == [do |-> "idle", image |-> 0, cover |-> FALSE, clears |-> {}]
Shoots(e, what) == shooter[e].do = what
ShotDone(e)     == shooter' = [shooter EXCEPT ![e] = NoShot]
Imaging         == {e \in Shooters : ~Shoots(e, "idle")}
ShotSlip(s, if) == shotSlips' = IF if THEN shotSlips \union {s} ELSE shotSlips

ImagesInit ==
  /\ shots = {} /\ covers = {} /\ shotsTaken = 0
  /\ shooter = [e \in Shooters |-> NoShot] /\ shotSlips = {}

\* addImage counts the images: the first becomes the cover;
CountImages(e) ==
  /\ Shoots(e, "idle") /\ shotsTaken < MaxImages
  /\ \E cover \in BOOLEAN :
       shooter' = [shooter EXCEPT ![e] = [NoShot EXCEPT !.do = "clear", !.cover = cover \/ shots = {}]]
  /\ ShotSlip("overlap", Imaging # {})
  /\ UNCHANGED <<shots, covers, shotsTaken>>

\* updateImage finds its image.
PickImage(e) ==
  /\ Shoots(e, "idle")
  /\ \E i \in shots, cover \in BOOLEAN :
       shooter' = [shooter EXCEPT ![e] = [NoShot EXCEPT !.do = "clear", !.image = i, !.cover = cover]]
  /\ ShotSlip("overlap", Imaging # {})
  /\ UNCHANGED <<shots, covers, shotsTaken>>

Cleared(e) == IF shooter[e].cover THEN covers \ {shooter[e].image} ELSE {}

\* The covers seen are cleared,
ClearCovers(e) ==
  /\ Shoots(e, "clear")
  /\ shooter' = [shooter EXCEPT ![e].do = "image", ![e].clears = Cleared(e)]
  /\ UNCHANGED <<shots, covers, shotsTaken, shotSlips>>

\* and the image is written, which commits both; an image that was removed fails both.
SaveImage(e) ==
  LET i     == IF shooter[e].image = 0 THEN shotsTaken + 1 ELSE shooter[e].image
      cover == shooter[e].cover
  IN
  /\ Shoots(e, "image") /\ ShotDone(e)
  /\ i \in (IF shooter[e].image = 0 THEN ImageIds ELSE shots)
  /\ shots' = shots \union {i}
  /\ shotsTaken' = IF shooter[e].image = 0 THEN i ELSE shotsTaken
  /\ covers' = IF cover THEN (covers \ shooter[e].clears) \union {i} ELSE covers \ {i}
  /\ ShotSlip("unset", ~cover /\ i \in covers)

FailImage(e) ==
  /\ Shoots(e, "image") /\ ShotDone(e)
  /\ UNCHANGED <<shots, covers, shotsTaken, shotSlips>>

RemoveImage ==
  /\ \E i \in shots : /\ shots' = shots \ {i} /\ covers' = covers \ {i}
                      /\ ShotSlip("unset", i \in covers)
  /\ UNCHANGED <<shotsTaken, shooter>>

ImagesNext ==
  \/ RemoveImage
  \/ \E e \in Shooters : CountImages(e) \/ PickImage(e) \/ ClearCovers(e) \/ SaveImage(e) \/ FailImage(e)

ImagesSpec == ImagesInit /\ [][ImagesNext]_imageVars

----------------------------------------------------------------------------
\* Types: ProductService, ProductImage.
ImagesTypeOK ==
  /\ shots \subseteq ImageIds /\ covers \subseteq shots /\ shotsTaken \in 0 .. MaxImages
  /\ \A e \in Shooters : shooter[e].do \in {"idle", "clear", "image"} /\ shooter[e].clears \subseteq ImageIds
  /\ shotSlips \subseteq {"overlap", "unset"}

\* A product with images has exactly one cover, unless two image transactions overlapped or the
\* cover was removed or unmarked, after which none takes its place (addImage, updateImage,
\* removeImage).
OneCover == shotSlips = {} /\ shots # {} => \E i \in shots : covers = {i}
=============================================================================
