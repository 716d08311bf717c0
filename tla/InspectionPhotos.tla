-------------------------- MODULE InspectionPhotos --------------------------
(***************************************************************************)
(* The photos of inspections: PhotosService (src/photos/photos.service.ts),*)
(* its handlers and upload pipes, and deleteInspectionPermanently of       *)
(* InspectionsService (src/inspections/inspections.service.ts:2803), on    *)
(* top of InspectionCreation.                                              *)
(*                                                                         *)
(* A photo is a row and a file, written and removed in separate steps, and *)
(* no transaction spans both.  Multer stores the uploaded files before the *)
(* handler runs.  The process may stop between any two steps.              *)
(*                                                                         *)
(* Data: a file is <<request, index>> of its upload, and a row is named by *)
(* the file it was created for.  Columns other than the path, and updates  *)
(* that change no path, are left out.  PDF files are InspectionLifecycle's.*)
(***************************************************************************)
EXTENDS InspectionCreation

CONSTANT BatchSize      \* at most so many files in one upload; the code says 10

File == InspectionId \X (1..BatchSize)
PhotoId == File

ASSUME BatchAssumption == BatchSize \in Nat \ {0}

VARIABLES
    photos,     \* the table inspection_photos
    files,      \* ./uploads/inspection-photos
    condemned,  \* history: inspections whose permanent deletion has begun
    leaked      \* history: files an error, a crash or an overlap has left behind

photoVars == <<photos, files, condemned, leaked>>
photosVars == <<creationVars, photoVars>>

Photo == [inspection: InspectionId, path: File]

\* A row is not the same as no row.
ASSUME PhotoAssumption == None \notin Photo

\* hand: the files that the handler has to give a row or to delete;
\* old: the path it read from a row.
PhotoMemo == [inspection: InspectionId \cup {None}, photo: PhotoId \cup {None},
              old: File \cup {None}, hand: SUBSET File]

Job(i, p, old, hand) == [inspection |-> i, photo |-> p, old |-> old, hand |-> hand]

PhotosInit ==
    /\ CreationInit
    /\ photos = [p \in PhotoId |->
           IF p \in Old \X {1} THEN [inspection |-> p[1], path |-> p] ELSE None]
    /\ files = Old \X {1}
    /\ condemned = {}
    /\ leaked = {}

Photos == {p \in PhotoId : photos[p] # None}
PhotosOf(i) == {p \in Photos : photos[p].inspection = i}
PathsOf(i) == {photos[p].path : p \in PhotosOf(i)}

PhotoLabels == {"uploaded", "recording", "replacing", "updating", "deletingPhoto",
                "unlinking", "unlinkingAll"}
AtPhotoStep(r) == pc[r] \in PhotoLabels
InFlight(r) == pc[r] \notin {"arriving", "idle", "done", "created", "rejected", "answered", "lost"}

Leaks(fs) == leaked' = leaked \cup fs

-----------------------------------------------------------------------------
(* Faulty variants for mutation runs; not part of the model.               *)

\* The old file is deleted before the row is updated.
FindPhotoUnlinkingFirst(r) ==
    /\ pc[r] = "replacing"
    /\ memo[r].photo \in Photos
    /\ files' = files \ {photos[memo[r].photo].path}
    /\ Keeps(r, [memo[r] EXCEPT !.old = photos[memo[r].photo].path])
    /\ Goto(r, "updating")
    /\ UNCHANGED <<tables, photos, condemned, leaked>>

\* The old file is forgotten.
ReplacePathKeepingFile(r) ==
    /\ pc[r] = "updating"
    /\ memo[r].photo \in Photos
    /\ \E f \in memo[r].hand :
           photos' = [photos EXCEPT ![memo[r].photo].path = f]
    /\ Ends(r, "done")
    /\ UNCHANGED <<tables, files, condemned, leaked>>

-----------------------------------------------------------------------------
(* Adding photos: one or a batch, all in one INSERT                        *)

\* Multer writes the files.
Upload(r) ==
    /\ Asks(r, "addPhotos")
    /\ \E i \in InspectionId, n \in 1..BatchSize :
           LET new == {r} \X (1..n) IN
           /\ files' = files \cup new
           /\ Keeps(r, Job(i, None, None, new))
    /\ Goto(r, "uploaded")
    /\ UNCHANGED <<tables, photos, condemned, leaked>>

\* FileValidationPipe removes the first bad file and stops; the others stay.
InvalidFile(r) ==
    /\ pc[r] = "uploaded"
    /\ \E f \in memo[r].hand :
           /\ files' = files \ {f}
           /\ Leaks(memo[r].hand \ {f})
    /\ Ends(r, "rejected")
    /\ UNCHANGED <<tables, photos, condemned>>

\* Bad metadata, or no such inspection.
RefuseUpload(r) ==
    /\ pc[r] = "uploaded"
    /\ Leaks(memo[r].hand)
    /\ Ends(r, "rejected")
    /\ UNCHANGED <<tables, photos, files, condemned>>

EnsureInspectionExists(r) ==
    /\ pc[r] = "uploaded"
    /\ memo[r].inspection \in Inspections
    /\ Goto(r, "recording")
    /\ UNCHANGED <<tables, memo, photoVars>>

RecordPhotos(r) ==
    /\ pc[r] = "recording"
    /\ memo[r].inspection \in Inspections
    /\ photos' = [p \in PhotoId |->
           IF p \in memo[r].hand THEN [inspection |-> memo[r].inspection, path |-> p]
           ELSE photos[p]]
    /\ Ends(r, "done")
    /\ UNCHANGED <<tables, files, condemned, leaked>>

\* The foreign key, or another error.
RecordFails(r) ==
    /\ pc[r] = "recording"
    /\ Leaks(memo[r].hand)
    /\ Ends(r, "rejected")
    /\ UNCHANGED <<tables, photos, files, condemned>>

-----------------------------------------------------------------------------
(* Replacing the file of a photo                                           *)

UploadReplacement(r) ==
    /\ Asks(r, "updatePhoto")
    /\ \E p \in PhotoId : Keeps(r, Job(None, p, None, {<<r, 1>>}))
    /\ files' = files \cup {<<r, 1>>}
    /\ Goto(r, "replacing")
    /\ UNCHANGED <<tables, photos, condemned, leaked>>

FindPhoto(r) ==
    /\ pc[r] = "replacing"
    /\ memo[r].photo \in Photos
    /\ Keeps(r, [memo[r] EXCEPT !.old = photos[memo[r].photo].path])
    /\ Goto(r, "updating")
    /\ UNCHANGED <<tables, photoVars>>

\* A file replaced in the meantime is nobody's any more.
ReplacePath(r) ==
    /\ pc[r] = "updating"
    /\ memo[r].photo \in Photos
    /\ \E f \in memo[r].hand :
           photos' = [photos EXCEPT ![memo[r].photo].path = f]
    /\ Leaks({photos[memo[r].photo].path} \ {memo[r].old})
    /\ Keeps(r, [memo[r] EXCEPT !.hand = {memo[r].old}])
    /\ Goto(r, "unlinking")
    /\ UNCHANGED <<tables, files, condemned>>

\* The file is invalid, the photo is gone or another inspection's, or the
\* update fails: the new file stays.
ReplaceFails(r) ==
    /\ pc[r] \in {"replacing", "updating"}
    /\ Leaks(memo[r].hand)
    /\ Ends(r, "rejected")
    /\ UNCHANGED <<tables, photos, files, condemned>>

\* After the row: an error is logged and the request succeeds.
UnlinkFile(r) ==
    /\ pc[r] = "unlinking"
    /\ \/ files' = files \ memo[r].hand /\ UNCHANGED leaked
       \/ Leaks(memo[r].hand) /\ UNCHANGED files
    /\ Ends(r, "done")
    /\ UNCHANGED <<tables, photos, condemned>>

-----------------------------------------------------------------------------
(* Deleting a photo                                                        *)

ReadPath(r) ==
    /\ Asks(r, "deletePhoto")
    /\ \E p \in Photos : Keeps(r, Job(None, p, photos[p].path, {}))
    /\ Goto(r, "deletingPhoto")
    /\ UNCHANGED <<tables, photoVars>>

DeletePhotoRow(r) ==
    /\ pc[r] = "deletingPhoto"
    /\ memo[r].photo \in Photos
    /\ photos' = [photos EXCEPT ![memo[r].photo] = None]
    /\ Leaks({photos[memo[r].photo].path} \ {memo[r].old})
    /\ Keeps(r, [memo[r] EXCEPT !.hand = {memo[r].old}])
    /\ Goto(r, "unlinking")
    /\ UNCHANGED <<tables, files, condemned>>

DeletePhotoFails(r) ==
    /\ pc[r] = "deletingPhoto"
    /\ Ends(r, "rejected")
    /\ UNCHANGED <<tables, photoVars>>

-----------------------------------------------------------------------------
(* Deleting an inspection for good                                         *)

ReadForDeletion(r) ==
    /\ Asks(r, "deleteInspection")
    /\ \E i \in Inspections :
           /\ Keeps(r, Job(i, None, None, PathsOf(i)))
           /\ condemned' = condemned \cup {i}
    /\ Goto(r, "unlinkingAll")
    /\ UNCHANGED <<tables, photos, files, leaked>>

\* One file after the other; errors are logged.
UnlinkNext(r) ==
    /\ pc[r] = "unlinkingAll"
    /\ \E f \in memo[r].hand :
           /\ Keeps(r, [memo[r] EXCEPT !.hand = @ \ {f}])
           /\ \/ files' = files \ {f} /\ UNCHANGED leaked
              \/ Leaks({f}) /\ UNCHANGED files
    /\ UNCHANGED <<op, tables, pc, photos, condemned>>

\* Rows of the inspection and of its photos, in one transaction.
CommitDeletion(r) ==
    /\ pc[r] = "unlinkingAll"
    /\ memo[r].hand = {}
    /\ memo[r].inspection \in Inspections
    /\ rows' = [rows EXCEPT ![memo[r].inspection] = None]
    /\ photos' = [p \in PhotoId |->
           IF p \in PhotosOf(memo[r].inspection) THEN None ELSE photos[p]]
    /\ Leaks(PathsOf(memo[r].inspection) \cap files)
    /\ Ends(r, "done")
    /\ UNCHANGED <<branches, sequence, issued, files, condemned>>

DeletionFails(r) ==
    /\ pc[r] = "unlinkingAll"
    /\ memo[r].hand = {}
    /\ Ends(r, "rejected")
    /\ UNCHANGED <<tables, photoVars>>

-----------------------------------------------------------------------------

\* The process stops: every request in flight is lost, open transactions
\* roll back.
Restart ==
    /\ \E r \in Request : InFlight(r)
    /\ Leaks(UNION {memo[r].hand : r \in {q \in Request : AtPhotoStep(q)}})
    /\ pc' = [r \in Request |-> IF InFlight(r) THEN "lost" ELSE pc[r]]
    /\ memo' = [r \in Request |-> IF InFlight(r) THEN None ELSE memo[r]]
    /\ UNCHANGED <<op, tables, photos, files, condemned>>

PhotoStep(r) ==
    \/ Upload(r) \/ InvalidFile(r) \/ RefuseUpload(r) \/ EnsureInspectionExists(r)
    \/ RecordPhotos(r) \/ RecordFails(r)
    \/ UploadReplacement(r) \/ FindPhoto(r) \/ ReplacePath(r) \/ ReplaceFails(r)
    \/ UnlinkFile(r)
    \/ ReadPath(r) \/ DeletePhotoRow(r) \/ DeletePhotoFails(r)
    \/ ReadForDeletion(r) \/ UnlinkNext(r) \/ CommitDeletion(r) \/ DeletionFails(r)

PhotosNext ==
    \/ CreationNext /\ UNCHANGED photoVars
    \/ \E r \in Request : PhotoStep(r)
    \/ Restart

PhotosSpec == PhotosInit /\ [][PhotosNext]_photosVars

-----------------------------------------------------------------------------
(* Properties                                                              *)

\* A photo that the API lists can be served: its file is on disk, however
\* uploads, replacements, deletions, failures and restarts interleave, unless
\* the permanent deletion of its inspection has begun (which removes files
\* before rows).
RecordHasFile ==
    \A p \in Photos : photos[p].path \in files \/ photos[p].inspection \in condemned

\* No file is lost track of: one on disk belongs to a photo, or a handler
\* still has it in hand, or an error, a restart or an overlapping request on
\* the same photo or inspection has left it behind.
FilesAccounted ==
    \A f \in files :
        \/ \E p \in Photos : photos[p].path = f
        \/ \E r \in Request : AtPhotoStep(r) /\ f \in memo[r].hand
        \/ f \in leaked
=============================================================================
