------------------------------- MODULE Uploads -------------------------------
(***************************************************************************)
(* Files on disk and what the database says of them: the attachments of    *)
(* tickets, and the logo with its setting.                                 *)
(*                                                                         *)
(* A file is examined, scanned, written and then recorded; the removal of  *)
(* one that could not be recorded may fail itself.  The logo has one place *)
(* for each of its two formats, which are emptied before a new one is      *)
(* written.  The process may stop between any two of these steps.          *)
(***************************************************************************)
EXTENDS DeskBase, Integers

CONSTANTS
  Files,           \* what is uploaded; a picture stands for its recompressed form
  Mistyped,        \* those of a type that tickets do not take, or that is not theirs
  Images, Broken,  \* pictures, and those that cannot be decoded
  Infected,        \* those in which the scanner finds something
  FormatOf,        \* FormatOf[f]: the format f has as a logo, Nil if it is refused
  Attachments,     \* ids of rows of attachments, present and future
  MaxUploads,      \* bound on the number of requests
  MaxUploadFaults, \* bound on the number of steps that fail
  MaxStops         \* bound on the number of times the process stops

Formats == {"png", "svg"}   \* in the order they are removed, and served
Half    == "half"           \* a file of which only a part was written

ASSUME UploadAssumption ==
  /\ Mistyped \subseteq Files /\ Images \subseteq Files /\ Broken \subseteq Images
  /\ Infected \subseteq Files /\ FormatOf \in [Files -> Formats \cup {Nil}]
  /\ MaxUploads \in Nat /\ MaxUploadFaults \in Nat /\ MaxStops \in Nat

AttachmentRow == [ticket : Tickets, file : Files]

UploadRequest ==
  [op     : {"attach", "logo", "unlogo"},
   step   : {"ticket", "scan", "store", "insert", "remove", "removepng", "removesvg", "write", "record", "done"},
   file   : Files \cup {Nil},
   ticket : Tickets \cup {Nil},
   id     : Attachments \cup {Nil}]

ASSUME UploadNilAssumption ==
  /\ {Nil, Half} \cap Files = {} /\ Nil # Half
  /\ Nil \notin Tickets \cup Attachments \cup Formats \cup AttachmentRow \cup UploadRequest

VARIABLES
  attached,   \* table attachments
  disk,       \* the files of attachments
  logoFile,   \* the files of the logo
  logoSet,    \* whether the setting site_logo_url names a logo
  uploadReq,  \* the requests in progress
  queued,     \* whether the requests of this behaviour come one at a time
  uploads, uploadFaults, stops

uploadVars ==
  <<attached, disk, logoFile, logoSet, uploadReq, queued, uploads, uploadFaults, stops>>

OnDisk == Files \cup {Half, Nil}

UploadTypeOK ==
  /\ attached \in [Attachments -> AttachmentRow \cup {Nil}]
  /\ disk \in [Attachments -> OnDisk]
  /\ logoFile \in [Formats -> OnDisk]
  /\ logoSet \in BOOLEAN
  /\ uploadReq \in [Workers -> UploadRequest \cup {Nil}]
  /\ queued \in BOOLEAN
  /\ uploads \in 0..MaxUploads /\ uploadFaults \in 0..MaxUploadFaults /\ stops \in 0..MaxStops

UploadInit ==
  /\ attached = [a \in Attachments |-> Nil]
  /\ disk = [a \in Attachments |-> Nil]
  /\ logoFile = [x \in Formats |-> Nil]
  /\ logoSet = FALSE
  /\ uploadReq = [w \in Workers |-> Nil]
  /\ queued \in BOOLEAN
  /\ uploads = 0 /\ uploadFaults = 0 /\ stops = 0

-----------------------------------------------------------------------------

UploadBegins(w, r) ==
  /\ uploadReq[w] = Nil
  /\ queued => \A v \in Workers : uploadReq[v] = Nil
  /\ uploads < MaxUploads /\ uploads' = uploads + 1
  /\ uploadReq' = [uploadReq EXCEPT ![w] = r]
  /\ UNCHANGED <<attached, disk, logoFile, logoSet, queued, uploadFaults, stops>>

HandleUploadAttachment(w) ==
  \E t \in Tickets, f \in Files :
    UploadBegins(w, [op |-> "attach", step |-> "ticket", file |-> f, ticket |-> t, id |-> Nil])

\* The type of a logo is found out and the logo converted before anything is touched.
HandleUploadLogo(w) ==
  \E f \in Files \ Broken :
    FormatOf[f] # Nil /\
      UploadBegins(w, [op |-> "logo", step |-> "removepng", file |-> f, ticket |-> Nil, id |-> Nil])

HandleDeleteLogo(w) ==
  UploadBegins(w, [op |-> "unlogo", step |-> "removepng", file |-> Nil, ticket |-> Nil, id |-> Nil])

UploadEnds(w) == uploadReq' = Ended(uploadReq, w)
UploadGoes(w, step) == uploadReq' = GoesTo(uploadReq, w, step)
UploadFails == uploadFaults < MaxUploadFaults /\ uploadFaults' = uploadFaults + 1

\* The ticket is there and may be seen, and the content fits the extension; or not.
MagicOK(f) == f \notin Mistyped

GetTicket(w) ==
  LET r == uploadReq[w] IN
  /\ r # Nil /\ r.step = "ticket"
  /\ (MagicOK(r.file) /\ UploadGoes(w, "scan")) \/ UploadEnds(w)
  /\ UNCHANGED <<attached, disk, logoFile, logoSet, queued, uploads, uploadFaults, stops>>

\* The scanner reports what it finds, unless it is not configured or out of reach.  What
\* is not reported is stored if it is no picture, or one that can be decoded.
Decoded(f) == f \notin Broken

ScanClamAV(w) ==
  LET r == uploadReq[w] IN
  /\ r # Nil /\ r.step = "scan"
  /\ \/ r.file \in Infected /\ UploadEnds(w)
     \/ IF Decoded(r.file) THEN UploadGoes(w, "store") ELSE UploadEnds(w)
  /\ UNCHANGED <<attached, disk, logoFile, logoSet, queued, uploads, uploadFaults, stops>>

\* Mutant of AfterFailure: an upload is recorded although its file could not be written.
AfterFailureGoesOn(w, a) == uploadReq' = [uploadReq EXCEPT ![w].step = "insert", ![w].id = a]

\* The file that could not be written ends the upload; what was written of it stays.
AfterFailure(w, a) == UploadEnds(w)

\* A file with a new name.
WriteAttachment(w) ==
  LET r == uploadReq[w] IN
  /\ r # Nil /\ r.step = "store"
  /\ \E a \in Attachments :
       /\ disk[a] = Nil /\ attached[a] = Nil
       /\ \/ /\ disk' = [disk EXCEPT ![a] = r.file]
             /\ uploadReq' = [uploadReq EXCEPT ![w].step = "insert", ![w].id = a]
             /\ UNCHANGED uploadFaults
          \/ /\ UploadFails /\ AfterFailure(w, a)
             /\ \E left \in {Nil, Half} : disk' = [disk EXCEPT ![a] = left]
  /\ UNCHANGED <<attached, logoFile, logoSet, queued, uploads, stops>>

CreateAttachment(w) ==
  LET r == uploadReq[w] IN
  /\ r # Nil /\ r.step = "insert"
  /\ \/ /\ attached' = [attached EXCEPT ![r.id] = [ticket |-> r.ticket, file |-> r.file]]
        /\ UploadEnds(w) /\ UNCHANGED uploadFaults
     \/ UploadFails /\ UploadGoes(w, "remove") /\ UNCHANGED attached
  /\ UNCHANGED <<disk, logoFile, logoSet, queued, uploads, stops>>

\* os.Remove, whose error is dropped.
RemoveAttachment(w) ==
  LET r == uploadReq[w] IN
  /\ r # Nil /\ r.step = "remove"
  /\ \/ disk' = [disk EXCEPT ![r.id] = Nil] /\ UNCHANGED uploadFaults
     \/ UploadFails /\ UNCHANGED disk
  /\ UploadEnds(w)
  /\ UNCHANGED <<attached, logoFile, logoSet, queued, uploads, stops>>

-----------------------------------------------------------------------------
(* The logo.                                                               *)

\* deleteLogoFile: an error is logged.
DeleteLogoFile(w, x) ==
  LET r == uploadReq[w] IN
  /\ r # Nil /\ r.step = (IF x = "png" THEN "removepng" ELSE "removesvg")
  /\ \/ logoFile' = [logoFile EXCEPT ![x] = Nil] /\ UNCHANGED uploadFaults
     \/ UploadFails /\ UNCHANGED logoFile
  /\ UploadGoes(w, IF x = "png" THEN "removesvg" ELSE IF r.op = "logo" THEN "write" ELSE "record")
  /\ UNCHANGED <<attached, disk, logoSet, queued, uploads, stops>>

WriteLogo(w) ==
  LET r == uploadReq[w] IN
  /\ r # Nil /\ r.step = "write"
  /\ \/ /\ logoFile' = [logoFile EXCEPT ![FormatOf[r.file]] = r.file]
        /\ UploadGoes(w, "record") /\ UNCHANGED uploadFaults
     \/ /\ UploadFails /\ UploadEnds(w)
        /\ \E left \in {logoFile[FormatOf[r.file]], Half} :
             logoFile' = [logoFile EXCEPT ![FormatOf[r.file]] = left]
  /\ UNCHANGED <<attached, disk, logoSet, queued, uploads, stops>>

SetLogoURL(w) ==
  LET r == uploadReq[w] IN
  /\ r # Nil /\ r.step = "record"
  /\ \/ logoSet' = (r.op = "logo") /\ UploadGoes(w, "done") /\ UNCHANGED uploadFaults
     \/ UploadFails /\ UploadEnds(w) /\ UNCHANGED logoSet
  /\ UNCHANGED <<attached, disk, logoFile, queued, uploads, stops>>

LogoAnswered(w) ==
  /\ uploadReq[w] # Nil /\ uploadReq[w].step = "done"
  /\ UploadEnds(w)
  /\ UNCHANGED <<attached, disk, logoFile, logoSet, queued, uploads, uploadFaults, stops>>

\* handleServeLogo: the first file there is.
Served == IF logoFile["png"] # Nil THEN logoFile["png"] ELSE logoFile["svg"]

\* handleDownloadAttachment: of ticket t, the file of attachment a.
Downloaded(t, a) == IF attached[a] # Nil /\ attached[a].ticket = t THEN disk[a] ELSE Nil

\* The process stops; what it was doing stays half done.
Stop ==
  /\ stops < MaxStops /\ stops' = stops + 1
  /\ uploadReq' = [w \in Workers |-> Nil]
  /\ UNCHANGED <<attached, disk, logoFile, logoSet, queued, uploads, uploadFaults>>

UploadExhausted ==
  /\ uploads = MaxUploads /\ \A w \in Workers : uploadReq[w] = Nil
  /\ UNCHANGED uploadVars

UploadNext ==
  \/ \E w \in Workers :
       \/ HandleUploadAttachment(w) \/ HandleUploadLogo(w) \/ HandleDeleteLogo(w)
       \/ GetTicket(w) \/ ScanClamAV(w) \/ WriteAttachment(w) \/ CreateAttachment(w)
       \/ RemoveAttachment(w) \/ WriteLogo(w) \/ SetLogoURL(w) \/ LogoAnswered(w)
       \/ \E x \in Formats : DeleteLogoFile(w, x)
  \/ Stop \/ UploadExhausted

UploadSpec == UploadInit /\ [][UploadNext]_uploadVars

-----------------------------------------------------------------------------
(* What must hold.                                                         *)

\* What the database says was uploaded is on disk, whatever fails, overlaps or stops: an
\* attachment can be downloaded as it was uploaded, is of a kind that is admitted, and the
\* logo of an upload that was answered is the one served while requests come one at a time
\* and nothing failed; after a removal none is.  (handleUploadAttachment, handleUploadLogo)
RecordedIsOnDisk ==
  /\ \A a \in Attachments : attached[a] # Nil =>
       /\ Downloaded(attached[a].ticket, a) = attached[a].file
       /\ attached[a].file \notin Mistyped \cup Broken
  /\ queued /\ uploadFaults = 0 => \A w \in Workers :
       uploadReq[w] # Nil /\ uploadReq[w].step = "done" => Served = uploadReq[w].file
=============================================================================
