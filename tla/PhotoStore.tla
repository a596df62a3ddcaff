------------------------------ MODULE PhotoStore ------------------------------
(***************************************************************************)
(* Photos of articles: uploadPhoto and deletePhoto of article.service.ts,  *)
(* which keep a row in the database and a file at Cloudinary in step,      *)
(* without a transaction that spans both.                                  *)
(*                                                                         *)
(* Abstractions.  A photo row is named by its file: publicId is unique and *)
(* an upload makes a row at most once, so photoId and imageUrl tell no     *)
(* more.  Destroying a file that is not there is an answer of Cloudinary   *)
(* ("not found"), not an error.                                            *)
(***************************************************************************)
EXTENDS Naturals

CONSTANTS
    Articles,       \* ids of article rows; the code deletes none
    Unknown,        \* an id in a path that no article has
    Requests,       \* slots for the requests in progress
    None,           \* absent value
    Faults,         \* what may fail, see FaultKinds
    MaxCalls        \* BOUND: calls begun in a behaviour

(* An upload fails; an insert fails; an insert is done and its answer      *)
(* lost; a destroy fails; a removal of a row fails; a handler is cut short.*)
FaultKinds == {"upload", "insert", "doubt", "destroy", "remove", "abort"}

ASSUME PhotoAssumption ==
    /\ Unknown \notin Articles /\ None \notin Articles \cup {Unknown}
    /\ Faults \subseteq FaultKinds
    /\ MaxCalls \in Nat

VARIABLES
    files,          \* files at Cloudinary
    photos,         \* rows of photo
    requests,       \* handlers in progress
    uploads,        \* files ever stored
    calls,          \* calls begun
    asked,          \* history: photos whose row a delete has found
    spoiled         \* history: files a fault of an add has touched

vars == <<files, photos, requests, uploads, calls, asked, spoiled>>

-----------------------------------------------------------------------------
Files == Nat \ {0}
PhotoRows == [article : Articles, file : Files]

Steps == {"idle", "findArticle", "upload", "createRow", "cleanUp", "findPhoto",
          "deleteFile", "deleteRow"}

RequestRecords ==
    [op : {"add", "delete", None}, pc : Steps, article : Articles \cup {Unknown, None},
     file : Nat]

Idle == [op |-> None, pc |-> "idle", article |-> None, file |-> 0]

At(r, step) == requests[r].pc = step
Go(r, step) == requests' = [requests EXCEPT ![r].pc = step]
Reply(r) == requests' = [requests EXCEPT ![r] = Idle]

RowOf(r) == [article |-> requests[r].article, file |-> requests[r].file]
HasRow(f) == \E p \in photos : p.file = f

-----------------------------------------------------------------------------
(* The calls, and the look-up both begin with.  The ids in a path are      *)
(* those a client has seen, or none that exists.                           *)

Begin(r, q) ==
    /\ At(r, "idle")
    /\ calls < MaxCalls
    /\ calls' = calls + 1
    /\ requests' = [requests EXCEPT ![r] = q]
    /\ UNCHANGED <<files, photos, uploads, asked, spoiled>>

UploadPhoto(r, a) ==
    Begin(r, [Idle EXCEPT !.op = "add", !.pc = "findArticle", !.article = a])

DeletePhoto(r, a, f) ==
    Begin(r, [op |-> "delete", pc |-> "findArticle", article |-> a, file |-> f])

FindArticle(r) ==
    /\ At(r, "findArticle")
    /\ IF requests[r].article \notin Articles THEN Reply(r)
       ELSE Go(r, IF requests[r].op = "add" THEN "upload" ELSE "findPhoto")
    /\ UNCHANGED <<files, photos, uploads, calls, asked, spoiled>>

-----------------------------------------------------------------------------
(* add                                                                     *)

Store == files' = files \cup {uploads + 1} /\ uploads' = uploads + 1

(* An upload that fails may have stored the file all the same.             *)
Upload(r) ==
    /\ At(r, "upload")
    /\ \/ /\ Store
          /\ requests' = [requests EXCEPT ![r].pc = "createRow", ![r].file = uploads + 1]
          /\ UNCHANGED spoiled
       \/ /\ "upload" \in Faults
          /\ \/ UNCHANGED <<files, uploads, spoiled>>
             \/ Store /\ spoiled' = spoiled \cup {uploads + 1}
          /\ Reply(r)
    /\ UNCHANGED <<photos, calls, asked>>

(* Faulty form: no catch.                                                  *)
InsertWithoutCatch(r) ==
    /\ At(r, "createRow")
    /\ photos' \in {photos \cup {RowOf(r)}} \cup (IF "insert" \in Faults THEN {photos} ELSE {})
    /\ Reply(r)
    /\ UNCHANGED <<files, uploads, calls, asked, spoiled>>

(* An insert whose answer is lost is in the table, and cleaned up after.   *)
CreateRow(r) ==
    /\ At(r, "createRow")
    /\ \/ photos' = photos \cup {RowOf(r)} /\ Reply(r) /\ UNCHANGED spoiled
       \/ "insert" \in Faults /\ Go(r, "cleanUp") /\ UNCHANGED <<photos, spoiled>>
       \/ /\ "doubt" \in Faults
          /\ photos' = photos \cup {RowOf(r)}
          /\ spoiled' = spoiled \cup {requests[r].file}
          /\ Go(r, "cleanUp")
    /\ UNCHANGED <<files, uploads, calls, asked>>

CleanUp(r) ==
    /\ At(r, "cleanUp")
    /\ \/ files' = files \ {requests[r].file} /\ UNCHANGED spoiled
       \/ /\ "destroy" \in Faults
          /\ spoiled' = spoiled \cup {requests[r].file}
          /\ UNCHANGED files
    /\ Reply(r)
    /\ UNCHANGED <<photos, uploads, calls, asked>>

-----------------------------------------------------------------------------
(* delete                                                                  *)

(* findFirst({ where: { photoId, articleId } })                            *)
FindPhoto(r) ==
    /\ At(r, "findPhoto")
    /\ IF RowOf(r) \in photos
       THEN Go(r, "deleteFile") /\ asked' = asked \cup {requests[r].file}
       ELSE Reply(r) /\ UNCHANGED asked
    /\ UNCHANGED <<files, photos, uploads, calls, spoiled>>

(* A destroy that fails may have been done.                                *)
DeleteFile(r) ==
    /\ At(r, "deleteFile")
    /\ \/ files' = files \ {requests[r].file} /\ Go(r, "deleteRow")
       \/ /\ "destroy" \in Faults
          /\ files' \in {files, files \ {requests[r].file}}
          /\ Reply(r)
    /\ UNCHANGED <<photos, uploads, calls, asked, spoiled>>

(* A row that another delete removed first is an error too, P2025.         *)
DeleteRow(r) ==
    /\ At(r, "deleteRow")
    /\ \/ photos' = {p \in photos : p.file # requests[r].file}
       \/ "remove" \in Faults /\ UNCHANGED photos
    /\ Reply(r)
    /\ UNCHANGED <<files, uploads, calls, asked, spoiled>>

(* The process stops.                                                      *)
Abort(r) ==
    /\ "abort" \in Faults
    /\ ~At(r, "idle")
    /\ spoiled' = IF requests[r].op = "add" /\ ~At(r, "findArticle") /\ ~At(r, "upload")
                  THEN spoiled \cup {requests[r].file} ELSE spoiled
    /\ Reply(r)
    /\ UNCHANGED <<files, photos, uploads, calls, asked>>

-----------------------------------------------------------------------------
Init ==
    /\ files = {} /\ photos = {} /\ uploads = 0 /\ calls = 0
    /\ asked = {} /\ spoiled = {}
    /\ requests = [r \in Requests |-> Idle]

Call(r) ==
    \E a \in Articles \cup {Unknown} :
        \/ UploadPhoto(r, a)
        \/ \E f \in 0..uploads : DeletePhoto(r, a, f)

Step(r) ==
    \/ FindArticle(r) \/ Upload(r) \/ CreateRow(r) \/ CleanUp(r)
    \/ FindPhoto(r) \/ DeleteFile(r) \/ DeleteRow(r)

Next == \E r \in Requests : Call(r) \/ Step(r) \/ Abort(r)

Spec == Init /\ [][Next]_vars

-----------------------------------------------------------------------------
(* Properties.                                                             *)

TypeOK ==
    /\ files \subseteq Files /\ asked \subseteq Files /\ spoiled \subseteq Files
    /\ photos \subseteq PhotoRows
    /\ uploads \in Nat /\ calls \in 0..MaxCalls
    /\ requests \in [Requests -> RequestRecords]

(* A photo that is listed has its file, whatever fails and however deletes *)
(* race, unless somebody has asked to delete it, or the insert of its row  *)
(* was done and reported as failed.                                        *)
RowHasFile == \A p \in photos : p.file \in files \cup asked \cup spoiled

(* A file that is not listed though nobody asked to delete it is in the    *)
(* hands of an upload in progress, or is what a fault of its upload left.  *)
FileHasRow ==
    \A f \in files \ asked :
        \/ HasRow(f)
        \/ f \in spoiled
        \/ \E r \in Requests : requests[r].op = "add" /\ requests[r].file = f

(* delete of photo.service.ts takes the file first: no file outlives the   *)
(* row that names it, so whatever step of a delete failed, the row is      *)
(* there to delete it again.                                               *)
FileGoesFirst == \A f \in asked : HasRow(f) \/ f \notin files

(* The table and the store are in step, as far as the code can keep them.  *)
InStep == RowHasFile /\ FileHasRow /\ FileGoesFirst
=============================================================================
