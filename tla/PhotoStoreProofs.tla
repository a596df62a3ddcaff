----------------------------- MODULE PhotoStoreProofs -----------------------------
(***************************************************************************)
(* What PhotoStore guarantees for any number of articles, photos and       *)
(* requests, whichever of the faults there are.                            *)
(***************************************************************************)
EXTENDS PhotoStore, TLAPS

(* Files are numbered as they are stored.                                  *)
Numbered ==
    /\ files \cup asked \cup spoiled \subseteq 1..uploads
    /\ \A p \in photos : p.file \in 1..uploads

(* What a handler keeps across its awaits.                                 *)
Handler(q) ==
    /\ q.pc = "idle" => q.file = 0
    /\ q.pc = "findArticle" => q.op \in {"add", "delete"} /\ (q.op = "add" => q.file = 0)
    /\ q.pc = "upload" => q.op = "add" /\ q.file = 0 /\ q.article \in Articles
    /\ q.pc \in {"createRow", "cleanUp"} =>
          q.op = "add" /\ q.file \in 1..uploads /\ q.article \in Articles
    /\ q.pc = "createRow" => q.file \in files \ asked /\ ~HasRow(q.file)
    /\ q.pc = "cleanUp" => ~HasRow(q.file) \/ q.file \in spoiled
    /\ q.pc \in {"findPhoto", "deleteFile", "deleteRow"} => q.op = "delete"
    /\ q.pc \in {"deleteFile", "deleteRow"} => q.file \in asked
    /\ q.pc = "deleteRow" => q.file \notin files

Handlers == \A r \in Requests : Handler(requests[r])

(* No two adds have the same file.                                         *)
Holds(q, f) == q.pc \in {"createRow", "cleanUp"} /\ q.file = f

Apart ==
    \A r, s \in Requests :
        Holds(requests[r], requests[s].file) /\ Holds(requests[s], requests[s].file) => r = s

Inv ==
    /\ TypeOK
    /\ Numbered
    /\ Handlers
    /\ Apart
    /\ RowHasFile
    /\ FileHasRow
    /\ FileGoesFirst

-----------------------------------------------------------------------------
LEMMA IdleType == Idle \in RequestRecords
  BY DEF Idle, RequestRecords, Steps

(* The initial state satisfies the inductive invariant.                    *)
LEMMA InitInv == Init => Inv
<1> SUFFICES ASSUME Init PROVE Inv
  OBVIOUS
<1>1. /\ requests \in [Requests -> RequestRecords]
      /\ \A r \in Requests : requests[r] = Idle
  BY IdleType DEF Init
<1>2. TypeOK /\ Numbered /\ RowHasFile /\ FileHasRow /\ FileGoesFirst
  BY <1>1, PhotoAssumption DEF Init, TypeOK, Numbered, RowHasFile, FileHasRow, FileGoesFirst
<1>3. Handlers /\ Apart
  BY <1>1 DEF Handlers, Handler, Apart, Holds, Idle
<1> QED
  BY <1>2, <1>3 DEF Inv

(* What the invariant says of one handler.                                 *)
LEMMA RequestFacts ==
  ASSUME Inv, NEW r \in Requests
  PROVE  /\ requests[r] \in RequestRecords
         /\ Handler(requests[r])
         /\ requests[r].pc \in Steps
         /\ requests[r].file \in Nat
  BY DEF Inv, TypeOK, Handlers, RequestRecords

(* A step of r that changes its own record: what is left to show is what   *)
(* the tables and the records of others need.                              *)
LEMMA RecordStep ==
  ASSUME Inv, NEW r \in Requests, NEW Q \in RequestRecords,
         requests' = [requests EXCEPT ![r] = Q],
         calls' \in 0..MaxCalls, uploads' \in Nat,
         files' \subseteq 1..uploads', asked' \subseteq 1..uploads',
         spoiled' \subseteq 1..uploads',
         photos' \subseteq PhotoRows, \A p \in photos' : p.file \in 1..uploads',
         Handler(Q)', \A s \in Requests \ {r} : Handler(requests[s])',
         \A s \in Requests \ {r} :
            ~(Holds(Q, requests[s].file) /\ Holds(requests[s], Q.file))
  PROVE  TypeOK' /\ Numbered' /\ Handlers' /\ Apart'
<1>1. /\ requests' \in [Requests -> RequestRecords]
      /\ requests'[r] = Q
      /\ \A s \in Requests \ {r} : requests'[s] = requests[s]
  BY DEF Inv, TypeOK
<1>2. TypeOK' /\ Numbered'
  BY <1>1 DEF TypeOK, Numbered, Files
<1>3. Handlers'
  BY <1>1 DEF Handlers, Handler, HasRow
<1>4. Apart'
  BY <1>1 DEF Inv, Apart, Holds
<1> QED
  BY <1>2, <1>3, <1>4

(* The rest of the invariant, of the tables and the other handlers.        *)
LEMMA Unfold ==
  ASSUME Inv, NEW r \in Requests, NEW Q \in RequestRecords,
         requests' = [requests EXCEPT ![r] = Q]
  PROVE  /\ requests'[r] = Q
         /\ \A s \in Requests \ {r} : requests'[s] = requests[s]
         /\ calls \in 0..MaxCalls /\ uploads \in Nat
         /\ files \subseteq 1..uploads /\ asked \subseteq 1..uploads
         /\ spoiled \subseteq 1..uploads
         /\ photos \subseteq PhotoRows /\ \A p \in photos : p.file \in 1..uploads
         /\ \A s \in Requests : Handler(requests[s])
         /\ Apart /\ RowHasFile /\ FileHasRow /\ FileGoesFirst
  BY DEF Inv, TypeOK, Handlers, Numbered

(* A handler that ends, or goes on, without touching the tables.           *)
LEMMA QuietStep ==
  ASSUME Inv, NEW r \in Requests, NEW Q \in RequestRecords,
         requests' = [requests EXCEPT ![r] = Q], Handler(Q),
         calls' \in 0..MaxCalls, UNCHANGED <<files, photos, uploads, asked, spoiled>>,
         Q.pc \in {"createRow", "cleanUp"} =>
            Q.file = requests[r].file /\ requests[r].pc \in {"createRow", "cleanUp"},
         requests[r].op = "add" =>
            \/ Q.op = "add" /\ Q.file = requests[r].file
            \/ requests[r].file \in spoiled \/ requests[r].file \notin files
  PROVE  Inv'
<1>1. /\ requests'[r] = Q
      /\ \A s \in Requests \ {r} : requests'[s] = requests[s]
  BY Unfold
<1>2. TypeOK' /\ Numbered' /\ Handlers' /\ Apart'
  <2>1. Handler(Q)' /\ \A s \in Requests \ {r} : Handler(requests[s])'
    <3>1. Handler(Q)'
      BY DEF Handler, HasRow
    <3>2. ASSUME NEW s \in Requests \ {r} PROVE Handler(requests[s])'
      <4>1. Handler(requests[s]) /\ requests'[s] = requests[s]
        BY <1>1, Unfold
      <4> QED
        BY <4>1 DEF Handler, HasRow
    <3> QED
      BY <3>1, <3>2
  <2>2. \A s \in Requests \ {r} :
           ~(Holds(Q, requests[s].file) /\ Holds(requests[s], Q.file))
    BY Unfold DEF Apart, Holds
  <2> QED
    BY <2>1, <2>2, Unfold, RecordStep
<1>3. RowHasFile' /\ FileGoesFirst'
  BY Unfold DEF RowHasFile, FileGoesFirst, HasRow
<1>4. FileHasRow'
  <2> SUFFICES ASSUME NEW f \in files \ asked, ~HasRow(f), f \notin spoiled
               PROVE  \E s \in Requests : requests'[s].op = "add" /\ requests'[s].file = f
    BY DEF FileHasRow, HasRow
  <2>1. PICK s \in Requests : requests[s].op = "add" /\ requests[s].file = f
    BY Unfold DEF FileHasRow
  <2> QED
    BY <1>1, <2>1
<1> QED
  BY <1>2, <1>3, <1>4 DEF Inv

(* A call begins.                                                          *)
LEMMA BeginStep ==
  ASSUME Inv, NEW r \in Requests, NEW q \in RequestRecords, Begin(r, q),
         q.pc = "findArticle", q.op \in {"add", "delete"}, q.op = "add" => q.file = 0
  PROVE  Inv'
<1>1. requests[r].file = 0 /\ 0 \notin files
  BY RequestFacts DEF Begin, At, Handler, Inv, Numbered
<1>2. Handler(q)
  BY DEF Handler
<1>3. calls' \in 0..MaxCalls
  BY PhotoAssumption DEF Begin, Inv, TypeOK
<1>4. /\ requests' = [requests EXCEPT ![r] = q]
      /\ UNCHANGED <<files, photos, uploads, asked, spoiled>>
  BY DEF Begin
<1> QED
  BY <1>1, <1>2, <1>3, <1>4, QuietStep

LEMMA CallStep ==
  ASSUME Inv, NEW r \in Requests, Call(r)
  PROVE  Inv'
<1> PICK a \in Articles \cup {Unknown} :
        \/ UploadPhoto(r, a)
        \/ \E f \in 0..uploads : DeletePhoto(r, a, f)
  BY DEF Call
<1>1. CASE UploadPhoto(r, a)
  <2> DEFINE q == [Idle EXCEPT !.op = "add", !.pc = "findArticle", !.article = a]
  <2>1. /\ q \in RequestRecords
        /\ q.pc = "findArticle" /\ q.op = "add" /\ q.file = 0
    BY DEF Idle, RequestRecords, Steps
  <2>2. Begin(r, q)
    BY <1>1 DEF UploadPhoto
  <2> HIDE DEF q
  <2> QED
    BY <2>1, <2>2, BeginStep
<1>2. ASSUME NEW f \in 0..uploads, DeletePhoto(r, a, f)
      PROVE  Inv'
  <2> DEFINE q == [op |-> "delete", pc |-> "findArticle", article |-> a, file |-> f]
  <2>1. f \in Nat
    BY DEF Inv, TypeOK
  <2>2. /\ q \in RequestRecords
        /\ q.pc = "findArticle" /\ q.op = "delete"
    BY <2>1 DEF RequestRecords, Steps
  <2>3. Begin(r, q)
    BY <1>2 DEF DeletePhoto
  <2> HIDE DEF q
  <2> QED
    BY <2>2, <2>3, BeginStep
<1> QED
  BY <1>1, <1>2

(* What the two ways to go on make of a handler.                           *)
LEMMA GoFacts ==
  ASSUME Inv, NEW r \in Requests, NEW pc \in Steps
  PROVE  /\ [requests[r] EXCEPT !.pc = pc] \in RequestRecords
         /\ [requests[r] EXCEPT !.pc = pc].pc = pc
         /\ [requests[r] EXCEPT !.pc = pc].op = requests[r].op
         /\ [requests[r] EXCEPT !.pc = pc].file = requests[r].file
         /\ [requests[r] EXCEPT !.pc = pc].article = requests[r].article
         /\ Go(r, pc) => requests' = [requests EXCEPT ![r] = [requests[r] EXCEPT !.pc = pc]]
<1>1. requests[r] \in RequestRecords
  BY RequestFacts
<1> QED
  BY <1>1 DEF RequestRecords, Go

LEMMA IdleFacts ==
  /\ Idle \in RequestRecords
  /\ Idle.pc = "idle" /\ Idle.file = 0
  /\ Handler(Idle) /\ Handler(Idle)'
  BY IdleType DEF Idle, Handler

(* The answer of a handler that leaves everything as it is.                *)
LEMMA QuietReply ==
  ASSUME Inv, NEW r \in Requests, Reply(r), calls' = calls,
         UNCHANGED <<files, photos, uploads, asked, spoiled>>,
         requests[r].op = "add" =>
            requests[r].file \in spoiled \/ requests[r].file \notin files
  PROVE  Inv'
<1>1. calls' \in 0..MaxCalls /\ requests' = [requests EXCEPT ![r] = Idle]
  BY DEF Inv, TypeOK, Reply
<1> QED
  BY <1>1, IdleFacts, QuietStep

(* A handler that goes on and leaves everything as it is.                  *)
LEMMA QuietGo ==
  ASSUME Inv, NEW r \in Requests, NEW pc \in Steps, Go(r, pc), calls' = calls,
         UNCHANGED <<files, photos, uploads, asked, spoiled>>,
         Handler([requests[r] EXCEPT !.pc = pc]),
         pc \in {"createRow", "cleanUp"} => requests[r].pc \in {"createRow", "cleanUp"}
  PROVE  Inv'
<1> DEFINE Q == [requests[r] EXCEPT !.pc = pc]
<1>1. /\ Q \in RequestRecords /\ Q.pc = pc
      /\ Q.op = requests[r].op /\ Q.file = requests[r].file
      /\ requests' = [requests EXCEPT ![r] = Q]
  BY GoFacts
<1>2. Handler(Q) /\ calls' \in 0..MaxCalls
  BY DEF Inv, TypeOK
<1> HIDE DEF Q
<1> QED
  BY <1>1, <1>2, QuietStep

(* The look-up of the article, and the answer that there is none.          *)
LEMMA FindArticleStep ==
  ASSUME Inv, NEW r \in Requests, FindArticle(r)
  PROVE  Inv'
<1>1. /\ requests[r].op \in {"add", "delete"}
      /\ requests[r].op = "add" => requests[r].file = 0
      /\ 0 \notin files
  BY RequestFacts DEF FindArticle, At, Handler, Inv, Numbered
<1>2. CASE requests[r].article \notin Articles
  <2>1. Reply(r)
    BY <1>2 DEF FindArticle
  <2> QED
    BY <1>1, <2>1, QuietReply DEF FindArticle
<1>3. CASE requests[r].article \in Articles
  <2> DEFINE pc == IF requests[r].op = "add" THEN "upload" ELSE "findPhoto"
             Q == [requests[r] EXCEPT !.pc = pc]
  <2>1. pc \in Steps /\ Go(r, pc)
    BY <1>3 DEF FindArticle, Steps
  <2>2. /\ Q.pc = pc /\ Q.op = requests[r].op
        /\ Q.file = requests[r].file /\ Q.article = requests[r].article
    BY <2>1, GoFacts
  <2>3. Handler(Q)
    <3> HIDE DEF Q
    <3> QED
      BY <1>1, <1>3, <2>2 DEF Handler
  <2>4. pc \notin {"createRow", "cleanUp"}
    OBVIOUS
  <2> HIDE DEF pc
  <2> QED
    BY <2>1, <2>3, <2>4, QuietGo DEF FindArticle
<1> QED
  BY <1>2, <1>3

(* The file is stored, or the upload fails, with the file or without.      *)
LEMMA UploadStep ==
  ASSUME Inv, NEW r \in Requests, Upload(r)
  PROVE  Inv'
<1>1. /\ requests[r].op = "add" /\ requests[r].file = 0 /\ requests[r].article \in Articles
      /\ requests[r] \in RequestRecords
  BY RequestFacts DEF Upload, At, Handler
<1>2. /\ uploads \in Nat /\ uploads + 1 \in 1..(uploads + 1)
      /\ files \subseteq 1..uploads /\ asked \subseteq 1..uploads
      /\ spoiled \subseteq 1..uploads
      /\ photos \subseteq PhotoRows /\ \A p \in photos : p.file \in 1..uploads
      /\ calls \in 0..MaxCalls
  BY DEF Inv, TypeOK, Numbered
<1>3. /\ photos' = photos /\ asked' = asked /\ calls' = calls
  BY DEF Upload
<1>4. ASSUME Store, NEW Q \in RequestRecords, requests' = [requests EXCEPT ![r] = Q],
             spoiled' \in {spoiled, spoiled \cup {uploads + 1}},
             \/ Q.pc = "idle" /\ Q.file = 0 /\ uploads + 1 \in spoiled'
             \/ /\ Q.pc = "createRow" /\ Q.op = "add" /\ Q.file = uploads + 1
                /\ Q.article \in Articles
      PROVE  Inv'
  <2>1. files' = files \cup {uploads + 1} /\ uploads' = uploads + 1
    BY <1>4 DEF Store
  <2>2. /\ requests'[r] = Q
        /\ \A s \in Requests \ {r} : requests'[s] = requests[s]
    BY <1>4, Unfold
  <2>3. /\ files' \subseteq 1..uploads' /\ asked' \subseteq 1..uploads'
        /\ spoiled' \subseteq 1..uploads'
        /\ \A p \in photos' : p.file \in 1..uploads'
    BY <1>2, <1>3, <1>4, <2>1
  <2>4. ~HasRow(uploads + 1) /\ uploads + 1 \notin asked
    BY <1>2 DEF HasRow
  <2>5. Handler(Q)'
    BY <1>2, <1>3, <1>4, <2>1, <2>4 DEF Handler, HasRow
  <2>6. ASSUME NEW s \in Requests \ {r} PROVE Handler(requests[s])'
    <3>1. Handler(requests[s]) /\ requests'[s] = requests[s]
      BY <2>2, RequestFacts
    <3>2. spoiled \subseteq spoiled'
      BY <1>4
    <3> QED
      BY <1>2, <1>3, <2>1, <3>1, <3>2 DEF Handler, HasRow
  <2>7. ASSUME NEW s \in Requests \ {r}
        PROVE  ~(Holds(Q, requests[s].file) /\ Holds(requests[s], Q.file))
    BY <1>2, <1>4, RequestFacts DEF Holds, Handler
  <2>8. TypeOK' /\ Numbered' /\ Handlers' /\ Apart'
    <3>1. /\ uploads' \in Nat /\ calls' \in 0..MaxCalls /\ photos' \subseteq PhotoRows
          /\ requests' = [requests EXCEPT ![r] = Q]
      BY <1>2, <1>3, <1>4, <2>1
    <3> QED
      BY <2>3, <2>5, <2>6, <2>7, <3>1, RecordStep
  <2>9. RowHasFile' /\ FileGoesFirst'
    BY <1>2, <1>3, <1>4, <2>1, <2>4 DEF Inv, RowHasFile, FileGoesFirst, HasRow
  <2>10. FileHasRow'
    <3> SUFFICES ASSUME NEW f \in files' \ asked', ~HasRow(f), f \notin spoiled'
                 PROVE  \E s \in Requests : requests'[s].op = "add" /\ requests'[s].file = f
      BY <1>3 DEF FileHasRow, HasRow
    <3>1. CASE f = uploads + 1
      BY <1>4, <2>2, <3>1
    <3>2. CASE f \in files \ asked
      <4>1. PICK s \in Requests : requests[s].op = "add" /\ requests[s].file = f
        BY <1>4, <3>2 DEF Inv, FileHasRow
      <4>2. s # r
        BY <1>1, <1>2, <3>2, <4>1
      <4> QED
        BY <2>2, <4>1, <4>2
    <3> QED
      BY <1>3, <2>1, <3>1, <3>2
  <2> QED
    BY <2>8, <2>9, <2>10 DEF Inv
<1>5. CASE /\ Store
           /\ requests' = [requests EXCEPT ![r].pc = "createRow", ![r].file = uploads + 1]
           /\ UNCHANGED spoiled
  <2> DEFINE pc == "createRow"
             f == uploads + 1
             Q == [requests[r] EXCEPT !.pc = pc, !.file = f]
  <2>1. pc \in Steps /\ f \in Nat
    BY <1>2 DEF Steps
  <2>2. requests' = [requests EXCEPT ![r] = Q]
    BY <1>1, <1>5 DEF RequestRecords
  <2>3. /\ Q \in RequestRecords /\ Q.pc = pc /\ Q.file = f
        /\ Q.op = requests[r].op /\ Q.article = requests[r].article
    <3> HIDE DEF pc, f
    <3> QED
      BY <1>1, <2>1 DEF RequestRecords
  <2> HIDE DEF Q
  <2> QED
    BY <1>1, <1>4, <1>5, <2>2, <2>3
<1>6. CASE Store /\ spoiled' = spoiled \cup {uploads + 1} /\ Reply(r)
  BY <1>4, <1>6, IdleFacts DEF Reply
<1>7. CASE UNCHANGED <<files, uploads, spoiled>> /\ Reply(r)
  BY <1>1, <1>2, <1>3, <1>7, QuietReply
<1> QED
  BY <1>5, <1>6, <1>7 DEF Upload

(* A step of r that changes rows and files: it may take away only what a   *)
(* delete has asked for or what r holds, ask only for what has a row, and  *)
(* add only the row of the file it holds.                                  *)
LEMMA TableStep ==
  ASSUME Inv, NEW r \in Requests, NEW Q \in RequestRecords,
         requests' = [requests EXCEPT ![r] = Q], Handler(Q)',
         uploads' = uploads, calls' = calls, files' \subseteq files,
         asked \subseteq asked', \A f \in asked' \ asked : HasRow(f) /\ f \in 1..uploads,
         spoiled \subseteq spoiled', spoiled' \subseteq 1..uploads,
         \A f \in files \ files' : f \in asked \/ Holds(requests[r], f),
         photos' \subseteq photos \/
            /\ photos' = photos \cup {RowOf(r)}
            /\ Holds(requests[r], requests[r].file),
         Q.pc \in {"createRow", "cleanUp"} =>
            Q.file = requests[r].file /\ requests[r].pc \in {"createRow", "cleanUp"},
         RowHasFile', FileHasRow', FileGoesFirst'
  PROVE  Inv'
<1>1. /\ calls \in 0..MaxCalls /\ uploads \in Nat
      /\ files \subseteq 1..uploads /\ asked \subseteq 1..uploads
      /\ photos \subseteq PhotoRows /\ \A p \in photos : p.file \in 1..uploads
      /\ \A s \in Requests : Handler(requests[s])
      /\ Apart
  BY Unfold
<1>2. Holds(requests[r], requests[r].file) =>
         /\ RowOf(r) \in PhotoRows /\ RowOf(r).file = requests[r].file
         /\ requests[r].file \in 1..uploads
  BY <1>1 DEF Holds, Handler, RowOf, PhotoRows, Files
<1>3. photos' \subseteq PhotoRows /\ \A p \in photos' : p.file \in 1..uploads
  BY <1>1, <1>2
<1>4. ASSUME NEW s \in Requests \ {r} PROVE Handler(requests[s])'
  <2>1. requests'[s] = requests[s] /\ Handler(requests[s]) /\ requests[s].file \in Nat
    BY <1>1, RequestFacts DEF Inv, TypeOK
  <2> PICK f : f = requests[s].file
    OBVIOUS
  <2>2. CASE Holds(requests[s], f)
    <3>1. ~Holds(requests[r], f)
      BY <1>1, <2>2 DEF Apart, Holds
    <3>2. ~HasRow(f) => ~HasRow(f)'
      BY <1>2, <3>1 DEF HasRow, Holds
    <3>3. requests[s].pc = "createRow" => f \in files' \ asked'
      BY <1>1, <2>1, <2>2, <3>1 DEF Handler
    <3>4. requests[s].pc \in {"createRow", "cleanUp"}
      BY <2>2 DEF Holds
    <3> QED
      BY <2>1, <3>2, <3>3, <3>4 DEF Handler
  <2>3. CASE ~Holds(requests[s], f)
    BY <2>1, <2>3 DEF Handler, Holds
  <2> QED
    BY <2>2, <2>3
<1>5. ASSUME NEW s \in Requests \ {r}
      PROVE  ~(Holds(Q, requests[s].file) /\ Holds(requests[s], Q.file))
  BY <1>1 DEF Apart, Holds
<1>6. /\ uploads' \in Nat /\ calls' \in 0..MaxCalls
      /\ files' \subseteq 1..uploads' /\ asked' \subseteq 1..uploads'
      /\ spoiled' \subseteq 1..uploads'
      /\ \A p \in photos' : p.file \in 1..uploads'
  BY <1>1, <1>3
<1>7. TypeOK' /\ Numbered' /\ Handlers' /\ Apart'
  BY <1>3, <1>4, <1>5, <1>6, RecordStep
<1> QED
  BY <1>7 DEF Inv

(* The insert: done, refused, or done and reported as failed.              *)
LEMMA CreateRowStep ==
  ASSUME Inv, NEW r \in Requests, CreateRow(r)
  PROVE  Inv'
<1> DEFINE f == requests[r].file
<1>1. /\ requests[r].pc = "createRow" /\ requests[r].op = "add"
      /\ f \in 1..uploads /\ f \in files \ asked /\ ~HasRow(f)
      /\ Holds(requests[r], f) /\ RowOf(r).file = f
      /\ requests[r].article \in Articles
  BY RequestFacts DEF CreateRow, At, Handler, Holds, RowOf
<1>2. /\ files' = files /\ uploads' = uploads /\ calls' = calls /\ asked' = asked
  BY DEF CreateRow
<1>3. spoiled \subseteq 1..uploads
  BY DEF Inv, Numbered
<1>4. ASSUME NEW Q \in RequestRecords, requests' = [requests EXCEPT ![r] = Q],
             photos' = photos \cup {RowOf(r)},
             spoiled' \in {spoiled, spoiled \cup {f}},
             \/ Q = Idle
             \/ /\ Q.pc = "cleanUp" /\ Q.op = "add" /\ Q.file = f
                /\ Q.article \in Articles /\ f \in spoiled'
      PROVE  Inv'
  <2>1. RowHasFile' /\ FileGoesFirst'
    BY <1>1, <1>2, <1>4 DEF Inv, RowHasFile, FileGoesFirst, HasRow
  <2>2. FileHasRow'
    <3> SUFFICES ASSUME NEW g \in files \ asked, ~HasRow(g)', g \notin spoiled'
                 PROVE  \E s \in Requests : requests'[s].op = "add" /\ requests'[s].file = g
      BY <1>2 DEF FileHasRow
    <3>1. ~HasRow(g) /\ g # f
      BY <1>1, <1>4 DEF HasRow
    <3>2. PICK s \in Requests : requests[s].op = "add" /\ requests[s].file = g
      BY <1>4, <3>1 DEF Inv, FileHasRow
    <3>3. s # r
      BY <3>1, <3>2
    <3> QED
      BY <1>4, <3>2, <3>3, Unfold
  <2>3. Handler(Q)'
    BY <1>1, <1>2, <1>4, IdleFacts DEF Handler
  <2>4. /\ spoiled \subseteq spoiled' /\ spoiled' \subseteq 1..uploads
        /\ Q.pc \in {"createRow", "cleanUp"} => Q.file = f
    BY <1>1, <1>3, <1>4, IdleFacts
  <2> HIDE DEF f
  <2>5. f = requests[r].file
    BY DEF f
  <2> QED
    BY <1>1, <1>2, <1>4, <2>1, <2>2, <2>3, <2>4, <2>5, TableStep
<1>5. CASE photos' = photos \cup {RowOf(r)} /\ Reply(r) /\ UNCHANGED spoiled
  BY <1>4, <1>5, IdleFacts DEF Reply
<1>6. CASE /\ photos' = photos \cup {RowOf(r)} /\ spoiled' = spoiled \cup {f}
           /\ Go(r, "cleanUp")
  <2> DEFINE Q == [requests[r] EXCEPT !.pc = "cleanUp"]
  <2>1. /\ Q \in RequestRecords /\ Q.pc = "cleanUp" /\ Q.op = "add"
        /\ Q.file = f /\ Q.article \in Articles
        /\ requests' = [requests EXCEPT ![r] = Q]
    BY <1>1, <1>6, GoFacts DEF Steps
  <2> HIDE DEF Q
  <2> QED
    BY <1>4, <1>6, <2>1
<1>7. CASE Go(r, "cleanUp") /\ UNCHANGED <<photos, spoiled>>
  <2> DEFINE Q == [requests[r] EXCEPT !.pc = "cleanUp"]
  <2>1. /\ Q.pc = "cleanUp" /\ Q.op = "add" /\ Q.file = f /\ Q.article \in Articles
        /\ "cleanUp" \in Steps
    BY <1>1, GoFacts DEF Steps
  <2>2. Handler(Q)
    <3> HIDE DEF Q
    <3> QED
      BY <1>1, <2>1 DEF Handler
  <2> QED
    BY <1>1, <1>2, <1>7, <2>1, <2>2, QuietGo
<1> QED
  BY <1>5, <1>6, <1>7 DEF CreateRow

(* The clean-up after a failed insert.                                     *)
LEMMA CleanUpStep ==
  ASSUME Inv, NEW r \in Requests, CleanUp(r)
  PROVE  Inv'
<1> PICK f : f = requests[r].file
  OBVIOUS
<1>1. /\ requests[r].pc = "cleanUp" /\ requests[r].op = "add"
      /\ f \in 1..uploads /\ (~HasRow(f) \/ f \in spoiled)
      /\ Holds(requests[r], f)
  BY RequestFacts DEF CleanUp, At, Handler, Holds
<1>2. /\ photos' = photos /\ uploads' = uploads /\ calls' = calls /\ asked' = asked
      /\ requests' = [requests EXCEPT ![r] = Idle]
  BY DEF CleanUp, Reply
<1>3. \/ files' = files \ {f} /\ spoiled' = spoiled
      \/ files' = files /\ spoiled' = spoiled \cup {f}
  BY DEF CleanUp
<1>4. RowHasFile' /\ FileGoesFirst'
  BY <1>1, <1>2, <1>3 DEF Inv, RowHasFile, FileGoesFirst, HasRow
<1>5. FileHasRow'
  <2> SUFFICES ASSUME NEW g \in files' \ asked, ~HasRow(g), g \notin spoiled'
               PROVE  \E s \in Requests : requests'[s].op = "add" /\ requests'[s].file = g
    BY <1>2 DEF FileHasRow, HasRow
  <2>1. PICK s \in Requests : requests[s].op = "add" /\ requests[s].file = g
    BY <1>3 DEF Inv, FileHasRow
  <2>2. s # r
    BY <1>3, <2>1
  <2> QED
    BY <1>2, <2>1, <2>2, Unfold, IdleFacts
<1>6. spoiled \subseteq spoiled' /\ spoiled' \subseteq 1..uploads
  BY <1>1, <1>3 DEF Inv, Numbered
<1> QED
  BY <1>1, <1>2, <1>3, <1>4, <1>5, <1>6, IdleFacts, TableStep

(* The look-up of the photo.                                               *)
LEMMA FindPhotoStep ==
  ASSUME Inv, NEW r \in Requests, FindPhoto(r)
  PROVE  Inv'
<1> PICK f : f = requests[r].file
  OBVIOUS
<1>1. requests[r].pc = "findPhoto" /\ requests[r].op = "delete"
  BY RequestFacts DEF FindPhoto, At, Handler
<1>2. /\ UNCHANGED <<files, photos, uploads, spoiled>> /\ calls' = calls
  BY DEF FindPhoto
<1>3. CASE RowOf(r) \in photos
  <2> PICK Q : Q = [requests[r] EXCEPT !.pc = "deleteFile"]
    OBVIOUS
  <2>1. /\ Q \in RequestRecords /\ Q.pc = "deleteFile" /\ Q.op = "delete" /\ Q.file = f
        /\ Go(r, "deleteFile") => requests' = [requests EXCEPT ![r] = Q]
    BY <1>1, GoFacts DEF Steps
  <2>2. requests' = [requests EXCEPT ![r] = Q] /\ asked' = asked \cup {f}
    BY <1>3, <2>1 DEF FindPhoto
  <2>3. HasRow(f) /\ f \in 1..uploads
    BY <1>3 DEF HasRow, RowOf, Inv, Numbered
  <2>4. RowHasFile' /\ FileGoesFirst'
    BY <1>2, <2>2, <2>3 DEF Inv, RowHasFile, FileGoesFirst, HasRow
  <2>5. FileHasRow'
    <3> SUFFICES ASSUME NEW g \in files \ asked, ~HasRow(g), g \notin spoiled
                 PROVE  \E s \in Requests : requests'[s].op = "add" /\ requests'[s].file = g
      BY <1>2, <2>2 DEF FileHasRow, HasRow
    <3>1. PICK s \in Requests : requests[s].op = "add" /\ requests[s].file = g
      BY DEF Inv, FileHasRow
    <3> QED
      BY <1>1, <2>1, <2>2, <3>1, Unfold
  <2>6. Handler(Q)'
    BY <2>1, <2>2 DEF Handler
  <2>7. spoiled' \subseteq 1..uploads
    BY <1>2 DEF Inv, Numbered
  <2> QED
    BY <1>2, <2>1, <2>2, <2>3, <2>4, <2>5, <2>6, <2>7, TableStep
<1>4. CASE RowOf(r) \notin photos
  <2>1. Reply(r) /\ asked' = asked
    BY <1>4 DEF FindPhoto
  <2> QED
    BY <1>1, <1>2, <2>1, QuietReply
<1> QED
  BY <1>3, <1>4

(* The destruction of the file, done or not, answered or not.              *)
LEMMA DeleteFileStep ==
  ASSUME Inv, NEW r \in Requests, DeleteFile(r)
  PROVE  Inv'
<1> PICK f : f = requests[r].file
  OBVIOUS
<1>1. requests[r].pc = "deleteFile" /\ requests[r].op = "delete" /\ f \in asked
  BY RequestFacts DEF DeleteFile, At, Handler
<1>2. /\ UNCHANGED <<photos, uploads, asked, spoiled>> /\ calls' = calls
      /\ files' \in {files, files \ {f}}
  BY DEF DeleteFile
<1>3. ASSUME NEW Q \in RequestRecords, requests' = [requests EXCEPT ![r] = Q],
             Handler(Q)', Q.pc \notin {"createRow", "cleanUp"}
      PROVE  Inv'
  <2>1. RowHasFile' /\ FileGoesFirst'
    BY <1>1, <1>2 DEF Inv, RowHasFile, FileGoesFirst, HasRow
  <2>2. FileHasRow'
    <3> SUFFICES ASSUME NEW g \in files \ asked, ~HasRow(g), g \notin spoiled
                 PROVE  \E s \in Requests : requests'[s].op = "add" /\ requests'[s].file = g
      BY <1>2 DEF FileHasRow, HasRow
    <3>1. PICK s \in Requests : requests[s].op = "add" /\ requests[s].file = g
      BY DEF Inv, FileHasRow
    <3> QED
      BY <1>1, <1>3, <3>1, Unfold
  <2>3. spoiled' \subseteq 1..uploads
    BY <1>2 DEF Inv, Numbered
  <2> QED
    BY <1>1, <1>2, <1>3, <2>1, <2>2, <2>3, TableStep
<1>4. CASE Reply(r)
  BY <1>3, <1>4, IdleFacts DEF Reply
<1>5. CASE files' = files \ {f} /\ Go(r, "deleteRow")
  <2> PICK Q : Q = [requests[r] EXCEPT !.pc = "deleteRow"]
    OBVIOUS
  <2>1. /\ Q \in RequestRecords /\ Q.pc = "deleteRow" /\ Q.op = "delete" /\ Q.file = f
        /\ requests' = [requests EXCEPT ![r] = Q]
    BY <1>1, <1>5, GoFacts DEF Steps
  <2>2. Handler(Q)'
    BY <1>1, <1>2, <1>5, <2>1 DEF Handler
  <2> QED
    BY <1>3, <2>1, <2>2
<1> QED
  BY <1>4, <1>5 DEF DeleteFile

(* The removal of the row, of a file that is gone.                         *)
LEMMA DeleteRowStep ==
  ASSUME Inv, NEW r \in Requests, DeleteRow(r)
  PROVE  Inv'
<1> PICK f : f = requests[r].file
  OBVIOUS
<1>1. /\ requests[r].pc = "deleteRow" /\ requests[r].op = "delete"
      /\ f \in asked /\ f \notin files
  BY RequestFacts DEF DeleteRow, At, Handler
<1>2. /\ UNCHANGED <<files, uploads, asked, spoiled>> /\ calls' = calls
      /\ requests' = [requests EXCEPT ![r] = Idle]
      /\ photos' \in {photos, {p \in photos : p.file # f}}
  BY DEF DeleteRow, Reply
<1>3. RowHasFile' /\ FileGoesFirst'
  BY <1>1, <1>2 DEF Inv, RowHasFile, FileGoesFirst, HasRow
<1>4. FileHasRow'
  <2> SUFFICES ASSUME NEW g \in files \ asked, ~HasRow(g)', g \notin spoiled
               PROVE  \E s \in Requests : requests'[s].op = "add" /\ requests'[s].file = g
    BY <1>2 DEF FileHasRow
  <2>1. ~HasRow(g)
    BY <1>1, <1>2 DEF HasRow
  <2>2. PICK s \in Requests : requests[s].op = "add" /\ requests[s].file = g
    BY <2>1 DEF Inv, FileHasRow
  <2> QED
    BY <1>1, <1>2, <2>2, Unfold, IdleFacts
<1>5. spoiled' \subseteq 1..uploads
  BY <1>2 DEF Inv, Numbered
<1> QED
  BY <1>1, <1>2, <1>3, <1>4, <1>5, IdleFacts, TableStep

(* A handler is cut short.                                                 *)
LEMMA AbortStep ==
  ASSUME Inv, NEW r \in Requests, Abort(r)
  PROVE  Inv'
<1> PICK f : f = requests[r].file
  OBVIOUS
<1>1. Handler(requests[r]) /\ requests[r].pc \in Steps
  BY RequestFacts
<1>2. /\ UNCHANGED <<files, photos, uploads, asked>> /\ calls' = calls
      /\ Reply(r) /\ requests[r].pc # "idle"
      /\ requests' = [requests EXCEPT ![r] = Idle]
  BY DEF Abort, Reply, At
<1>3. CASE requests[r].pc \in {"createRow", "cleanUp"}
  <2>1. spoiled' = spoiled \cup {f} /\ f \in 1..uploads
    BY <1>1, <1>3 DEF Abort, At, Handler
  <2>2. RowHasFile' /\ FileGoesFirst'
    BY <1>2, <2>1 DEF Inv, RowHasFile, FileGoesFirst, HasRow
  <2>3. FileHasRow'
    <3> SUFFICES ASSUME NEW g \in files \ asked, ~HasRow(g), g \notin spoiled'
                 PROVE  \E s \in Requests : requests'[s].op = "add" /\ requests'[s].file = g
      BY <1>2 DEF FileHasRow, HasRow
    <3>1. PICK s \in Requests : requests[s].op = "add" /\ requests[s].file = g
      BY <2>1 DEF Inv, FileHasRow
    <3>2. s # r
      BY <2>1, <3>1
    <3> QED
      BY <1>2, <3>1, <3>2, Unfold, IdleFacts
  <2>4. spoiled \subseteq spoiled' /\ spoiled' \subseteq 1..uploads
    BY <2>1 DEF Inv, Numbered
  <2> QED
    BY <1>2, <2>2, <2>3, <2>4, IdleFacts, TableStep
<1>4. CASE requests[r].pc \notin {"createRow", "cleanUp"}
  <2>1. requests[r].op = "add" => requests[r].pc \in {"findArticle", "upload"}
    BY <1>1, <1>2, <1>4 DEF Handler, Steps
  <2>2. spoiled' = spoiled
    BY <2>1 DEF Abort, At
  <2>3. requests[r].op = "add" => requests[r].file \notin files
    BY <1>1, <2>1 DEF Handler, Inv, Numbered
  <2> QED
    BY <1>2, <2>2, <2>3, QuietReply
<1> QED
  BY <1>3, <1>4

-----------------------------------------------------------------------------
LEMMA NextInv == Inv /\ [Next]_vars => Inv'
<1> SUFFICES ASSUME Inv, [Next]_vars PROVE Inv'
  OBVIOUS
<1>1. CASE Next
  <2> PICK r \in Requests : Call(r) \/ Step(r) \/ Abort(r)
    BY <1>1 DEF Next
  <2> QED
    BY CallStep, FindArticleStep, UploadStep, CreateRowStep, CleanUpStep, FindPhotoStep,
       DeleteFileStep, DeleteRowStep, AbortStep DEF Step
<1>2. CASE UNCHANGED vars
  BY <1>2 DEF vars, Inv, TypeOK, Numbered, Handlers, Handler, Apart, Holds, HasRow,
              RowHasFile, FileHasRow, FileGoesFirst
<1> QED
  BY <1>1, <1>2

LEMMA InvAlways == Spec => []Inv
  BY InitInv, NextInv, PTL DEF Spec

(* The tables, the store and the handlers of uploadPhoto and deletePhoto   *)
(* hold what their types say.                                              *)
THEOREM PhotoTypes == Spec => []TypeOK
<1>1. Inv => TypeOK
  BY DEF Inv
<1> QED
  BY <1>1, InvAlways, PTL

(* Whatever fails, in uploadPhoto or in deletePhoto, and however many of   *)
(* them run: a listed photo has its file, a stored file its row, and a     *)
(* delete takes the file first, up to what is named in the three parts.    *)
THEOREM PhotosInStep == Spec => []InStep
<1>1. Inv => InStep
  BY DEF Inv, InStep
<1> QED
  BY <1>1, InvAlways, PTL
=============================================================================
