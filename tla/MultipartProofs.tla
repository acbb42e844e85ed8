-------------------------- MODULE MultipartProofs --------------------------
(***************************************************************************)
(* Proofs about Multipart: the types, and that an upload once closed stays *)
(* closed, whatever fails; and, where clients wait for their answers and   *)
(* nothing has failed, that an acknowledged part is stored and that a      *)
(* completed upload is assembled from the parts as they were acknowledged. *)
(***************************************************************************)
EXTENDS Multipart, TLAPS

USE MultipartAssumption

-----------------------------------------------------------------------------
(* What a write leaves in a file.                                          *)

LEMMA OverlayType ==
    ASSUME NEW old \in Seq(Blocks), NEW body \in Seq(Blocks)
    PROVE  Overlay(old, body) \in Seq(Blocks)
<1> DEFINE n == IF Len(old) > Len(body) THEN Len(old) ELSE Len(body)
<1>1. n \in Nat
    OBVIOUS
<1>2. \A i \in 1..n : (IF i <= Len(body) THEN body[i] ELSE old[i]) \in Blocks
  <2> TAKE i \in 1..n
  <2>1. CASE i <= Len(body)
      BY <2>1, i \in 1..Len(body)
  <2>2. CASE ~(i <= Len(body))
      BY <2>2, i \in 1..Len(old)
  <2> QED
      BY <2>1, <2>2
<1> QED
    BY <1>1, <1>2 DEF Overlay

LEMMA OverlayEmpty ==
    ASSUME NEW body \in Seq(Blocks)
    PROVE  Overlay(<<>>, body) = body
<1>1. Overlay(<<>>, body) = [i \in 1..Len(body) |-> body[i]]
    BY DEF Overlay
<1> QED
    BY <1>1

-----------------------------------------------------------------------------
(* The inductive invariant of every behaviour: types; what each handler's  *)
(* label says of its locals; and how the tables fit together.              *)

(* A handle is open only between the truncation and the acknowledgement of *)
(* a part, and the file it is open on exists.                              *)
ClientShape(c) ==
    /\ pc[c] = "idle" => local[c] = Idle
    /\ pc[c] # "idle" => local[c].upload \in 1..(nextUpload - 1)
    /\ pc[c] \in PartLabels =>
          local[c].part \in PartNumbers /\ local[c].body \in Bodies
    /\ \A r \in local[c].stored : r.upload = local[c].upload
    /\ local[c].open =>
          /\ pc[c] \in {"part_write", "part_clear", "part_insert"}
          /\ files[FileOf(c)] # NoFile

ShapeInv == \A c \in Clients : ClientShape(c)

(* Uploads are created in order and closed at most once; a part has its    *)
(* upload, and was acknowledged.                                           *)
RowInv ==
    /\ \A u \in uploads \cup closed : u < nextUpload
    /\ \A u \in closed : u \notin uploads
    /\ \A r \in parts : r.upload \in uploads
    /\ \A r \in parts : ackedPart[<<r.upload, r.part>>] # NoBody
    /\ \A u \in Uploads, n \in PartNumbers :
          u >= nextUpload => ackedPart[<<u, n>>] = NoBody

-----------------------------------------------------------------------------
(* Types and shapes.                                                       *)

LEMMA IdleType == Idle \in Local /\ Idle.stored = {} /\ ~Idle.open
BY DEF Idle, Local

LEMMA InitShape == Init => TypeOK /\ ShapeInv /\ RowInv
<1> SUFFICES ASSUME Init PROVE TypeOK /\ ShapeInv /\ RowInv
    OBVIOUS
<1> USE DEF Init
<1>1. TypeOK
    BY IdleType DEF TypeOK, Labels
<1>2. ShapeInv
    BY DEF ShapeInv, ClientShape, Idle, PartLabels
<1>3. RowInv
    BY DEF RowInv, Uploads
<1> QED
    BY <1>1, <1>2, <1>3

(* What a handler's step does to the other clients: nothing.               *)
Others(c) ==
    /\ pc' \in [Clients -> Labels]
    /\ local' \in [Clients -> Local]
    /\ \A x \in Clients \ {c} : pc'[x] = pc[x] /\ local'[x] = local[x]

LEMMA GotoStep ==
    ASSUME TypeOK, NEW c \in Clients, NEW l \in Labels, Goto(c, l)
    PROVE  /\ pc' \in [Clients -> Labels]
           /\ pc'[c] = l
           /\ \A x \in Clients \ {c} : pc'[x] = pc[x]
BY DEF TypeOK, Goto

LEMMA LeaveStep ==
    ASSUME TypeOK, NEW c \in Clients, Leave(c)
    PROVE  Others(c) /\ pc'[c] = "idle" /\ local'[c] = Idle
BY IdleType DEF TypeOK, Leave, Goto, Others, Labels

LEMMA FileOfType ==
    ASSUME TypeOK, ShapeInv, NEW c \in Clients, pc[c] \in PartLabels
    PROVE  /\ local[c].upload \in Uploads /\ local[c].part \in PartNumbers
           /\ FileOf(c) \in Uploads \X PartNumbers
           /\ local[c].body \in Bodies /\ local[c].body \in Seq(Blocks)
BY DEF TypeOK, ShapeInv, ClientShape, PartLabels, FileOf, Uploads

(* A step of c that leaves files, tables and the other clients alone keeps *)
(* the shapes if it keeps that of c.                                       *)
LEMMA QuietStep ==
    ASSUME TypeOK, ShapeInv, RowInv, NEW c \in Clients, Others(c),
           UNCHANGED <<tables, files, history>>,
           issued' \in Nat, faults' \in Nat,
           ClientShape(c)'
    PROVE  TypeOK' /\ ShapeInv' /\ RowInv'
<1>1. TypeOK'
    BY DEF TypeOK, Others, tables, history
<1>2. ASSUME NEW x \in Clients PROVE ClientShape(x)'
  <2>1. CASE x = c
      BY <2>1
  <2>2. CASE x # c
      BY <2>2 DEF ShapeInv, ClientShape, Others, tables, FileOf, PartLabels
  <2> QED
      BY <2>1, <2>2
<1>3. RowInv'
    BY DEF RowInv, tables, history
<1> QED
    BY <1>1, <1>2, <1>3 DEF ShapeInv

LEMMA IssueShape ==
    ASSUME TypeOK, ShapeInv, RowInv, NEW c \in Clients,
           NEW request \in Local, NEW label \in Labels,
           label \notin PartLabels \cup {"idle"}
              \/ /\ label = "part_find"
                 /\ request.part \in PartNumbers /\ request.body \in Bodies,
           request.upload \in 1..(nextUpload - 1),
           request.stored = {}, ~request.open,
           Issue(c, request, label)
    PROVE  TypeOK' /\ ShapeInv' /\ RowInv'
<1>1. Others(c) /\ pc'[c] = label /\ local'[c] = request
    BY GotoStep DEF TypeOK, Issue, Others
<1>2. ClientShape(c)'
    BY <1>1 DEF ClientShape, Issue, PartLabels, tables
<1> QED
    BY <1>1, <1>2, QuietStep DEF Issue, TypeOK

LEMMA RequestShape ==
    ASSUME TypeOK, ShapeInv, RowInv, NEW c \in Clients, NewRequest(c)
    PROVE  TypeOK' /\ ShapeInv' /\ RowInv'
<1> PICK u \in 1..(nextUpload - 1) :
        \/ \E n \in PartNumbers, b \in Bodies : UploadPart(c, u, n, b)
        \/ \E list \in Lists : CompleteUpload(c, u, list)
        \/ AbortUpload(c, u)
    BY DEF NewRequest
<1>1. u \in Nat
    BY DEF TypeOK
<1>2. ASSUME NEW n \in PartNumbers, NEW b \in Bodies, UploadPart(c, u, n, b)
      PROVE  TypeOK' /\ ShapeInv' /\ RowInv'
  <2> DEFINE request == [Idle EXCEPT !.op = "part", !.upload = u, !.part = n,
                                     !.body = b]
  <2>1. /\ request \in Local /\ request.upload = u /\ request.part = n
        /\ request.body = b /\ request.stored = {} /\ ~request.open
      BY <1>1, IdleType DEF Local
  <2>2. Issue(c, request, "part_find")
      BY <1>2 DEF UploadPart
  <2> HIDE DEF request
  <2> QED
      BY <2>1, <2>2, IssueShape DEF Labels, PartLabels
<1>3. ASSUME NEW list \in Lists, CompleteUpload(c, u, list)
      PROVE  TypeOK' /\ ShapeInv' /\ RowInv'
  <2> DEFINE request == [Idle EXCEPT !.op = "complete", !.upload = u,
                                     !.list = list]
  <2>1. /\ request \in Local /\ request.upload = u
        /\ request.stored = {} /\ ~request.open
      BY <1>1, IdleType DEF Local
  <2>2. Issue(c, request, "cm_find")
      BY <1>3 DEF CompleteUpload
  <2> HIDE DEF request
  <2> QED
      BY <2>1, <2>2, IssueShape DEF Labels, PartLabels, CompleteLabels
<1>4. ASSUME AbortUpload(c, u)
      PROVE  TypeOK' /\ ShapeInv' /\ RowInv'
  <2> DEFINE request == [Idle EXCEPT !.op = "abort", !.upload = u]
  <2>1. /\ request \in Local /\ request.upload = u
        /\ request.stored = {} /\ ~request.open
      BY <1>1, IdleType DEF Local
  <2>2. Issue(c, request, "ab_list")
      BY <1>4 DEF AbortUpload
  <2> HIDE DEF request
  <2> QED
      BY <2>1, <2>2, IssueShape DEF Labels, PartLabels
<1> QED
    BY <1>2, <1>3, <1>4

(* A step to another label without a change of the locals.                 *)
LEMMA MoveShape ==
    ASSUME TypeOK, ShapeInv, RowInv, NEW c \in Clients, NEW label \in Labels,
           pc[c] \notin {"idle", "part_write", "part_clear", "part_insert"}
              \/ /\ pc[c] = "part_clear" /\ label = "part_insert",
           label \notin PartLabels \cup {"idle"}
              \/ (pc[c] \in PartLabels /\ label # "idle"),
           Goto(c, label),
           UNCHANGED <<local, tables, files, history, issued>>, faults' \in Nat
    PROVE  TypeOK' /\ ShapeInv' /\ RowInv'
<1>1. Others(c) /\ pc'[c] = label /\ local'[c] = local[c]
    BY GotoStep DEF TypeOK, Others
<1>2. ClientShape(c)'
    BY <1>1 DEF ClientShape, ShapeInv, PartLabels, tables, FileOf
<1> QED
    BY <1>1, <1>2, QuietStep DEF TypeOK

LEMMA GiveUpShape ==
    ASSUME TypeOK, ShapeInv, RowInv, NEW c \in Clients, Leave(c),
           UNCHANGED <<tables, files, history, issued>>, faults' \in Nat
    PROVE  TypeOK' /\ ShapeInv' /\ RowInv'
<1>1. Others(c) /\ pc'[c] = "idle" /\ local'[c] = Idle
    BY LeaveStep
<1>2. ClientShape(c)'
    BY <1>1 DEF ClientShape, PartLabels, Idle
<1> QED
    BY <1>1, <1>2, QuietStep DEF TypeOK

LEMMA LocalShape ==
    ASSUME TypeOK, ShapeInv, RowInv, NEW c \in Clients,
           local'[c] \in Local,
           \A x \in Clients \ {c} : local'[x] = local[x],
           local' \in [Clients -> Local],
           UNCHANGED pc, pc[c] # "idle",
           local'[c].upload = local[c].upload,
           local'[c].part = local[c].part, local'[c].body = local[c].body,
           local'[c].open = local[c].open,
           local'[c].stored \subseteq local[c].stored,
           UNCHANGED <<tables, files, history, issued>>, faults' \in Nat
    PROVE  TypeOK' /\ ShapeInv' /\ RowInv'
<1>1. Others(c)
    BY DEF TypeOK, Others
<1>2. ClientShape(c)'
    BY DEF ShapeInv, ClientShape, FileOf, tables
<1> QED
    BY <1>1, <1>2, QuietStep DEF TypeOK

LEMMA FindUploadShape ==
    ASSUME TypeOK, ShapeInv, RowInv, NEW c \in Clients, FindUpload(c)
    PROVE  TypeOK' /\ ShapeInv' /\ RowInv'
<1>1. UNCHANGED <<tables, files, history, issued>> /\ faults' \in Nat
    BY DEF FindUpload, TypeOK
<1>2. CASE pc[c] = "part_find" /\ Goto(c, "part_truncate") /\ UNCHANGED local
    BY <1>1, <1>2, MoveShape DEF Labels, PartLabels
<1>3. CASE pc[c] = "cm_find" /\ Goto(c, "cm_list") /\ UNCHANGED local
    BY <1>1, <1>3, MoveShape DEF Labels, PartLabels, CompleteLabels
<1>4. CASE Leave(c)
    BY <1>1, <1>4, GiveUpShape
<1> QED
    BY <1>2, <1>3, <1>4 DEF FindUpload

LEMMA ListPartsShape ==
    ASSUME TypeOK, ShapeInv, RowInv, NEW c \in Clients, ListParts(c)
    PROVE  TypeOK' /\ ShapeInv' /\ RowInv'
<1>1. /\ local'[c] = [local[c] EXCEPT !.stored = PartsOf(local[c].upload)]
      /\ local' \in [Clients -> Local]
      /\ \A x \in Clients \ {c} : local'[x] = local[x]
    BY ZenonT(60) DEF TypeOK, ListParts, Local, PartsOf
<1>2. PICK label \in {"cm_read", "unlink"} : Goto(c, label)
    BY DEF ListParts
<1>3. pc'[c] = label /\ Others(c)
    BY <1>1, <1>2, GotoStep DEF Labels, CompleteLabels, CleanupLabels, Others
<1>4. ClientShape(c)'
    BY SMTT(30), <1>1, <1>3
       DEF ListParts, TypeOK, Local, ShapeInv, ClientShape, PartLabels, FileOf,
           tables, PartsOf
<1> QED
    BY <1>3, <1>4, QuietStep DEF ListParts, TypeOK

LEMMA ReadPartShape ==
    ASSUME TypeOK, ShapeInv, RowInv, NEW c \in Clients, ReadPart(c)
    PROVE  TypeOK' /\ ShapeInv' /\ RowInv'
<1> DEFINE f == <<local[c].upload, NextPart(c)>>
<1>1. /\ UNCHANGED <<tables, files, history, issued>> /\ faults' \in Nat
      /\ pc[c] = "cm_read"
    BY DEF ReadPart, TypeOK
<1>2. ASSUME local' = [local EXCEPT ![c].data = Append(@, files[f])],
             files[f] # NoFile, UNCHANGED pc, \E r \in local[c].stored : r.part = NextPart(c)
      PROVE  TypeOK' /\ ShapeInv' /\ RowInv'
  <2>1. f \in Uploads \X PartNumbers
      BY <1>1, <1>2 DEF TypeOK, ShapeInv, ClientShape, Local, PartRow
  <2>2. Append(local[c].data, files[f]) \in Seq(Seq(Blocks))
      BY <1>2, <2>1 DEF TypeOK, Local
  <2> HIDE DEF f
  <2>3. /\ local'[c] = [local[c] EXCEPT !.data = Append(@, files[f])]
        /\ \A x \in Clients \ {c} : local'[x] = local[x]
        /\ local' \in [Clients -> Local]
      BY ZenonT(60), <1>2, <2>2 DEF TypeOK, Local
  <2> QED
      BY ZenonT(60), <1>1, <1>2, <2>3, LocalShape DEF TypeOK, Local
<1>3. CASE Leave(c)
    BY <1>1, <1>3, GiveUpShape
<1> QED
    BY <1>2, <1>3 DEF ReadPart

LEMMA MovesShape ==
    ASSUME TypeOK, ShapeInv, RowInv, NEW c \in Clients,
           AllRead(c) \/ CheckBucket(c) \/ StoreObject(c) \/ AllUnlinked(c)
    PROVE  TypeOK' /\ ShapeInv' /\ RowInv'
<1>1. UNCHANGED <<tables, files, history, issued>> /\ faults' \in Nat
    BY DEF AllRead, CheckBucket, StoreObject, AllUnlinked, TypeOK
<1>2. CASE Leave(c)
    BY <1>1, <1>2, GiveUpShape
<1>3. CASE ~Leave(c)
  <2>1. /\ pc[c] \in {"cm_read", "cm_bucket", "cm_store", "unlink"}
        /\ UNCHANGED local
        /\ \E label \in {"cm_bucket", "cm_store", "unlink", "del_parts"} :
              Goto(c, label)
      BY <1>3 DEF AllRead, CheckBucket, StoreObject, AllUnlinked
  <2> QED
      BY <1>1, <2>1, MoveShape
         DEF Labels, PartLabels, CompleteLabels, CleanupLabels
<1> QED
    BY <1>2, <1>3

LEMMA FailIgnoredShape ==
    ASSUME TypeOK, ShapeInv, RowInv, NEW c \in Clients, FailIgnored(c)
    PROVE  TypeOK' /\ ShapeInv' /\ RowInv'
<1>1. UNCHANGED <<tables, files, history, issued>> /\ faults' \in Nat
    BY DEF FailIgnored, Fault, TypeOK
<1>2. CASE Leave(c)
    BY <1>1, <1>2, GiveUpShape
<1>3. CASE /\ UNCHANGED local
           /\ \/ pc[c] = "part_clear" /\ Goto(c, "part_insert")
              \/ pc[c] = "del_parts" /\ Goto(c, "del_upload")
    BY <1>1, <1>3, MoveShape
       DEF Labels, PartLabels, CompleteLabels, CleanupLabels
<1>4. ASSUME pc[c] = "unlink", UNCHANGED pc, NEW r \in local[c].stored,
             local' = [local EXCEPT ![c].stored = @ \ {r}]
      PROVE  TypeOK' /\ ShapeInv' /\ RowInv'
  <2>1. /\ local'[c] = [local[c] EXCEPT !.stored = @ \ {r}]
        /\ \A x \in Clients \ {c} : local'[x] = local[x]
        /\ local' \in [Clients -> Local]
      BY ZenonT(60), <1>4 DEF TypeOK, Local
  <2> QED
      BY <1>1, <1>4, <2>1, LocalShape DEF TypeOK, Local
<1> QED
    BY <1>2, <1>3, <1>4 DEF FailIgnored

LEMMA AbandonShape ==
    ASSUME TypeOK, ShapeInv, RowInv, NEW c \in Clients, Abandon(c)
    PROVE  TypeOK' /\ ShapeInv' /\ RowInv'
<1>1. /\ UNCHANGED <<tables, files, history, issued>> /\ faults' \in Nat
      /\ pc[c] # "idle"
    BY DEF Abandon, Fault, TypeOK
<1>2. CASE Leave(c)
    BY <1>1, <1>2, GiveUpShape
<1>3. CASE /\ UNCHANGED pc
           /\ local' = [local EXCEPT ![c].op = "none", ![c].dropped = TRUE]
  <2> DEFINE dropping == [local EXCEPT ![c].op = "none"]
  <2>1. /\ dropping \in [Clients -> Local]
        /\ dropping[c] = [local[c] EXCEPT !.op = "none"]
        /\ \A x \in Clients \ {c} : dropping[x] = local[x]
      BY ZenonT(60) DEF TypeOK, Local
  <2>2. local' = [dropping EXCEPT ![c].dropped = TRUE]
      BY <1>3
  <2> HIDE DEF dropping
  <2>3. /\ local' \in [Clients -> Local]
        /\ local'[c] = [dropping[c] EXCEPT !.dropped = TRUE]
        /\ \A x \in Clients \ {c} : local'[x] = local[x]
      BY ZenonT(60), <2>1, <2>2 DEF Local
  <2>4. /\ dropping[c] \in Local /\ local[c] \in Local
        /\ local'[c] \in Local
      BY <2>1, <2>3 DEF TypeOK
  <2>5. /\ local'[c].upload = local[c].upload
        /\ local'[c].part = local[c].part /\ local'[c].body = local[c].body
        /\ local'[c].open = local[c].open
        /\ local'[c].stored \subseteq local[c].stored
      BY <2>1, <2>3, <2>4 DEF Local
  <2> QED
      BY <1>1, <1>3, <2>3, <2>4, <2>5, LocalShape
<1> QED
    BY <1>2, <1>3 DEF Abandon

-----------------------------------------------------------------------------
(* The steps that change a file.                                           *)

LEMMA TruncateEffect ==
    ASSUME TypeOK, ShapeInv, NEW c \in Clients, TruncateFile(c)
    PROVE  /\ FileOf(c) \in Uploads \X PartNumbers
           /\ files'[FileOf(c)] = <<>>
           /\ \A f \in (Uploads \X PartNumbers) \ {FileOf(c)} :
                 files'[f] = files[f]
           /\ files' \in [Uploads \X PartNumbers -> Seq(Blocks) \cup {NoFile}]
           /\ pc[c] = "part_truncate" /\ pc'[c] = "part_write"
           /\ local'[c] = [local[c] EXCEPT !.open = TRUE]
           /\ Others(c)
           /\ UNCHANGED <<tables, history, issued, faults>>
<1>1. FileOf(c) \in Uploads \X PartNumbers /\ pc[c] = "part_truncate"
    BY FileOfType DEF TruncateFile, PartLabels
<1>2. /\ files'[FileOf(c)] = <<>>
      /\ \A f \in (Uploads \X PartNumbers) \ {FileOf(c)} :
            files'[f] = files[f]
      /\ files' \in [Uploads \X PartNumbers -> Seq(Blocks) \cup {NoFile}]
    BY <1>1 DEF TruncateFile, TypeOK
<1>3. /\ local'[c] = [local[c] EXCEPT !.open = TRUE]
      /\ \A x \in Clients \ {c} : local'[x] = local[x]
      /\ local' \in [Clients -> Local]
    BY ZenonT(60) DEF TruncateFile, TypeOK, Local
<1>4. pc'[c] = "part_write" /\ Others(c)
    BY <1>3, GotoStep DEF TruncateFile, Labels, PartLabels, Others
<1> QED
    BY <1>1, <1>2, <1>3, <1>4 DEF TruncateFile

LEMMA WriteEffect ==
    ASSUME TypeOK, ShapeInv, NEW c \in Clients, WriteFile(c)
    PROVE  /\ FileOf(c) \in Uploads \X PartNumbers
           /\ local[c].open =>
                 /\ files[FileOf(c)] \in Seq(Blocks)
                 /\ files'[FileOf(c)] = Overlay(files[FileOf(c)], local[c].body)
                 /\ files'[FileOf(c)] \in Seq(Blocks)
           /\ ~local[c].open => files' = files
           /\ \A f \in (Uploads \X PartNumbers) \ {FileOf(c)} :
                 files'[f] = files[f]
           /\ files' \in [Uploads \X PartNumbers -> Seq(Blocks) \cup {NoFile}]
           /\ pc[c] = "part_write"
           /\ \/ local[c].dropped /\ pc'[c] = "idle" /\ local'[c] = Idle
              \/ /\ ~local[c].dropped
                 /\ pc'[c] = "part_clear" /\ local'[c] = local[c]
           /\ Others(c)
           /\ UNCHANGED <<tables, history, issued, faults>>
<1>1. /\ FileOf(c) \in Uploads \X PartNumbers /\ pc[c] = "part_write"
      /\ local[c].body \in Seq(Blocks)
    BY FileOfType DEF WriteFile, PartLabels
<1>2. ASSUME local[c].open
      PROVE  /\ files[FileOf(c)] \in Seq(Blocks)
             /\ Overlay(files[FileOf(c)], local[c].body) \in Seq(Blocks)
  <2>1. files[FileOf(c)] \in Seq(Blocks)
      BY <1>1, <1>2 DEF TypeOK, ShapeInv, ClientShape
  <2> QED
      BY <1>1, <2>1, OverlayType
<1>3. /\ \/ local[c].dropped /\ pc'[c] = "idle" /\ local'[c] = Idle
         \/ /\ ~local[c].dropped
            /\ pc'[c] = "part_clear" /\ local'[c] = local[c]
      /\ Others(c)
    BY GotoStep, LeaveStep
       DEF WriteFile, Labels, PartLabels, Others, TypeOK
<1>4. UNCHANGED <<tables, history, issued, faults>>
    BY DEF WriteFile
<1>5. /\ local[c].open =>
            /\ files[FileOf(c)] \in Seq(Blocks)
            /\ files'[FileOf(c)] = Overlay(files[FileOf(c)], local[c].body)
            /\ files'[FileOf(c)] \in Seq(Blocks)
      /\ ~local[c].open => files' = files
      /\ \A f \in (Uploads \X PartNumbers) \ {FileOf(c)} :
            files'[f] = files[f]
      /\ files' \in [Uploads \X PartNumbers -> Seq(Blocks) \cup {NoFile}]
  <2>1. CASE local[c].open
    <3> DEFINE new == Overlay(files[FileOf(c)], local[c].body)
    <3>1. files' = [files EXCEPT ![FileOf(c)] = new]
        BY <2>1 DEF WriteFile
    <3>2. new \in Seq(Blocks)
        BY <1>2, <2>1
    <3> HIDE DEF new
    <3>3. /\ files'[FileOf(c)] = new
          /\ \A f \in (Uploads \X PartNumbers) \ {FileOf(c)} :
                files'[f] = files[f]
          /\ files' \in [Uploads \X PartNumbers -> Seq(Blocks) \cup {NoFile}]
        BY <1>1, <3>1, <3>2 DEF TypeOK
    <3> QED
        BY <1>2, <2>1, <3>2, <3>3 DEF new
  <2>2. CASE ~local[c].open
      BY <2>2 DEF WriteFile, TypeOK
  <2> QED
      BY <2>1, <2>2
<1> QED
    BY <1>1, <1>3, <1>4, <1>5

(* Every handle on the file that is gone is closed.                        *)
LEMMA UnlinkEffect ==
    ASSUME TypeOK, ShapeInv, NEW c \in Clients, Unlink(c)
    PROVE  \E r \in local[c].stored :
             /\ r \in PartRow /\ r.upload = local[c].upload
             /\ files' = [files EXCEPT ![<<r.upload, r.part>>] = NoFile]
             /\ pc[c] = "unlink"
             /\ \/ local[c].dropped /\ pc'[c] = "idle" /\ local'[c] = Idle
                \/ /\ ~local[c].dropped /\ pc'[c] = "unlink"
                   /\ local'[c] = [local[c] EXCEPT !.stored = @ \ {r}]
             /\ \A x \in Clients \ {c} :
                   /\ pc'[x] = pc[x]
                   /\ local'[x] = IF FileOf(x) = <<r.upload, r.part>>
                                  THEN [local[x] EXCEPT !.open = FALSE]
                                  ELSE local[x]
             /\ pc' \in [Clients -> Labels] /\ local' \in [Clients -> Local]
             /\ UNCHANGED <<tables, history, issued, faults>>
<1> PICK r \in local[c].stored :
      /\ files' = [files EXCEPT ![<<r.upload, r.part>>] = NoFile]
      /\ \/ /\ local[c].dropped
            /\ Goto(c, "idle")
            /\ local' = CloseHandles(<<r.upload, r.part>>,
                                     [local EXCEPT ![c] = Idle])
         \/ /\ ~local[c].dropped
            /\ UNCHANGED pc
            /\ local' = CloseHandles(<<r.upload, r.part>>,
                            [local EXCEPT ![c].stored = @ \ {r}])
    BY DEF Unlink
<1>1. /\ r \in PartRow /\ r.upload = local[c].upload /\ pc[c] = "unlink"
      /\ UNCHANGED <<tables, history, issued, faults>>
    BY DEF Unlink, TypeOK, ShapeInv, ClientShape, Local
<1> DEFINE f == <<r.upload, r.part>>
           closedOf(l) == [l EXCEPT !.open = FALSE]
<1>2. ~local[c].open /\ local[c] \in Local
    BY <1>1 DEF ShapeInv, ClientShape, TypeOK
<1>3. \A l \in Local : ~l.open => closedOf(l) = l
    BY DEF Local
<1>4. \A l \in Local : closedOf(l) \in Local
    BY DEF Local
<1>5. CASE local[c].dropped
  <2>1. pc'[c] = "idle" /\ pc' \in [Clients -> Labels]
        /\ \A x \in Clients \ {c} : pc'[x] = pc[x]
      BY <1>5, GotoStep DEF Labels
  <2>2. \A x \in Clients : local'[x] =
           IF FileOf(x) = f THEN closedOf(IF x = c THEN Idle ELSE local[x])
                            ELSE IF x = c THEN Idle ELSE local[x]
      BY <1>5 DEF CloseHandles, TypeOK
  <2>3. local' = [x \in Clients |-> local'[x]]
      BY <1>5 DEF CloseHandles
  <2>4. \A x \in Clients : (IF x = c THEN Idle ELSE local[x]) \in Local
      BY IdleType DEF TypeOK
  <2> HIDE DEF closedOf
  <2>5. local' \in [Clients -> Local]
      BY <1>4, <2>2, <2>3, <2>4
  <2>6. local'[c] = Idle
      BY <1>3, <2>2, IdleType
  <2>7. \A x \in Clients \ {c} :
           local'[x] = IF FileOf(x) = f THEN closedOf(local[x]) ELSE local[x]
      BY <2>2
  <2> QED
      BY <1>1, <1>5, <2>1, <2>5, <2>6, <2>7 DEF closedOf
<1>6. CASE ~local[c].dropped
  <2> DEFINE rest == [local[c] EXCEPT !.stored = @ \ {r}]
  <2>1. rest \in Local /\ ~rest.open
      BY <1>2 DEF Local
  <2>2. \A x \in Clients : local'[x] =
           IF FileOf(x) = f THEN closedOf(IF x = c THEN rest ELSE local[x])
                            ELSE IF x = c THEN rest ELSE local[x]
      BY <1>6 DEF CloseHandles, TypeOK, Local
  <2>3. local' = [x \in Clients |-> local'[x]]
      BY <1>6 DEF CloseHandles
  <2> HIDE DEF closedOf, rest
  <2>4. \A x \in Clients : (IF x = c THEN rest ELSE local[x]) \in Local
      BY <2>1 DEF TypeOK
  <2>5. local' \in [Clients -> Local]
      BY <1>4, <2>2, <2>3, <2>4
  <2>6. local'[c] = rest
      BY <1>3, <2>1, <2>2
  <2>7. \A x \in Clients \ {c} :
           local'[x] = IF FileOf(x) = f THEN closedOf(local[x]) ELSE local[x]
      BY <2>2
  <2>8. pc' = pc
      BY <1>6
  <2> QED
      BY <1>1, <1>6, <2>5, <2>6, <2>7, <2>8 DEF closedOf, rest, TypeOK
<1> QED
    BY <1>5, <1>6

(* Files and handles apart, the clients that do not move keep their shape. *)
LEMMA OthersShape ==
    ASSUME TypeOK, ShapeInv, NEW c \in Clients, Others(c),
           NEW x \in Clients \ {c},
           nextUpload' \in Nat, nextUpload <= nextUpload',
           local[x].open /\ FileOf(x) \in Uploads \X PartNumbers
              => files'[FileOf(x)] # NoFile
    PROVE  ClientShape(x)'
<1>1. /\ pc'[x] = pc[x] /\ local'[x] = local[x]
      /\ ClientShape(x) /\ nextUpload \in Nat
    BY DEF Others, ShapeInv, TypeOK
<1>2. local[x].open => FileOf(x) \in Uploads \X PartNumbers
    BY <1>1, FileOfType DEF ClientShape, PartLabels
<1> QED
    BY <1>1, <1>2 DEF ClientShape, FileOf

LEMMA FileStepShape ==
    ASSUME TypeOK, ShapeInv, RowInv, NEW c \in Clients,
           TruncateFile(c) \/ WriteFile(c)
    PROVE  TypeOK' /\ ShapeInv' /\ RowInv'
<1>1. /\ files' \in [Uploads \X PartNumbers -> Seq(Blocks) \cup {NoFile}]
      /\ Others(c) /\ UNCHANGED <<tables, history, issued, faults>>
    BY TruncateEffect, WriteEffect
<1>2. \A f \in Uploads \X PartNumbers : files[f] # NoFile => files'[f] # NoFile
  <2>1. CASE TruncateFile(c)
    <3>1. <<>> # NoFile
        BY <<>> \in Seq(Blocks)
    <3>2. /\ files'[FileOf(c)] = <<>>
          /\ \A f \in (Uploads \X PartNumbers) \ {FileOf(c)} :
                files'[f] = files[f]
        BY <2>1, TruncateEffect
    <3> QED
        BY <3>1, <3>2
  <2>2. CASE WriteFile(c)
    <3>1. local[c].open \in BOOLEAN
        BY DEF TypeOK, Local
    <3> QED
        BY <2>2, <3>1, WriteEffect
  <2> QED
      BY <2>1, <2>2
<1>3. TypeOK'
    BY <1>1 DEF TypeOK, Others, tables, history
<1>4. ClientShape(c)'
  <2>1. CASE TruncateFile(c)
    <3>1. /\ local'[c] = [local[c] EXCEPT !.open = TRUE]
          /\ pc[c] = "part_truncate" /\ pc'[c] = "part_write"
          /\ FileOf(c) \in Uploads \X PartNumbers /\ files'[FileOf(c)] = <<>>
        BY <2>1, TruncateEffect
    <3>2. local[c] \in Local /\ ClientShape(c) /\ <<>> # NoFile
        BY <<>> \in Seq(Blocks) DEF TypeOK, ShapeInv
    <3>3. /\ local'[c].stored = local[c].stored
          /\ local'[c].upload = local[c].upload
          /\ local'[c].part = local[c].part /\ local'[c].body = local[c].body
        BY <3>1, <3>2 DEF Local
    <3>4. FileOf(c)' = FileOf(c)
        BY <3>3 DEF FileOf
    <3> QED
        BY <1>1, <3>1, <3>2, <3>3, <3>4 DEF ClientShape, PartLabels, tables
  <2>2. CASE WriteFile(c) /\ pc'[c] = "part_clear"
    <3>1. /\ pc[c] = "part_write" /\ local'[c] = local[c]
          /\ FileOf(c) \in Uploads \X PartNumbers
        BY <2>2, WriteEffect
    <3> QED
        BY <1>1, <1>2, <2>2, <3>1
           DEF ClientShape, ShapeInv, PartLabels, tables, FileOf
  <2>3. CASE WriteFile(c) /\ pc'[c] = "idle" /\ local'[c] = Idle
      BY <2>3, IdleType DEF ClientShape, PartLabels
  <2> QED
      BY <2>1, <2>2, <2>3, WriteEffect
<1>5. \A x \in Clients \ {c} : ClientShape(x)'
  <2> TAKE x \in Clients \ {c}
  <2>1. local[x].open => files[FileOf(x)] # NoFile
      BY DEF ShapeInv, ClientShape
  <2> QED
      BY <1>1, <1>2, <2>1, OthersShape DEF tables, TypeOK
<1> QED
    BY <1>1, <1>3, <1>4, <1>5 DEF ShapeInv, RowInv, tables, history

LEMMA UnlinkShape ==
    ASSUME TypeOK, ShapeInv, RowInv, NEW c \in Clients, Unlink(c)
    PROVE  TypeOK' /\ ShapeInv' /\ RowInv'
<1> PICK r \in local[c].stored :
      /\ r \in PartRow /\ r.upload = local[c].upload
      /\ files' = [files EXCEPT ![<<r.upload, r.part>>] = NoFile]
      /\ pc[c] = "unlink"
      /\ \/ local[c].dropped /\ pc'[c] = "idle" /\ local'[c] = Idle
         \/ /\ ~local[c].dropped /\ pc'[c] = "unlink"
            /\ local'[c] = [local[c] EXCEPT !.stored = @ \ {r}]
      /\ \A x \in Clients \ {c} :
            /\ pc'[x] = pc[x]
            /\ local'[x] = IF FileOf(x) = <<r.upload, r.part>>
                           THEN [local[x] EXCEPT !.open = FALSE]
                           ELSE local[x]
      /\ pc' \in [Clients -> Labels] /\ local' \in [Clients -> Local]
      /\ UNCHANGED <<tables, history, issued, faults>>
    BY UnlinkEffect
<1> DEFINE f == <<r.upload, r.part>>
<1>1. f \in Uploads \X PartNumbers
    BY DEF PartRow
<1>2. /\ files' \in [Uploads \X PartNumbers -> Seq(Blocks) \cup {NoFile}]
      /\ \A g \in (Uploads \X PartNumbers) \ {f} : files'[g] = files[g]
    BY <1>1 DEF TypeOK
<1>3. TypeOK'
    BY <1>2 DEF TypeOK, tables, history
<1>4. ClientShape(c)'
  <2>1. ClientShape(c) /\ ~local[c].open /\ local[c] \in Local
      BY DEF ShapeInv, ClientShape, TypeOK
  <2>2. CASE pc'[c] = "idle" /\ local'[c] = Idle
      BY <2>2, IdleType DEF ClientShape, PartLabels
  <2>3. CASE pc'[c] = "unlink"
             /\ local'[c] = [local[c] EXCEPT !.stored = @ \ {r}]
    <3>1. /\ local'[c].upload = local[c].upload /\ ~local'[c].open
          /\ local'[c].stored \subseteq local[c].stored
        BY <2>1, <2>3 DEF Local
    <3> QED
        BY <2>1, <2>3, <3>1 DEF ClientShape, PartLabels, tables
  <2> QED
      BY <2>2, <2>3
<1>5. ASSUME NEW x \in Clients \ {c} PROVE ClientShape(x)'
  <2>1. ClientShape(x) /\ local[x] \in Local /\ pc'[x] = pc[x]
      BY DEF ShapeInv, TypeOK
  <2>2. CASE FileOf(x) = f
    <3>1. local'[x] = [local[x] EXCEPT !.open = FALSE]
        BY <2>2
    <3>2. CASE pc[x] = "idle"
        BY <2>1, <2>2, <3>1, <3>2, <1>1, 0 \notin Uploads
           DEF ClientShape, Idle, FileOf, Uploads
    <3>3. CASE pc[x] # "idle"
      <4>1. /\ ~local'[x].open /\ local'[x].stored = local[x].stored
            /\ local'[x].upload = local[x].upload
            /\ local'[x].part = local[x].part /\ local'[x].body = local[x].body
          BY <2>1, <3>1 DEF Local
      <4> QED
          BY <2>1, <3>3, <4>1 DEF ClientShape, tables
    <3> QED
        BY <3>2, <3>3
  <2>3. CASE FileOf(x) # f
    <3>1. local'[x] = local[x]
        BY <2>3
    <3>2. local[x].open => FileOf(x) \in Uploads \X PartNumbers
        BY <2>1, FileOfType DEF ClientShape, PartLabels
    <3> HIDE DEF f
    <3>3. local[x].open => files'[FileOf(x)] = files[FileOf(x)]
        BY <1>2, <2>3, <3>2
    <3> QED
        BY <2>1, <3>1, <3>3 DEF ClientShape, tables, FileOf
  <2> QED
      BY <2>2, <2>3
<1> QED
    BY <1>3, <1>4, <1>5 DEF ShapeInv, RowInv, tables, history

-----------------------------------------------------------------------------
(* The steps that change a table.                                          *)

LEMMA ClearEffect ==
    ASSUME NEW c \in Clients, ClearPart(c)
    PROVE  \A r : r \in parts' <=> /\ r \in parts
                                   /\ \/ r.upload # local[c].upload
                                      \/ r.part # local[c].part
BY DEF ClearPart, PartsOf

LEMMA ClearPartShape ==
    ASSUME TypeOK, ShapeInv, RowInv, NEW c \in Clients, ClearPart(c)
    PROVE  TypeOK' /\ ShapeInv' /\ RowInv'
<1>1. /\ pc[c] = "part_clear" /\ pc'[c] = "part_insert"
      /\ local' = local /\ Others(c)
      /\ UNCHANGED <<bucketExists, uploads, nextUpload, files, history, issued,
                     faults>>
    BY GotoStep DEF ClearPart, Labels, PartLabels, Others, TypeOK
<1>2. parts' \subseteq parts
    BY ClearEffect
<1>3. TypeOK'
    BY <1>1, <1>2 DEF TypeOK, Others, history
<1>4. ClientShape(c)'
    BY <1>1 DEF ClientShape, ShapeInv, PartLabels, FileOf
<1>5. ASSUME NEW x \in Clients \ {c} PROVE ClientShape(x)'
    BY <1>1, OthersShape DEF ShapeInv, ClientShape, TypeOK
<1>6. RowInv'
    BY <1>1, <1>2 DEF RowInv, history
<1> QED
    BY <1>3, <1>4, <1>5, <1>6 DEF ShapeInv

(* The row is inserted and the request answered 200, or nothing happens.   *)
LEMMA InsertEffect ==
    ASSUME TypeOK, ShapeInv, NEW c \in Clients, InsertPart(c)
    PROVE  /\ pc[c] = "part_insert" /\ pc'[c] = "idle" /\ local'[c] = Idle
           /\ Others(c)
           /\ FileOf(c) \in Uploads \X PartNumbers
           /\ local[c].body \in Bodies
           /\ \/ /\ CanInsertPart(local[c].upload, local[c].part)
                 /\ parts' = parts \cup {[upload |-> local[c].upload,
                                          part |-> local[c].part,
                                          etag |-> local[c].body]}
                 /\ ackedPart'[FileOf(c)] = local[c].body
                 /\ \A f \in (Uploads \X PartNumbers) \ {FileOf(c)} :
                       ackedPart'[f] = ackedPart[f]
              \/ /\ ~CanInsertPart(local[c].upload, local[c].part)
                 /\ UNCHANGED <<parts, ackedPart>>
           /\ parts' \subseteq PartRow
           /\ ackedPart' \in [Uploads \X PartNumbers -> Bodies \cup {NoBody}]
           /\ UNCHANGED <<bucketExists, uploads, nextUpload, files, closed,
                          issued, faults>>
<1>1. /\ pc[c] = "part_insert" /\ pc'[c] = "idle" /\ local'[c] = Idle
      /\ Others(c)
      /\ UNCHANGED <<bucketExists, uploads, nextUpload, files, closed, issued,
                     faults>>
    BY LeaveStep DEF InsertPart
<1>2. /\ FileOf(c) \in Uploads \X PartNumbers /\ local[c].body \in Bodies
      /\ local[c].upload \in Uploads /\ local[c].part \in PartNumbers
    BY <1>1, FileOfType DEF PartLabels
<1> DEFINE row == [upload |-> local[c].upload, part |-> local[c].part,
                   etag |-> local[c].body]
<1>3. row \in PartRow
    BY <1>2 DEF PartRow
<1>4. CASE ~CanInsertPart(local[c].upload, local[c].part)
    BY <1>1, <1>2, <1>4 DEF InsertPart, TypeOK
<1>5. CASE CanInsertPart(local[c].upload, local[c].part)
  <2>1. /\ parts' = parts \cup {row}
        /\ ackedPart' = [ackedPart EXCEPT ![FileOf(c)] = local[c].body]
      BY <1>5 DEF InsertPart
  <2>2. /\ ackedPart'[FileOf(c)] = local[c].body
        /\ \A f \in (Uploads \X PartNumbers) \ {FileOf(c)} :
              ackedPart'[f] = ackedPart[f]
        /\ ackedPart' \in [Uploads \X PartNumbers -> Bodies \cup {NoBody}]
      BY <1>2, <2>1 DEF TypeOK
  <2>3. parts' \subseteq PartRow
      BY <1>3, <2>1 DEF TypeOK
  <2> QED
      BY <1>1, <1>2, <1>5, <2>1, <2>2, <2>3
<1> QED
    BY <1>4, <1>5

LEMMA BodiesAreNotNoBody == ASSUME NEW b \in Bodies PROVE b # NoBody
OBVIOUS

LEMMA InsertPartShape ==
    ASSUME TypeOK, ShapeInv, RowInv, NEW c \in Clients, InsertPart(c)
    PROVE  TypeOK' /\ ShapeInv' /\ RowInv'
<1>1. /\ pc'[c] = "idle" /\ local'[c] = Idle /\ Others(c)
      /\ FileOf(c) \in Uploads \X PartNumbers /\ local[c].body \in Bodies
      /\ parts' \subseteq PartRow
      /\ ackedPart' \in [Uploads \X PartNumbers -> Bodies \cup {NoBody}]
      /\ UNCHANGED <<bucketExists, uploads, nextUpload, files, closed, issued,
                     faults>>
    BY InsertEffect
<1>2. TypeOK'
    BY <1>1 DEF TypeOK, Others
<1>3. ClientShape(c)'
    BY <1>1, IdleType DEF ClientShape, PartLabels
<1>4. ASSUME NEW x \in Clients \ {c} PROVE ClientShape(x)'
    BY <1>1, OthersShape DEF ShapeInv, ClientShape, TypeOK
<1>5. RowInv'
  <2>1. CASE UNCHANGED <<parts, ackedPart>>
      BY <1>1, <2>1 DEF RowInv
  <2>2. CASE /\ CanInsertPart(local[c].upload, local[c].part)
             /\ parts' = parts \cup {[upload |-> local[c].upload,
                                      part |-> local[c].part,
                                      etag |-> local[c].body]}
             /\ ackedPart'[FileOf(c)] = local[c].body
             /\ \A f \in (Uploads \X PartNumbers) \ {FileOf(c)} :
                   ackedPart'[f] = ackedPart[f]
    <3>1. local[c].upload \in uploads /\ local[c].body # NoBody
        BY <1>1, <2>2, BodiesAreNotNoBody DEF CanInsertPart
    <3>2. \A r \in parts' : r.upload \in uploads'
        BY <1>1, <2>2, <3>1 DEF RowInv
    <3>3. ASSUME NEW r \in parts'
          PROVE  ackedPart'[<<r.upload, r.part>>] # NoBody
      <4>1. <<r.upload, r.part>> \in Uploads \X PartNumbers
          BY <1>1 DEF PartRow
      <4>2. CASE <<r.upload, r.part>> = FileOf(c)
          BY <2>2, <3>1, <4>2
      <4>3. CASE <<r.upload, r.part>> # FileOf(c)
        <5>1. r \in parts
            BY <2>2, <4>3 DEF FileOf
        <5> QED
            BY <2>2, <4>1, <4>3, <5>1 DEF RowInv
      <4> QED
          BY <4>2, <4>3
    <3>4. ASSUME NEW u \in Uploads, NEW n \in PartNumbers, u >= nextUpload'
          PROVE  ackedPart'[<<u, n>>] = NoBody
      <4>1. <<u, n>> # FileOf(c)
          BY <1>1, <3>1, <3>4 DEF RowInv, FileOf, TypeOK, Uploads
      <4> QED
          BY <1>1, <2>2, <3>4, <4>1 DEF RowInv
    <3> QED
        BY <1>1, <3>2, <3>3, <3>4 DEF RowInv
  <2> QED
      BY <2>1, <2>2, InsertEffect
<1> QED
    BY <1>2, <1>3, <1>4, <1>5 DEF ShapeInv

LEMMA DeletePartsShape ==
    ASSUME TypeOK, ShapeInv, RowInv, NEW c \in Clients, DeleteParts(c)
    PROVE  TypeOK' /\ ShapeInv' /\ RowInv'
<1>1. /\ pc[c] = "del_parts" /\ pc'[c] = "del_upload"
      /\ local' = local /\ Others(c) /\ parts' \subseteq parts
      /\ UNCHANGED <<bucketExists, uploads, nextUpload, files, history, issued,
                     faults>>
    BY GotoStep DEF DeleteParts, Labels, CleanupLabels, Others, TypeOK
<1>2. TypeOK'
    BY <1>1 DEF TypeOK, Others, history
<1>3. ClientShape(c)'
    BY <1>1 DEF ClientShape, ShapeInv, PartLabels, FileOf
<1>4. ASSUME NEW x \in Clients \ {c} PROVE ClientShape(x)'
    BY <1>1, OthersShape DEF ShapeInv, ClientShape, TypeOK
<1>5. RowInv'
    BY <1>1 DEF RowInv, history
<1> QED
    BY <1>2, <1>3, <1>4, <1>5 DEF ShapeInv

LEMMA DeleteUploadShape ==
    ASSUME TypeOK, ShapeInv, RowInv, NEW c \in Clients, DeleteUpload(c)
    PROVE  TypeOK' /\ ShapeInv' /\ RowInv'
<1>1. /\ pc[c] = "del_upload" /\ pc'[c] = "idle" /\ local'[c] = Idle
      /\ Others(c)
      /\ uploads' = uploads \ {local[c].upload}
      /\ parts' = {r \in parts : r.upload # local[c].upload}
      /\ closed' = closed \cup {local[c].upload}
      /\ UNCHANGED <<bucketExists, nextUpload, files, ackedPart, issued, faults>>
    BY LeaveStep DEF DeleteUpload, PartsOf
<1>2. local[c].upload \in 1..(nextUpload - 1)
    BY <1>1 DEF ShapeInv, ClientShape
<1>3. local[c].upload \in Uploads /\ local[c].upload < nextUpload
    BY <1>2 DEF TypeOK, Uploads
<1>4. TypeOK'
    BY <1>1, <1>3 DEF TypeOK, Others
<1>5. ClientShape(c)'
    BY <1>1, IdleType DEF ClientShape, PartLabels
<1>6. ASSUME NEW x \in Clients \ {c} PROVE ClientShape(x)'
    BY <1>1, OthersShape DEF ShapeInv, ClientShape, TypeOK
<1>7. RowInv'
    BY <1>1, <1>3 DEF RowInv
<1> QED
    BY <1>4, <1>5, <1>6, <1>7 DEF ShapeInv

LEMMA TablesShape ==
    ASSUME TypeOK, ShapeInv, RowInv, CreateUpload \/ DeleteBucket
    PROVE  TypeOK' /\ ShapeInv' /\ RowInv'
<1>1. CASE CreateUpload
  <2>1. /\ nextUpload \in Uploads /\ nextUpload' = nextUpload + 1
        /\ nextUpload \in Nat /\ nextUpload' \in 1..(MaxUploads + 1)
        /\ uploads' = uploads \cup {nextUpload}
        /\ UNCHANGED <<bucketExists, parts, files, pc, local, issued, faults>>
        /\ UNCHANGED <<ackedPart, closed>>
      BY <1>1 DEF CreateUpload, TypeOK, Uploads, history
  <2>2. TypeOK'
      BY <2>1 DEF TypeOK
  <2>3. ShapeInv'
      BY <2>1 DEF ShapeInv, ClientShape, FileOf
  <2>4. RowInv'
    <3>1. \A u \in uploads \cup closed :
             u \in Nat /\ u < nextUpload /\ u < nextUpload'
        BY <2>1 DEF RowInv, TypeOK, Uploads
    <3>2. \A u \in uploads' \cup closed' : u < nextUpload'
        BY <2>1, <3>1
    <3>3. \A u \in closed' : u \notin uploads'
        BY <2>1, <3>1 DEF RowInv
    <3>4. \A u \in Uploads : u >= nextUpload' => u >= nextUpload
        BY <2>1 DEF Uploads
    <3> QED
        BY <2>1, <3>2, <3>3, <3>4 DEF RowInv
  <2> QED
      BY <2>2, <2>3, <2>4
<1>2. CASE DeleteBucket
  <2>1. TypeOK'
      BY <1>2 DEF DeleteBucket, TypeOK, history
  <2>2. ShapeInv'
      BY <1>2 DEF DeleteBucket, ShapeInv, ClientShape, FileOf
  <2>3. RowInv'
      BY <1>2 DEF DeleteBucket, RowInv, history
  <2> QED
      BY <2>1, <2>2, <2>3
<1> QED
    BY <1>1, <1>2

LEMMA RestartShape ==
    ASSUME TypeOK, ShapeInv, RowInv, Restart
    PROVE  TypeOK' /\ ShapeInv' /\ RowInv'
<1>1. TypeOK'
    BY IdleType DEF TypeOK, Restart, Fault, Labels, tables, history
<1>2. ShapeInv'
    BY IdleType DEF Restart, ShapeInv, ClientShape, PartLabels
<1>3. RowInv'
    BY DEF Restart, Fault, RowInv, tables, history
<1> QED
    BY <1>1, <1>2, <1>3

LEMMA ShapeStep ==
    ASSUME TypeOK, ShapeInv, RowInv, [Next]_vars
    PROVE  TypeOK' /\ ShapeInv' /\ RowInv'
<1>1. CASE UNCHANGED vars
  <2> USE <1>1 DEF vars, tables, history
  <2>1. TypeOK'
      BY DEF TypeOK
  <2>2. ShapeInv'
      BY DEF ShapeInv, ClientShape, FileOf
  <2>3. RowInv'
      BY DEF RowInv
  <2> QED
      BY <2>1, <2>2, <2>3
<1>2. CASE Restart
    BY <1>2, RestartShape
<1>3. CASE CreateUpload \/ DeleteBucket
    BY <1>3, TablesShape
<1>4. ASSUME NEW c \in Clients,
             NewRequest(c) \/ HandlerStep(c) \/ FailIgnored(c) \/ Abandon(c)
      PROVE  TypeOK' /\ ShapeInv' /\ RowInv'
  <2>1. CASE NewRequest(c)
      BY <2>1, RequestShape
  <2>2. CASE FailIgnored(c)
      BY <2>2, FailIgnoredShape
  <2>3. CASE Abandon(c)
      BY <2>3, AbandonShape
  <2>4. CASE FindUpload(c)
      BY <2>4, FindUploadShape
  <2>5. CASE TruncateFile(c) \/ WriteFile(c)
      BY <2>5, FileStepShape
  <2>6. CASE ClearPart(c)
      BY <2>6, ClearPartShape
  <2>7. CASE InsertPart(c)
      BY <2>7, InsertPartShape
  <2>8. CASE ListParts(c)
      BY <2>8, ListPartsShape
  <2>9. CASE ReadPart(c)
      BY <2>9, ReadPartShape
  <2>10. CASE AllRead(c) \/ CheckBucket(c) \/ StoreObject(c) \/ AllUnlinked(c)
      BY <2>10, MovesShape
  <2>11. CASE Unlink(c)
      BY <2>11, UnlinkShape
  <2>12. CASE DeleteParts(c)
      BY <2>12, DeletePartsShape
  <2>13. CASE DeleteUpload(c)
      BY <2>13, DeleteUploadShape
  <2> QED
      BY <1>4, <2>1, <2>2, <2>3, <2>4, <2>5, <2>6, <2>7, <2>8, <2>9, <2>10,
         <2>11, <2>12, <2>13 DEF HandlerStep
<1> QED
    BY <1>1, <1>2, <1>3, <1>4 DEF Next

LEMMA ShapeCorrect == Spec => [](TypeOK /\ ShapeInv /\ RowInv)
<1>1. Init => TypeOK /\ ShapeInv /\ RowInv
    BY InitShape
<1>2. TypeOK /\ ShapeInv /\ RowInv /\ [Next]_vars
        => (TypeOK /\ ShapeInv /\ RowInv)'
    BY ShapeStep
<1> QED
    BY <1>1, <1>2, PTL DEF Spec

(* The tables, the temp files and the locals of every handler of           *)
(* multipart.rs have their types, whatever fails and whoever gives up.     *)
THEOREM MultipartTypeCorrect == Spec => []TypeOK
BY ShapeCorrect, PTL

(* complete_multipart_upload and abort_multipart_upload close an upload    *)
(* for good, and the foreign key leaves no part row of it behind, also not *)
(* the row of an upload_part that had found the upload before.             *)
THEOREM UploadsStayClosed == Spec => []ClosedStaysClosed
<1>1. TypeOK /\ ShapeInv /\ RowInv => ClosedStaysClosed
    BY DEF RowInv, ClosedStaysClosed, PartsOf
<1> QED
    BY <1>1, ShapeCorrect, PTL

-----------------------------------------------------------------------------
(* The invariant of orderly behaviours: clients wait for their answers and *)
(* nothing has failed.                                                     *)

(* The label says what the request is, and no handler runs on without its  *)
(* client.                                                                 *)
OpOK(c) ==
    /\ ~local[c].dropped
    /\ pc[c] \in PartLabels <=> local[c].op = "part"
    /\ pc[c] \in CompleteLabels => local[c].op = "complete"

(* A part has one sender, and none while a complete request lists it.      *)
DisciplineInv ==
    /\ \A c, d \in Clients :
          local[c].op = "part" /\ local[d].op = "part" /\ FileOf(c) = FileOf(d)
             => c = d
    /\ \A c, d \in Clients :
          /\ local[c].op = "complete" /\ local[d].op = "part"
          /\ local[c].upload = local[d].upload
          => \A i \in DOMAIN local[c].list : local[c].list[i] # local[d].part

(* The upload is open and nobody is closing it.                            *)
Live(u) == u \in uploads /\ ~Cleaning(u)

(* The sender of a part has the file to itself: only a clean-up unlinks it.*)
Sender(c) ==
    /\ pc[c] = "part_write" =>
          /\ files[FileOf(c)] = IF local[c].open THEN <<>> ELSE NoFile
          /\ Live(local[c].upload) => local[c].open
    /\ pc[c] \in {"part_clear", "part_insert"} =>
          /\ files[FileOf(c)] \in {local[c].body, NoFile}
          /\ Live(local[c].upload) => files[FileOf(c)] = local[c].body
    /\ pc[c] = "part_insert" =>
          \A r \in parts : r.upload = local[c].upload => r.part # local[c].part

(* What can be read of an acknowledged part is what was acknowledged.      *)
Readable(u, n) ==
    ackedPart[<<u, n>>] # NoBody =>
        files[<<u, n>>] \in {ackedPart[<<u, n>>], NoFile}

StoredPart(u, n) ==
    /\ Readable(u, n)
    /\ Live(u) /\ ackedPart[<<u, n>>] # NoBody =>
          /\ files[<<u, n>>] = ackedPart[<<u, n>>]
          /\ \E r \in parts : r.upload = u /\ r.part = n
                              /\ r.etag = ackedPart[<<u, n>>]

StoredInv ==
    \A u \in uploads, n \in PartNumbers : ~Sending(u, n) => StoredPart(u, n)

(* A complete request that has found its upload can read the parts it      *)
(* lists, and what it has read so far is what was acknowledged.            *)
Reader(c) ==
    /\ pc[c] \in {"cm_find", "cm_list"} => local[c].data = <<>>
    /\ pc[c] \in {"cm_list", "cm_read"} =>
          \A i \in DOMAIN local[c].list :
             Readable(local[c].upload, local[c].list[i])
    /\ pc[c] = "cm_read" =>
          \A r \in local[c].stored :
             ackedPart[<<local[c].upload, r.part>>] # NoBody
    /\ pc[c] \in {"cm_read", "cm_bucket", "cm_store"} =>
          /\ Len(local[c].data) <= Len(local[c].list)
          /\ \A i \in 1..Len(local[c].data) :
                local[c].data[i] = ackedPart[<<local[c].upload, local[c].list[i]>>]
    /\ pc[c] \in {"cm_bucket", "cm_store"} =>
          Len(local[c].data) = Len(local[c].list)

PartInv ==
    /\ \A c \in Clients : OpOK(c) /\ Sender(c) /\ Reader(c)
    /\ DisciplineInv
    /\ StoredInv

Orderly == Disciplined /\ faults = 0

IInv == TypeOK /\ ShapeInv /\ RowInv /\ (Orderly => PartInv)

LEMMA IInvImplies == IInv => AckedPartsAreStored /\ AssembledAsAcked
<1> SUFFICES ASSUME IInv, Orderly
             PROVE  AckedPartsAreStored /\ AssembledAsAcked
    BY DEF Orderly, AckedPartsAreStored, AssembledAsAcked
<1>1. PartInv
    BY DEF IInv
<1>2. ASSUME NEW u \in uploads, NEW n \in PartNumbers,
             ackedPart[<<u, n>>] # NoBody, ~Sending(u, n), ~Cleaning(u)
      PROVE  /\ files[<<u, n>>] = ackedPart[<<u, n>>]
             /\ \E r \in PartsOf(u) : r.part = n /\ r.etag = ackedPart[<<u, n>>]
  <2>1. StoredPart(u, n) /\ Live(u)
      BY <1>1, <1>2 DEF PartInv, StoredInv, Live
  <2> QED
      BY <1>2, <2>1 DEF StoredPart, PartsOf
<1>3. ASSUME NEW c \in Clients, pc[c] = "cm_store"
      PROVE  local[c].data = [i \in DOMAIN local[c].list |->
                                ackedPart[<<local[c].upload, local[c].list[i]>>]]
  <2>1. /\ Len(local[c].data) = Len(local[c].list)
        /\ \A i \in 1..Len(local[c].data) :
              local[c].data[i] = ackedPart[<<local[c].upload, local[c].list[i]>>]
      BY <1>1, <1>3 DEF PartInv, Reader
  <2>2. /\ local[c].data \in Seq(Seq(Blocks))
        /\ local[c].list \in Seq(PartNumbers)
      BY DEF IInv, TypeOK, Local
  <2> DEFINE n == Len(local[c].list)
  <2>3. /\ DOMAIN local[c].list = 1..n
        /\ local[c].data = [i \in 1..n |-> local[c].data[i]]
      BY <2>1, <2>2
  <2> QED
      BY <2>1, <2>3
<1> QED
    BY <1>2, <1>3 DEF AckedPartsAreStored, AssembledAsAcked

LEMMA InitIInv == Init => IInv
<1> SUFFICES ASSUME Init PROVE IInv
    OBVIOUS
<1>1. TypeOK /\ ShapeInv /\ RowInv
    BY InitShape
<1>2. \A c \in Clients : OpOK(c) /\ Sender(c) /\ Reader(c)
    BY DEF Init, OpOK, Sender, Reader, Idle, PartLabels, CompleteLabels
<1>3. DisciplineInv
    BY DEF Init, DisciplineInv, Idle
<1>4. StoredInv
    BY DEF Init, StoredInv
<1> QED
    BY <1>1, <1>2, <1>3, <1>4 DEF IInv, PartInv

-----------------------------------------------------------------------------
(* What a step leaves of the orderly invariant.                            *)

LEMMA FileTypes ==
    ASSUME TypeOK, NEW u \in uploads, NEW n \in PartNumbers
    PROVE  u \in Uploads /\ <<u, n>> \in Uploads \X PartNumbers
BY DEF TypeOK

(* A clean-up once begun goes on until the upload is gone.                 *)
KeepsCleaning ==
    \A x \in Clients : pc[x] \in CleanupLabels =>
        \/ local[x].upload \notin uploads'
        \/ pc'[x] \in CleanupLabels /\ local'[x].upload = local[x].upload

LEMMA LiveStays ==
    ASSUME KeepsCleaning, uploads' \subseteq uploads \cup {nextUpload},
           NEW u, u # nextUpload, Live(u)'
    PROVE  Live(u)
BY DEF KeepsCleaning, Live, Cleaning

LEMMA SenderStays ==
    ASSUME TypeOK, ShapeInv, RowInv, NEW x \in Clients, Sender(x),
           pc'[x] = pc[x], local'[x] = local[x],
           pc[x] \in PartLabels => files'[FileOf(x)] = files[FileOf(x)],
           KeepsCleaning, uploads' \subseteq uploads \cup {nextUpload},
           pc[x] \in PartLabels =>
              \A r \in parts' : \/ r \in parts \/ r.upload # local[x].upload
                                \/ r.part # local[x].part
    PROVE  Sender(x)'
<1>1. FileOf(x)' = FileOf(x)
    BY DEF FileOf
<1>2. CASE pc[x] \notin PartLabels
    BY <1>2 DEF Sender, PartLabels
<1>3. CASE pc[x] \in PartLabels
  <2>1. local[x].upload # nextUpload
      BY <1>3 DEF ShapeInv, ClientShape, PartLabels, TypeOK
  <2>2. \A u : u # nextUpload /\ Live(u)' => Live(u)
      BY LiveStays
  <2>3. Live(local[x].upload)' => Live(local[x].upload)
      BY <2>1, <2>2 DEF Live, Cleaning
  <2> QED
      BY <1>1, <1>3, <2>3 DEF Sender
<1> QED
    BY <1>2, <1>3

LEMMA ReaderStays ==
    ASSUME TypeOK, ShapeInv, NEW x \in Clients, Reader(x),
           pc'[x] = pc[x], local'[x] = local[x],
           pc[x] \in CompleteLabels =>
              \A i \in DOMAIN local[x].list :
                 LET f == <<local[x].upload, local[x].list[i]>>
                 IN  /\ ackedPart'[f] = ackedPart[f]
                     /\ files'[f] \in {files[f], NoFile},
           \A f \in Uploads \X PartNumbers :
              ackedPart[f] # NoBody => ackedPart'[f] # NoBody
    PROVE  Reader(x)'
<1>1. CASE pc[x] \notin CompleteLabels
    BY <1>1 DEF Reader, CompleteLabels
<1>2. CASE pc[x] \in CompleteLabels
  <2>1. /\ local[x].upload \in Uploads /\ local[x].list \in Seq(PartNumbers)
        /\ local[x].stored \subseteq PartRow
        /\ local[x].data \in Seq(Seq(Blocks))
      BY <1>2 DEF TypeOK, ShapeInv, ClientShape, Local, CompleteLabels, Uploads
  <2>2. ASSUME pc[x] \in {"cm_list", "cm_read"}, NEW i \in DOMAIN local[x].list
        PROVE  Readable(local[x].upload, local[x].list[i])'
    <3>1. Readable(local[x].upload, local[x].list[i])
        BY <2>2 DEF Reader
    <3> QED
        BY <1>2, <3>1 DEF Readable
  <2>3. ASSUME pc[x] = "cm_read", NEW r \in local[x].stored
        PROVE  ackedPart'[<<local[x].upload, r.part>>] # NoBody
    <3>1. r.part \in PartNumbers
        BY <2>1 DEF PartRow
    <3> QED
        BY <2>1, <2>3, <3>1 DEF Reader
  <2>4. ASSUME pc[x] \in {"cm_read", "cm_bucket", "cm_store"}
        PROVE  /\ Len(local[x].data) <= Len(local[x].list)
               /\ \A i \in 1..Len(local[x].data) : local[x].data[i] =
                     ackedPart'[<<local[x].upload, local[x].list[i]>>]
    <3>1. Len(local[x].data) <= Len(local[x].list)
        BY <2>4 DEF Reader
    <3>2. ASSUME NEW i \in 1..Len(local[x].data)
          PROVE  i \in DOMAIN local[x].list
        BY <2>1, <3>1
    <3> QED
        BY <1>2, <2>4, <3>1, <3>2 DEF Reader
  <2> QED
      BY <2>2, <2>3, <2>4 DEF Reader
<1> QED
    BY <1>1, <1>2

LEMMA SendingMeans ==
    ASSUME TypeOK, ShapeInv, NEW u, NEW n, Sending(u, n),
           \A c \in Clients : OpOK(c)
    PROVE  \E c \in Clients : /\ pc[c] \in PartLabels /\ local[c].op = "part"
                              /\ FileOf(c) = <<u, n>>
BY DEF Sending, OpOK, FileOf

(* A step that changes neither files nor acknowledgements, and in which    *)
(* only movers move.                                                       *)
LEMMA PartFrame ==
    ASSUME TypeOK, ShapeInv, RowInv, PartInv, NEW movers \in SUBSET Clients,
           files' = files, ackedPart' = ackedPart,
           uploads' \subseteq uploads \cup {nextUpload}, parts' \subseteq parts,
           KeepsCleaning,
           \A x \in Clients \ movers : pc'[x] = pc[x] /\ local'[x] = local[x],
           \A c \in movers : OpOK(c)' /\ Sender(c)' /\ Reader(c)',
           DisciplineInv',
           \A u \in uploads', n \in PartNumbers : Sending(u, n) => Sending(u, n)',
           \A r \in parts : \/ r \in parts' \/ ~Live(r.upload)'
                            \/ Sending(r.upload, r.part)',
           uploads' \subseteq Uploads
    PROVE  PartInv'
<1>1. ASSUME NEW x \in Clients \ movers PROVE OpOK(x)' /\ Sender(x)' /\ Reader(x)'
  <2>1. OpOK(x) /\ Sender(x) /\ Reader(x) /\ pc'[x] = pc[x] /\ local'[x] = local[x]
      BY DEF PartInv
  <2>2. OpOK(x)'
      BY <2>1 DEF OpOK
  <2>3. Sender(x)'
      BY <2>1, SenderStays
  <2>4. Reader(x)'
      BY <2>1, ReaderStays
  <2> QED
      BY <2>2, <2>3, <2>4
<1>2. ASSUME NEW u \in uploads', NEW n \in PartNumbers, ~Sending(u, n)'
      PROVE  StoredPart(u, n)'
  <2>1. CASE u = nextUpload
    <3>1. ackedPart'[<<u, n>>] = NoBody
        BY <2>1 DEF RowInv, TypeOK
    <3> QED
        BY <3>1 DEF StoredPart, Readable
  <2>2. CASE u # nextUpload
    <3>1. u \in uploads /\ ~Sending(u, n)
        BY <1>2, <2>2
    <3>2. StoredPart(u, n)
        BY <3>1 DEF PartInv, StoredInv
    <3>3. Live(u)' => Live(u)
        BY <2>2, LiveStays
    <3>4. ASSUME Live(u)', NEW r \in parts, r.upload = u, r.part = n
          PROVE  r \in parts'
        BY <1>2, <3>4
    <3>5. Readable(u, n)'
        BY <3>2 DEF StoredPart, Readable
    <3> QED
        BY <3>2, <3>3, <3>4, <3>5 DEF StoredPart
  <2> QED
      BY <2>1, <2>2
<1> QED
    BY <1>1, <1>2 DEF PartInv, StoredInv

SameRequest(x) ==
    /\ local'[x].op = local[x].op /\ local'[x].upload = local[x].upload
    /\ local'[x].part = local[x].part /\ local'[x].list = local[x].list

LEMMA DisciplineStays ==
    ASSUME DisciplineInv,
           \A x \in Clients : local'[x].op = "none" \/ SameRequest(x)
    PROVE  DisciplineInv'
BY DEF DisciplineInv, SameRequest, FileOf

(* A step of c alone that changes no table and no file.                    *)
LEMMA QuietPart ==
    ASSUME TypeOK, ShapeInv, RowInv, PartInv, NEW c \in Clients, Others(c),
           UNCHANGED <<tables, files, history>>,
           OpOK(c)', Sender(c)', Reader(c)',
           SameRequest(c)
              \/ /\ local'[c].op = "none"
                 /\ local[c].op = "part" => local[c].upload \notin uploads,
           pc[c] \in CleanupLabels => pc'[c] \in CleanupLabels /\ SameRequest(c)
    PROVE  PartInv'
<1>1. DisciplineInv'
    BY DisciplineStays DEF PartInv, Others, SameRequest
<1>2. KeepsCleaning
    BY DEF KeepsCleaning, Others, SameRequest
<1>3. ASSUME NEW u \in uploads', NEW n \in PartNumbers, Sending(u, n)
      PROVE  Sending(u, n)'
  <2> PICK x \in Clients : local[x].op = "part" /\ local[x].upload = u
                           /\ local[x].part = n
      BY <1>3 DEF Sending
  <2>1. local'[x].op = "part" /\ local'[x].upload = u /\ local'[x].part = n
      BY DEF Others, SameRequest, tables
  <2> QED
      BY <2>1 DEF Sending
<1>4. /\ files' = files /\ ackedPart' = ackedPart /\ uploads' = uploads
      /\ parts' = parts /\ uploads' \subseteq Uploads
    BY DEF tables, history, TypeOK
<1>5. \A x \in Clients \ {c} : pc'[x] = pc[x] /\ local'[x] = local[x]
    BY DEF Others
<1>6. \A d \in {c} : OpOK(d)' /\ Sender(d)' /\ Reader(d)'
    OBVIOUS
<1> QED
  <2> DEFINE movers == {c}
  <2>1. /\ movers \in SUBSET Clients
        /\ \A x \in Clients \ movers : pc'[x] = pc[x] /\ local'[x] = local[x]
        /\ \A d \in movers : OpOK(d)' /\ Sender(d)' /\ Reader(d)'
      BY <1>5, <1>6
  <2>2. \A r \in parts : r \in parts'
      BY <1>4
  <2> HIDE DEF movers
  <2> QED
      BY <1>1, <1>2, <1>3, <1>4, <2>1, <2>2, PartFrame

LEMMA LeavePart ==
    ASSUME TypeOK, ShapeInv, RowInv, PartInv, NEW c \in Clients, Leave(c),
           UNCHANGED <<tables, files, history>>,
           local[c].op = "part" => local[c].upload \notin uploads,
           pc[c] \notin CleanupLabels
    PROVE  PartInv'
<1>1. Others(c) /\ pc'[c] = "idle" /\ local'[c] = Idle
    BY LeaveStep
<1>2. OpOK(c)' /\ Sender(c)' /\ Reader(c)' /\ local'[c].op = "none"
    BY <1>1 DEF OpOK, Sender, Reader, Idle, PartLabels, CompleteLabels
<1> QED
    BY <1>1, <1>2, QuietPart

LEMMA MovePart ==
    ASSUME TypeOK, ShapeInv, RowInv, PartInv, NEW c \in Clients,
           NEW label \in Labels, Goto(c, label),
           local'[c] \in Local, SameRequest(c),
           local'[c].dropped = local[c].dropped,
           \A x \in Clients \ {c} : local'[x] = local[x],
           local' \in [Clients -> Local],
           UNCHANGED <<tables, files, history>>,
           pc[c] \in PartLabels <=> label \in PartLabels,
           label \in CompleteLabels => pc[c] \in CompleteLabels,
           label \in PartLabels => label = "part_truncate",
           pc[c] \in CleanupLabels => label \in CleanupLabels,
           Reader(c)'
    PROVE  PartInv'
<1>1. Others(c) /\ pc'[c] = label
    BY GotoStep DEF Others
<1>2. OpOK(c)'
    BY <1>1 DEF OpOK, PartInv, SameRequest
<1>3. Sender(c)'
    BY <1>1 DEF Sender, PartLabels
<1> QED
    BY <1>1, <1>2, <1>3, QuietPart

LEMMA FindUploadPart ==
    ASSUME TypeOK, ShapeInv, RowInv, PartInv, NEW c \in Clients, FindUpload(c)
    PROVE  PartInv'
<1>1. UNCHANGED <<tables, files, history>> /\ local[c] \in Local
      /\ OpOK(c) /\ Reader(c)
    BY DEF FindUpload, TypeOK, PartInv
<1>2. CASE /\ pc[c] = "part_find" /\ Goto(c, "part_truncate") /\ UNCHANGED local
  <2>1. Reader(c)'
      BY <1>2, GotoStep DEF Reader, Labels, PartLabels
  <2> QED
      BY <1>1, <1>2, <2>1, MovePart
         DEF Labels, PartLabels, CompleteLabels, CleanupLabels, SameRequest, TypeOK
<1>3. CASE /\ pc[c] = "cm_find" /\ Goto(c, "cm_list") /\ UNCHANGED local
           /\ local[c].upload \in uploads
  <2>1. local[c].list \in Seq(PartNumbers) /\ local[c].op = "complete"
      BY <1>1, <1>3 DEF Local, OpOK, CompleteLabels
  <2>2. ASSUME NEW i \in DOMAIN local[c].list
        PROVE  Readable(local[c].upload, local[c].list[i])
    <3>1. local[c].list[i] \in PartNumbers
        BY <2>1
    <3>2. ~Sending(local[c].upload, local[c].list[i])
        BY <2>1 DEF Sending, PartInv, DisciplineInv
    <3> QED
        BY <1>3, <3>1, <3>2 DEF PartInv, StoredInv, StoredPart
  <2>3. Reader(c)'
      BY <1>1, <1>3, <2>2, GotoStep
         DEF Reader, Readable, Labels, CompleteLabels, history
  <2> QED
      BY <1>1, <1>3, <2>3, MovePart
         DEF Labels, PartLabels, CompleteLabels, CleanupLabels, SameRequest, TypeOK
<1>4. CASE Leave(c) /\ pc[c] \in {"part_find", "cm_find"}
           /\ local[c].upload \notin uploads
    BY <1>1, <1>4, LeavePart DEF CleanupLabels
<1> QED
    BY <1>2, <1>3, <1>4 DEF FindUpload

LEMMA ListPartsPart ==
    ASSUME TypeOK, ShapeInv, RowInv, PartInv, NEW c \in Clients, ListParts(c)
    PROVE  PartInv'
<1>1. /\ UNCHANGED <<tables, files, history>> /\ local[c] \in Local
      /\ local' = [local EXCEPT ![c].stored = PartsOf(local[c].upload)]
      /\ OpOK(c) /\ Reader(c) /\ PartsOf(local[c].upload) \in SUBSET PartRow
    BY DEF ListParts, TypeOK, PartInv, PartsOf
<1>2. /\ local'[c] = [local[c] EXCEPT !.stored = PartsOf(local[c].upload)]
      /\ local' \in [Clients -> Local]
      /\ \A x \in Clients \ {c} : local'[x] = local[x]
    BY <1>1 DEF TypeOK, Local
<1>3. /\ SameRequest(c) /\ local'[c].dropped = local[c].dropped
      /\ local'[c].data = local[c].data /\ local'[c] \in Local
      /\ local'[c].stored = PartsOf(local[c].upload)
    BY <1>1, <1>2 DEF SameRequest, Local
<1>4. CASE pc[c] = "cm_list" /\ Goto(c, "cm_read")
  <2>1. \A r \in local'[c].stored : ackedPart[<<local[c].upload, r.part>>] # NoBody
      BY <1>3 DEF RowInv, PartsOf
  <2>2. Reader(c)'
      BY <1>1, <1>3, <1>4, <2>1, GotoStep
         DEF Reader, Readable, Labels, CompleteLabels, history, SameRequest, Local
  <2> QED
      BY <1>1, <1>2, <1>3, <1>4, <2>2, MovePart
         DEF Labels, PartLabels, CompleteLabels, CleanupLabels
<1>5. CASE pc[c] = "ab_list" /\ Goto(c, "unlink")
  <2>1. Reader(c)'
      BY <1>5, GotoStep DEF Reader, Labels, CleanupLabels
  <2> QED
      BY <1>1, <1>2, <1>3, <1>5, <2>1, MovePart
         DEF Labels, PartLabels, CompleteLabels, CleanupLabels
<1> QED
    BY <1>4, <1>5 DEF ListParts

LEMMA ReadPartPart ==
    ASSUME TypeOK, ShapeInv, RowInv, PartInv, NEW c \in Clients, ReadPart(c)
    PROVE  PartInv'
<1>1. /\ UNCHANGED <<tables, files, history>> /\ local[c] \in Local
      /\ pc[c] = "cm_read" /\ OpOK(c) /\ Reader(c)
      /\ Len(local[c].data) < Len(local[c].list)
    BY DEF ReadPart, TypeOK, PartInv
<1>2. /\ local[c].op = "complete" /\ local[c].data \in Seq(Seq(Blocks))
      /\ local[c].list \in Seq(PartNumbers) /\ local[c].stored \subseteq PartRow
      /\ local[c].upload \in Uploads
  <2>1. local[c].op = "complete"
      BY <1>1 DEF OpOK, CompleteLabels
  <2>2. /\ local[c].data \in Seq(Seq(Blocks))
        /\ local[c].list \in Seq(PartNumbers) /\ local[c].stored \subseteq PartRow
      BY <1>1 DEF Local
  <2>3. nextUpload \in 1..(MaxUploads + 1) /\ MaxUploads \in Nat
      BY MultipartAssumption DEF TypeOK
  <2>4. local[c].upload \in 1..(nextUpload - 1)
      BY <1>1 DEF ShapeInv, ClientShape
  <2>5. local[c].upload \in Uploads
      BY <2>3, <2>4 DEF Uploads
  <2> QED
      BY <2>1, <2>2, <2>5
<1> DEFINE f == <<local[c].upload, NextPart(c)>>
           n == Len(local[c].data) + 1
<1>3. CASE Leave(c)
    BY <1>1, <1>2, <1>3, LeavePart DEF CleanupLabels
<1>4. ASSUME local' = [local EXCEPT ![c].data = Append(@, files[f])],
             files[f] # NoFile, UNCHANGED pc,
             NEW r \in local[c].stored, r.part = NextPart(c)
      PROVE  PartInv'
  <2>1. n \in DOMAIN local[c].list /\ NextPart(c) = local[c].list[n]
      BY <1>1, <1>2 DEF NextPart
  <2>2. files[f] = ackedPart[f] /\ f \in Uploads \X PartNumbers
    <3>1. Readable(local[c].upload, NextPart(c))
        BY <1>1, <2>1 DEF Reader
    <3>2. ackedPart[f] # NoBody
        BY <1>1, <1>4 DEF Reader
    <3>3. NextPart(c) \in PartNumbers
        BY <1>2, <2>1
    <3> QED
        BY <1>2, <1>4, <3>1, <3>2, <3>3 DEF Readable
  <2>3. files[f] \in Seq(Blocks)
      BY <1>4, <2>2 DEF TypeOK
  <2> HIDE DEF f
  <2> DEFINE longer == Append(local[c].data, files[f])
  <2>4. /\ longer \in Seq(Seq(Blocks)) /\ Len(longer) = n
        /\ \A i \in 1..Len(local[c].data) : longer[i] = local[c].data[i]
        /\ longer[n] = files[f]
      BY <1>2, <2>3
  <2>5. local' = [local EXCEPT ![c].data = longer]
      BY <1>4
  <2> HIDE DEF longer
  <2>6. /\ local'[c] = [local[c] EXCEPT !.data = longer]
        /\ local' \in [Clients -> Local]
        /\ \A x \in Clients \ {c} : local'[x] = local[x]
      BY ZenonT(60), <2>4, <2>5 DEF TypeOK, Local
  <2>7. /\ SameRequest(c) /\ local'[c].dropped = local[c].dropped
        /\ local'[c].data = longer /\ local'[c] \in Local
        /\ local'[c].stored = local[c].stored
        /\ local'[c].open = local[c].open /\ local'[c].body = local[c].body
      BY <1>1, <2>6 DEF SameRequest, Local
  <2>8. Others(c)
      BY <1>4, <2>6 DEF Others, TypeOK
  <2>9. OpOK(c)' /\ Sender(c)'
      BY <1>1, <1>4, <2>7 DEF OpOK, SameRequest, Sender, PartLabels
  <2>10. \A i \in 1..n : longer[i] = ackedPart[<<local[c].upload, local[c].list[i]>>]
    <3> TAKE i \in 1..n
    <3>1. CASE i = n
        BY <2>1, <2>2, <2>4, <3>1 DEF f
    <3>2. CASE i # n
      <4>1. i \in 1..Len(local[c].data)
          BY <1>2, <3>2
      <4>2. local[c].data[i] = ackedPart[<<local[c].upload, local[c].list[i]>>]
          BY <1>1, <4>1 DEF Reader
      <4> QED
          BY <2>4, <4>1, <4>2
    <3> QED
        BY <3>1, <3>2
  <2>11. Reader(c)'
    <3>1. n <= Len(local[c].list)
        BY <1>1, <1>2
    <3>2. /\ pc'[c] = "cm_read" /\ ackedPart' = ackedPart /\ files' = files
          /\ local'[c].upload = local[c].upload /\ local'[c].list = local[c].list
          /\ local'[c].data = longer /\ local'[c].stored = local[c].stored
        BY <1>1, <1>4, <2>7 DEF SameRequest, history
    <3>3. /\ \A i \in DOMAIN local[c].list :
                Readable(local[c].upload, local[c].list[i])
          /\ \A q \in local[c].stored :
                ackedPart[<<local[c].upload, q.part>>] # NoBody
        BY <1>1 DEF Reader
    <3>4. \A i \in DOMAIN local[c].list :
             Readable(local[c].upload, local[c].list[i])'
        BY <3>2, <3>3 DEF Readable
    <3> HIDE DEF n
    <3> QED
        BY <2>4, <2>10, <3>1, <3>2, <3>3, <3>4 DEF Reader
  <2> QED
      BY <1>1, <1>4, <2>7, <2>8, <2>9, <2>11, QuietPart DEF CleanupLabels
<1> QED
    BY <1>3, <1>4 DEF ReadPart

LEMMA MovesPart ==
    ASSUME TypeOK, ShapeInv, RowInv, PartInv, NEW c \in Clients,
           AllRead(c) \/ CheckBucket(c) \/ StoreObject(c) \/ AllUnlinked(c)
    PROVE  PartInv'
<1>1. /\ UNCHANGED <<tables, files, history>> /\ local[c] \in Local
      /\ local \in [Clients -> Local] /\ OpOK(c) /\ Reader(c)
    BY DEF AllRead, CheckBucket, StoreObject, AllUnlinked, TypeOK, PartInv
<1>2. CASE Leave(c) /\ pc[c] \in {"cm_bucket", "cm_store"}
    BY <1>1, <1>2, LeavePart DEF OpOK, CompleteLabels, CleanupLabels
<1>3. CASE AllRead(c)
  <2>1. Reader(c)'
      BY <1>1, <1>3, GotoStep
         DEF AllRead, Reader, Labels, CompleteLabels, history
  <2> QED
      BY <1>1, <1>3, <2>1, MovePart
         DEF AllRead, Labels, PartLabels, CompleteLabels, CleanupLabels,
             SameRequest
<1>4. CASE pc[c] = "cm_bucket" /\ Goto(c, "cm_store") /\ UNCHANGED local
  <2>1. Reader(c)'
      BY <1>1, <1>4, GotoStep DEF Reader, Labels, CompleteLabels, history
  <2> QED
      BY <1>1, <1>4, <2>1, MovePart
         DEF Labels, PartLabels, CompleteLabels, CleanupLabels, SameRequest
<1>5. ASSUME NEW label \in {"unlink", "del_parts"}, Goto(c, label),
             pc[c] \in {"cm_store", "unlink"}, UNCHANGED local
      PROVE  PartInv'
  <2>1. Reader(c)'
      BY <1>5, GotoStep DEF Reader, Labels, CleanupLabels
  <2> QED
      BY <1>1, <1>5, <2>1, MovePart
         DEF Labels, PartLabels, CompleteLabels, CleanupLabels, SameRequest
<1> QED
    BY <1>2, <1>3, <1>4, <1>5 DEF CheckBucket, StoreObject, AllUnlinked

LEMMA RequestPart ==
    ASSUME TypeOK, ShapeInv, RowInv, PartInv, Disciplined,
           NEW c \in Clients, NewRequest(c)
    PROVE  PartInv'
<1> PICK u \in 1..(nextUpload - 1) :
        \/ \E n \in PartNumbers, b \in Bodies : UploadPart(c, u, n, b)
        \/ \E list \in Lists : CompleteUpload(c, u, list)
        \/ AbortUpload(c, u)
    BY DEF NewRequest
<1>1. u \in Nat
    BY DEF TypeOK
<1>2. ASSUME NEW request \in Local, NEW label \in {"part_find", "cm_find", "ab_list"},
             Issue(c, request, label), ~request.dropped, request.data = <<>>,
             request.op = CASE label = "part_find" -> "part"
                            [] label = "cm_find"   -> "complete"
                            [] label = "ab_list"   -> "abort",
             request.op = "part" => MayUpload(request.upload, request.part),
             request.op = "complete" => MayComplete(request.upload, request.list)
      PROVE  PartInv'
  <2>1. /\ pc[c] = "idle" /\ UNCHANGED <<tables, files, history>>
        /\ local[c].op = "none"
      BY <1>2 DEF Issue, ShapeInv, ClientShape, Idle
  <2>2. Others(c) /\ pc'[c] = label /\ local'[c] = request
      BY <1>2, GotoStep
         DEF TypeOK, Issue, Others, Labels, PartLabels, CompleteLabels
  <2>3. OpOK(c)' /\ Sender(c)' /\ Reader(c)'
      BY <1>2, <2>2 DEF OpOK, Sender, Reader, PartLabels, CompleteLabels
  <2>4. DisciplineInv'
    <3>1. request.list \in Seq(PartNumbers)
        BY <1>2 DEF Local
    <3>2. ASSUME NEW d \in Clients \ {c}, local[d].op = "part", request.op = "part"
          PROVE  <<local[d].upload, local[d].part>> # <<request.upload, request.part>>
        BY <1>2, <3>2 DEF MayUpload, Sending
    <3>3. ASSUME NEW d \in Clients \ {c}, local[d].op = "complete",
                 request.op = "part", local[d].upload = request.upload,
                 NEW i \in DOMAIN local[d].list
          PROVE  local[d].list[i] # request.part
        BY <1>2, <3>3 DEF MayUpload, Listing
    <3>4. ASSUME NEW d \in Clients \ {c}, local[d].op = "part",
                 request.op = "complete", local[d].upload = request.upload,
                 NEW i \in DOMAIN request.list
          PROVE  request.list[i] # local[d].part
        BY <1>2, <3>4 DEF MayComplete, Sending
    <3>5. /\ \A d \in Clients \ {c} : local'[d] = local[d]
          /\ local'[c] = request /\ DisciplineInv
        BY <2>2 DEF Others, PartInv
    <3>6. \A d, e \in Clients :
             local'[d].op = "part" /\ local'[e].op = "part"
             /\ <<local'[d].upload, local'[d].part>>
                   = <<local'[e].upload, local'[e].part>> => d = e
        BY <3>2, <3>5 DEF DisciplineInv, FileOf
    <3>7. \A d, e \in Clients :
             /\ local'[d].op = "complete" /\ local'[e].op = "part"
             /\ local'[d].upload = local'[e].upload
             => \A i \in DOMAIN local'[d].list : local'[d].list[i] # local'[e].part
        BY <3>3, <3>4, <3>5 DEF DisciplineInv
    <3> QED
        BY <3>6, <3>7 DEF DisciplineInv, FileOf
  <2>5. KeepsCleaning
      BY <2>1, <2>2 DEF KeepsCleaning, Others, CleanupLabels
  <2>6. ASSUME NEW v \in uploads', NEW n \in PartNumbers, Sending(v, n)
        PROVE  Sending(v, n)'
    <3> PICK x \in Clients : local[x].op = "part" /\ local[x].upload = v
                             /\ local[x].part = n
        BY <2>6 DEF Sending
    <3> QED
        BY <2>1, <2>2 DEF Sending, Others
  <2> DEFINE movers == {c}
  <2>7. /\ movers \in SUBSET Clients
        /\ \A x \in Clients \ movers : pc'[x] = pc[x] /\ local'[x] = local[x]
        /\ \A d \in movers : OpOK(d)' /\ Sender(d)' /\ Reader(d)'
      BY <2>2, <2>3 DEF Others
  <2>8. /\ files' = files /\ ackedPart' = ackedPart /\ uploads' = uploads
        /\ parts' = parts /\ uploads' \subseteq Uploads
      BY <2>1 DEF tables, history, TypeOK
  <2> HIDE DEF movers
  <2> QED
      BY <2>4, <2>5, <2>6, <2>7, <2>8, PartFrame
<1>3. ASSUME NEW n \in PartNumbers, NEW b \in Bodies, UploadPart(c, u, n, b)
      PROVE  PartInv'
  <2> DEFINE request == [Idle EXCEPT !.op = "part", !.upload = u, !.part = n,
                                     !.body = b]
  <2>1. /\ request \in Local /\ request.upload = u /\ request.part = n
        /\ request.op = "part"
      BY <1>1, IdleType DEF Local
  <2>2. ~request.dropped /\ request.data = <<>>
      BY DEF Idle
  <2>3. Issue(c, request, "part_find") /\ MayUpload(u, n)
      BY <1>3 DEF UploadPart
  <2> HIDE DEF request
  <2> QED
      BY <1>2, <2>1, <2>2, <2>3
<1>4. ASSUME NEW list \in Lists, CompleteUpload(c, u, list)
      PROVE  PartInv'
  <2> DEFINE request == [Idle EXCEPT !.op = "complete", !.upload = u,
                                     !.list = list]
  <2>1. /\ request \in Local /\ request.upload = u /\ request.list = list
        /\ request.op = "complete"
      BY <1>1, IdleType DEF Local
  <2>2. ~request.dropped /\ request.data = <<>>
      BY DEF Idle
  <2>3. Issue(c, request, "cm_find") /\ MayComplete(u, list)
      BY <1>4 DEF CompleteUpload
  <2> HIDE DEF request
  <2> QED
      BY <1>2, <2>1, <2>2, <2>3
<1>5. ASSUME AbortUpload(c, u)
      PROVE  PartInv'
  <2> DEFINE request == [Idle EXCEPT !.op = "abort", !.upload = u]
  <2>1. request \in Local /\ request.op = "abort"
      BY <1>1, IdleType DEF Local
  <2>2. ~request.dropped /\ request.data = <<>>
      BY DEF Idle
  <2>3. Issue(c, request, "ab_list")
      BY <1>5 DEF AbortUpload
  <2> HIDE DEF request
  <2> QED
      BY <1>2, <2>1, <2>2, <2>3
<1> QED
    BY <1>3, <1>4, <1>5

LEMMA TablesPart ==
    ASSUME TypeOK, ShapeInv, RowInv, PartInv, CreateUpload \/ DeleteBucket
    PROVE  PartInv'
<1>1. /\ UNCHANGED <<pc, local, files, ackedPart>>
      /\ uploads' \subseteq uploads \cup {nextUpload} /\ parts' \subseteq parts
      /\ \A r \in parts : r \in parts' \/ uploads' = {}
    BY DEF CreateUpload, DeleteBucket, history
<1>2. uploads' \subseteq Uploads
    BY TablesShape DEF TypeOK, Uploads
<1>3. DisciplineInv'
    BY <1>1 DEF PartInv, DisciplineInv, FileOf
<1>4. KeepsCleaning
    BY <1>1 DEF KeepsCleaning
<1>5. \A u \in uploads', n \in PartNumbers : Sending(u, n) => Sending(u, n)'
    BY <1>1 DEF Sending
<1>6. \A r \in parts : r \in parts' \/ ~Live(r.upload)'
    BY <1>1 DEF Live
<1> DEFINE movers == {}
<1>7. /\ movers \in SUBSET Clients
      /\ \A x \in Clients \ movers : pc'[x] = pc[x] /\ local'[x] = local[x]
      /\ \A d \in movers : OpOK(d)' /\ Sender(d)' /\ Reader(d)'
    BY <1>1
<1> HIDE DEF movers
<1> QED
    BY <1>1, <1>2, <1>3, <1>4, <1>5, <1>6, <1>7, PartFrame

(* A step of c that takes away part rows, and perhaps the row of an upload *)
(* that c has cleaned up.                                                  *)
LEMMA RemovalPart ==
    ASSUME TypeOK, ShapeInv, RowInv, PartInv, NEW c \in Clients, Others(c),
           UNCHANGED <<files, ackedPart, nextUpload>>,
           uploads' \subseteq uploads, parts' \subseteq parts,
           OpOK(c)', Sender(c)', Reader(c)',
           SameRequest(c) \/ (local[c].op # "part" /\ local'[c].op = "none"),
           pc[c] \in CleanupLabels =>
              \/ local[c].upload \notin uploads'
              \/ pc'[c] \in CleanupLabels /\ SameRequest(c),
           \A r \in parts : \/ r \in parts' \/ ~Live(r.upload)'
                            \/ Sending(r.upload, r.part)'
    PROVE  PartInv'
<1>1. DisciplineInv'
    BY DisciplineStays DEF PartInv, Others, SameRequest
<1>2. KeepsCleaning
    BY DEF KeepsCleaning, Others, SameRequest
<1>3. \A u \in uploads', n \in PartNumbers : Sending(u, n) => Sending(u, n)'
    BY DEF Sending, Others, SameRequest
<1> DEFINE movers == {c}
<1>4. /\ movers \in SUBSET Clients
      /\ \A x \in Clients \ movers : pc'[x] = pc[x] /\ local'[x] = local[x]
      /\ \A d \in movers : OpOK(d)' /\ Sender(d)' /\ Reader(d)'
    BY DEF Others
<1>5. /\ files' = files /\ ackedPart' = ackedPart /\ uploads' \subseteq Uploads
      /\ uploads' \subseteq uploads \cup {nextUpload}
    BY DEF TypeOK
<1> HIDE DEF movers
<1> QED
    BY <1>1, <1>2, <1>3, <1>4, <1>5, PartFrame

LEMMA ClearPartPart ==
    ASSUME TypeOK, ShapeInv, RowInv, PartInv, NEW c \in Clients, ClearPart(c)
    PROVE  PartInv'
<1>1. /\ pc[c] = "part_clear" /\ pc'[c] = "part_insert" /\ local' = local
      /\ Others(c) /\ SameRequest(c)
      /\ UNCHANGED <<files, uploads, ackedPart, nextUpload>>
    BY GotoStep
       DEF ClearPart, Labels, PartLabels, Others, TypeOK, history, SameRequest
<1>2. /\ OpOK(c) /\ Sender(c) /\ local[c].op = "part"
    BY <1>1 DEF PartInv, OpOK, PartLabels
<1>3. \A r : r \in parts' <=> /\ r \in parts
                              /\ \/ r.upload # local[c].upload
                                 \/ r.part # local[c].part
    BY ClearEffect
<1>4. OpOK(c)' /\ Reader(c)'
    BY <1>1, <1>2 DEF OpOK, Reader, PartLabels, CompleteLabels
<1>5. Sender(c)'
  <2>1. Live(local[c].upload)' => Live(local[c].upload)
    <3>1. KeepsCleaning
        BY <1>1 DEF KeepsCleaning, Others, CleanupLabels
    <3> QED
        BY <1>1, <3>1 DEF KeepsCleaning, Live, Cleaning
  <2>2. /\ files[FileOf(c)] \in {local[c].body, NoFile}
        /\ Live(local[c].upload) => files[FileOf(c)] = local[c].body
      BY <1>1, <1>2 DEF Sender
  <2> QED
      BY <1>1, <1>3, <2>1, <2>2 DEF Sender, FileOf
<1>6. \A r \in parts : r \in parts' \/ Sending(r.upload, r.part)'
    BY <1>1, <1>2, <1>3 DEF Sending
<1>7. parts' \subseteq parts /\ uploads' \subseteq uploads
    BY <1>1, <1>3
<1>8. pc[c] \notin CleanupLabels
    BY <1>1 DEF CleanupLabels
<1>9. \A r \in parts : \/ r \in parts' \/ ~Live(r.upload)'
                       \/ Sending(r.upload, r.part)'
    BY <1>6
<1>10. /\ UNCHANGED <<files, ackedPart, nextUpload>> /\ Others(c)
       /\ SameRequest(c) \/ (local[c].op # "part" /\ local'[c].op = "none")
       /\ pc[c] \in CleanupLabels =>
             \/ local[c].upload \notin uploads'
             \/ pc'[c] \in CleanupLabels /\ SameRequest(c)
    BY <1>1, <1>8
<1>11. OpOK(c)' /\ Sender(c)' /\ Reader(c)'
    BY <1>4, <1>5
<1> QED
    BY <1>7, <1>9, <1>10, <1>11, RemovalPart

LEMMA DeletePartsPart ==
    ASSUME TypeOK, ShapeInv, RowInv, PartInv, NEW c \in Clients, DeleteParts(c)
    PROVE  PartInv'
<1>1. /\ pc[c] = "del_parts" /\ pc'[c] = "del_upload" /\ local' = local
      /\ Others(c) /\ SameRequest(c)
      /\ UNCHANGED <<files, uploads, ackedPart, nextUpload>>
      /\ parts' = {r \in parts : r.upload # local[c].upload}
    BY GotoStep
       DEF DeleteParts, Labels, CleanupLabels, Others, TypeOK, history, PartsOf,
           SameRequest
<1>2. OpOK(c)' /\ Reader(c)' /\ Sender(c)'
    BY <1>1
       DEF OpOK, Reader, Sender, PartLabels, CompleteLabels, PartInv
<1>3. \A r \in parts : r \in parts' \/ ~Live(r.upload)'
    BY <1>1 DEF Live, Cleaning, CleanupLabels
<1>4. pc'[c] \in CleanupLabels /\ parts' \subseteq parts /\ uploads' \subseteq uploads
    BY <1>1 DEF CleanupLabels
<1>5. \A r \in parts : \/ r \in parts' \/ ~Live(r.upload)'
                       \/ Sending(r.upload, r.part)'
    BY <1>3
<1>6. /\ UNCHANGED <<files, ackedPart, nextUpload>> /\ Others(c)
      /\ SameRequest(c) \/ (local[c].op # "part" /\ local'[c].op = "none")
      /\ pc[c] \in CleanupLabels =>
            \/ local[c].upload \notin uploads'
            \/ pc'[c] \in CleanupLabels /\ SameRequest(c)
    BY <1>1, <1>4
<1> QED
    BY <1>2, <1>4, <1>5, <1>6, RemovalPart

LEMMA DeleteUploadPart ==
    ASSUME TypeOK, ShapeInv, RowInv, PartInv, NEW c \in Clients, DeleteUpload(c)
    PROVE  PartInv'
<1>1. /\ pc[c] = "del_upload" /\ pc'[c] = "idle" /\ local'[c] = Idle
      /\ Others(c)
      /\ UNCHANGED <<files, ackedPart, nextUpload>>
      /\ uploads' = uploads \ {local[c].upload}
      /\ parts' = {r \in parts : r.upload # local[c].upload}
    BY LeaveStep DEF DeleteUpload, PartsOf
<1>2. OpOK(c)' /\ Reader(c)' /\ Sender(c)' /\ local'[c].op = "none"
      /\ local[c].op # "part"
    BY <1>1
       DEF OpOK, Reader, Sender, PartLabels, CompleteLabels, PartInv, Idle
<1>3. \A r \in parts : r \in parts' \/ ~Live(r.upload)'
    BY <1>1 DEF Live
<1>4. parts' \subseteq parts /\ uploads' \subseteq uploads
    BY <1>1
<1> QED
    BY <1>1, <1>2, <1>3, <1>4, RemovalPart

LEMMA ListedParts ==
    ASSUME TypeOK, ShapeInv, NEW x \in Clients, pc[x] \in CompleteLabels
    PROVE  \A i \in DOMAIN local[x].list :
              <<local[x].upload, local[x].list[i]>> \in Uploads \X PartNumbers
<1>1. local[x].upload \in Uploads /\ local[x].list \in Seq(PartNumbers)
    BY DEF TypeOK, ShapeInv, ClientShape, Local, CompleteLabels, Uploads
<1> QED
    BY <1>1

(* The other clients neither send nor list the part that c sends.          *)
LEMMA OwnPart ==
    ASSUME TypeOK, ShapeInv, PartInv, NEW c \in Clients, local[c].op = "part",
           NEW x \in Clients \ {c}
    PROVE  /\ pc[x] \in PartLabels => FileOf(x) # FileOf(c)
           /\ pc[x] \in CompleteLabels =>
                 \A i \in DOMAIN local[x].list :
                    <<local[x].upload, local[x].list[i]>> \in
                        (Uploads \X PartNumbers) \ {FileOf(c)}
<1>1. OpOK(x)
    BY DEF PartInv
<1>2. pc[x] \in CompleteLabels =>
         \A i \in DOMAIN local[x].list :
            <<local[x].upload, local[x].list[i]>> \in Uploads \X PartNumbers
    BY ListedParts
<1>3. pc[x] \in CompleteLabels =>
         \A i \in DOMAIN local[x].list :
            <<local[x].upload, local[x].list[i]>> # FileOf(c)
    BY <1>1 DEF OpOK, PartInv, DisciplineInv, FileOf
<1> QED
    BY <1>1, <1>2, <1>3 DEF OpOK, PartInv, DisciplineInv

(* The sender of a part changes the part's file.                           *)
LEMMA OwnFilePart ==
    ASSUME TypeOK, ShapeInv, RowInv, PartInv, NEW c \in Clients, Others(c),
           local[c].op = "part", SameRequest(c), pc[c] \notin CleanupLabels,
           \A f \in (Uploads \X PartNumbers) \ {FileOf(c)} : files'[f] = files[f],
           UNCHANGED <<tables, history>>,
           OpOK(c)', Sender(c)', Reader(c)'
    PROVE  PartInv'
<1>1. DisciplineInv'
    BY DisciplineStays DEF PartInv, Others, SameRequest
<1>2. KeepsCleaning
    BY DEF KeepsCleaning, Others
<1>3. /\ ackedPart' = ackedPart /\ uploads' = uploads /\ parts' = parts
      /\ uploads' \subseteq uploads \cup {nextUpload}
    BY DEF tables, history
<1>4. ASSUME NEW x \in Clients \ {c} PROVE OpOK(x)' /\ Sender(x)' /\ Reader(x)'
  <2>1. OpOK(x) /\ Sender(x) /\ Reader(x) /\ pc'[x] = pc[x] /\ local'[x] = local[x]
      BY DEF PartInv, Others
  <2>2. pc[x] \in PartLabels => files'[FileOf(x)] = files[FileOf(x)]
      BY FileOfType, OwnPart
  <2>3. pc[x] \in CompleteLabels =>
           \A i \in DOMAIN local[x].list :
              LET f == <<local[x].upload, local[x].list[i]>>
              IN  ackedPart'[f] = ackedPart[f] /\ files'[f] \in {files[f], NoFile}
      BY <1>3, OwnPart
  <2>4. Sender(x)'
      BY <1>2, <1>3, <2>1, <2>2, SenderStays
  <2>5. Reader(x)'
      BY <1>3, <2>1, <2>3, ReaderStays
  <2> QED
      BY <2>1, <2>4, <2>5 DEF OpOK
<1>5. ASSUME NEW u \in uploads', NEW n \in PartNumbers, ~Sending(u, n)'
      PROVE  StoredPart(u, n)'
  <2>1. \A x \in Clients : SameRequest(x)
      BY DEF Others, SameRequest
  <2>2. ~Sending(u, n) /\ <<u, n>> # FileOf(c)
      BY <1>5, <2>1 DEF Sending, SameRequest, FileOf
  <2>3. files'[<<u, n>>] = files[<<u, n>>]
      BY <1>3, <2>2, FileTypes
  <2>4. StoredPart(u, n) /\ u # nextUpload
      BY <1>3, <2>2 DEF PartInv, StoredInv, RowInv, TypeOK
  <2>5. Live(u)' => Live(u)
      BY <1>2, <1>3, <2>4, LiveStays
  <2> QED
      BY <1>3, <2>3, <2>4, <2>5 DEF StoredPart, Readable
<1> QED
    BY <1>1, <1>4, <1>5 DEF PartInv, StoredInv

LEMMA TruncatePart ==
    ASSUME TypeOK, ShapeInv, RowInv, PartInv, NEW c \in Clients, TruncateFile(c)
    PROVE  PartInv'
<1>1. /\ files'[FileOf(c)] = <<>> /\ Others(c)
      /\ \A f \in (Uploads \X PartNumbers) \ {FileOf(c)} : files'[f] = files[f]
      /\ pc[c] = "part_truncate" /\ pc'[c] = "part_write"
      /\ local'[c] = [local[c] EXCEPT !.open = TRUE]
      /\ UNCHANGED <<tables, history>>
    BY TruncateEffect
<1>2. OpOK(c) /\ local[c].op = "part" /\ local[c] \in Local
    BY <1>1 DEF PartInv, OpOK, PartLabels, TypeOK
<1>3. SameRequest(c) /\ local'[c].open /\ local'[c].dropped = local[c].dropped
    BY <1>1, <1>2 DEF SameRequest, Local
<1>4. OpOK(c)' /\ Reader(c)'
    BY <1>1, <1>2, <1>3 DEF OpOK, Reader, SameRequest, PartLabels, CompleteLabels
<1>5. Sender(c)'
    BY <1>1, <1>3 DEF Sender, SameRequest, FileOf
<1> QED
    BY <1>1, <1>2, <1>3, <1>4, <1>5, OwnFilePart DEF CleanupLabels

LEMMA WritePart ==
    ASSUME TypeOK, ShapeInv, RowInv, PartInv, NEW c \in Clients, WriteFile(c)
    PROVE  PartInv'
<1>1. /\ Others(c) /\ pc[c] = "part_write"
      /\ \A f \in (Uploads \X PartNumbers) \ {FileOf(c)} : files'[f] = files[f]
      /\ UNCHANGED <<tables, history>>
    BY WriteEffect
<1>2. /\ OpOK(c) /\ Sender(c) /\ local[c].op = "part" /\ ~local[c].dropped
      /\ local[c].open \in BOOLEAN
    BY <1>1 DEF PartInv, OpOK, PartLabels, TypeOK, Local
<1>3. pc'[c] = "part_clear" /\ local'[c] = local[c]
    BY <1>2, WriteEffect
<1>4. SameRequest(c) /\ FileOf(c)' = FileOf(c) /\ OpOK(c)' /\ Reader(c)'
    BY <1>1, <1>2, <1>3
       DEF SameRequest, FileOf, OpOK, Reader, PartLabels, CompleteLabels
<1>5. files'[FileOf(c)] = IF local[c].open THEN local[c].body ELSE NoFile
  <2>1. CASE local[c].open
    <3>1. local[c].body \in Seq(Blocks)
        BY <1>1, FileOfType DEF PartLabels
    <3>2. files[FileOf(c)] = <<>>
        BY <1>1, <1>2, <2>1 DEF Sender
    <3>3. files'[FileOf(c)] = Overlay(files[FileOf(c)], local[c].body)
        BY <2>1, WriteEffect
    <3> QED
        BY <2>1, <3>1, <3>2, <3>3, OverlayEmpty
  <2>2. CASE ~local[c].open
    <3>1. files' = files
        BY <2>2, WriteEffect
    <3> QED
        BY <1>1, <1>2, <2>2, <3>1 DEF Sender
  <2> QED
      BY <1>2, <2>1, <2>2
<1>6. Sender(c)'
  <2>1. Live(local[c].upload)' => Live(local[c].upload)
      BY <1>1, <1>3 DEF Live, Cleaning, Others, CleanupLabels, tables
  <2>2. Live(local[c].upload) => local[c].open
      BY <1>1, <1>2 DEF Sender
  <2> QED
      BY <1>3, <1>4, <1>5, <2>1, <2>2 DEF Sender
<1> QED
    BY <1>1, <1>2, <1>4, <1>6, OwnFilePart DEF CleanupLabels

LEMMA InsertPartPart ==
    ASSUME TypeOK, ShapeInv, RowInv, PartInv, NEW c \in Clients, InsertPart(c)
    PROVE  PartInv'
<1> DEFINE u == local[c].upload
           n == local[c].part
           row == [upload |-> u, part |-> n, etag |-> local[c].body]
<1>1. /\ pc[c] = "part_insert" /\ pc'[c] = "idle" /\ local'[c] = Idle
      /\ Others(c) /\ FileOf(c) \in Uploads \X PartNumbers
      /\ local[c].body \in Bodies
      /\ UNCHANGED <<files, uploads, nextUpload>>
    BY InsertEffect
<1>2. /\ OpOK(c) /\ Sender(c) /\ local[c].op = "part"
    BY <1>1 DEF PartInv, OpOK, PartLabels
<1>3. \/ /\ u \in uploads /\ parts' = parts \cup {row}
         /\ ackedPart'[FileOf(c)] = local[c].body
         /\ \A f \in (Uploads \X PartNumbers) \ {FileOf(c)} :
               ackedPart'[f] = ackedPart[f]
      \/ /\ u \notin uploads /\ UNCHANGED <<parts, ackedPart>>
  <2>1. \A r \in PartsOf(u) : r.part # n
      BY <1>1, <1>2 DEF Sender, PartsOf
  <2>2. CanInsertPart(u, n) <=> u \in uploads
      BY <2>1 DEF CanInsertPart
  <2> QED
      BY <2>2, InsertEffect
<1>4. \A f \in (Uploads \X PartNumbers) \ {FileOf(c)} : ackedPart'[f] = ackedPart[f]
    BY <1>3
<1>5. \A f \in Uploads \X PartNumbers : ackedPart[f] # NoBody => ackedPart'[f] # NoBody
    BY <1>1, <1>3, BodiesAreNotNoBody
<1>6. /\ OpOK(c)' /\ Sender(c)' /\ Reader(c)' /\ local'[c].op = "none"
    BY <1>1 DEF OpOK, Sender, Reader, Idle, PartLabels, CompleteLabels
<1>7. DisciplineInv'
    BY <1>1, <1>6, DisciplineStays DEF PartInv, Others, SameRequest
<1>8. KeepsCleaning
    BY <1>1 DEF KeepsCleaning, Others, CleanupLabels
<1>9. ASSUME NEW x \in Clients \ {c} PROVE OpOK(x)' /\ Sender(x)' /\ Reader(x)'
  <2>1. OpOK(x) /\ Sender(x) /\ Reader(x) /\ pc'[x] = pc[x] /\ local'[x] = local[x]
      BY <1>1 DEF PartInv, Others
  <2>2. pc[x] \in PartLabels =>
           \A r \in parts' : \/ r \in parts \/ r.upload # local[x].upload
                             \/ r.part # local[x].part
    <3>1. pc[x] \in PartLabels => FileOf(x) # FileOf(c)
        BY <1>2, OwnPart
    <3> QED
        BY <1>3, <3>1 DEF FileOf
  <2>3. pc[x] \in CompleteLabels =>
           \A i \in DOMAIN local[x].list :
              LET f == <<local[x].upload, local[x].list[i]>>
              IN  ackedPart'[f] = ackedPart[f] /\ files'[f] \in {files[f], NoFile}
      BY <1>1, <1>2, <1>4, OwnPart
  <2>4. Sender(x)'
      BY <1>1, <1>8, <2>1, <2>2, SenderStays
  <2>5. Reader(x)'
      BY <1>5, <2>1, <2>3, ReaderStays
  <2> QED
      BY <2>1, <2>4, <2>5 DEF OpOK
<1>10. ASSUME NEW v \in uploads', NEW m \in PartNumbers, ~Sending(v, m)'
       PROVE  StoredPart(v, m)'
  <2>1. /\ v \in uploads /\ v # nextUpload /\ <<v, m>> \in Uploads \X PartNumbers
      BY <1>1, FileTypes DEF RowInv, TypeOK
  <2>2. Live(v)' => Live(v)
      BY <1>1, <1>8, <2>1, LiveStays
  <2>3. CASE <<v, m>> = FileOf(c)
    <3>1. /\ v = u /\ m = n /\ row \in parts'
          /\ ackedPart'[<<v, m>>] = local[c].body
        BY <1>3, <2>1, <2>3 DEF FileOf
    <3>2. /\ files[<<v, m>>] \in {local[c].body, NoFile}
          /\ Live(v) => files[<<v, m>>] = local[c].body
        BY <1>1, <1>2, <2>3, <3>1 DEF Sender
    <3>3. row.upload = v /\ row.part = m /\ row.etag = local[c].body
        BY <3>1
    <3> HIDE DEF row
    <3> QED
        BY <1>1, <2>2, <3>1, <3>2, <3>3 DEF StoredPart, Readable
  <2>4. CASE <<v, m>> # FileOf(c)
    <3>1. ~Sending(v, m)
        BY <1>1, <1>10, <2>4 DEF Sending, Others, FileOf
    <3>2. StoredPart(v, m) /\ ackedPart'[<<v, m>>] = ackedPart[<<v, m>>]
        BY <1>4, <2>1, <2>4, <3>1 DEF PartInv, StoredInv
    <3>3. parts \subseteq parts'
        BY <1>3
    <3> QED
        BY <1>1, <2>2, <3>2, <3>3 DEF StoredPart, Readable
  <2> QED
      BY <2>3, <2>4
<1> QED
    BY <1>6, <1>7, <1>9, <1>10 DEF PartInv, StoredInv

LEMMA UnlinkPart ==
    ASSUME TypeOK, ShapeInv, RowInv, PartInv, NEW c \in Clients, Unlink(c)
    PROVE  PartInv'
<1> PICK r \in local[c].stored :
      /\ r \in PartRow /\ r.upload = local[c].upload
      /\ files' = [files EXCEPT ![<<r.upload, r.part>>] = NoFile]
      /\ pc[c] = "unlink"
      /\ \/ local[c].dropped /\ pc'[c] = "idle" /\ local'[c] = Idle
         \/ /\ ~local[c].dropped /\ pc'[c] = "unlink"
            /\ local'[c] = [local[c] EXCEPT !.stored = @ \ {r}]
      /\ \A x \in Clients \ {c} :
            /\ pc'[x] = pc[x]
            /\ local'[x] = IF FileOf(x) = <<r.upload, r.part>>
                           THEN [local[x] EXCEPT !.open = FALSE]
                           ELSE local[x]
      /\ pc' \in [Clients -> Labels] /\ local' \in [Clients -> Local]
      /\ UNCHANGED <<tables, history, issued, faults>>
    BY UnlinkEffect
<1> DEFINE f == <<r.upload, r.part>>
<1>1. /\ f \in Uploads \X PartNumbers /\ files'[f] = NoFile
      /\ \A g \in (Uploads \X PartNumbers) \ {f} : files'[g] = files[g]
      /\ ackedPart' = ackedPart /\ uploads' = uploads /\ parts' = parts
    BY DEF PartRow, TypeOK, tables, history
<1>2. OpOK(c) /\ local[c] \in Local
    BY DEF PartInv, TypeOK
<1>3. /\ pc'[c] = "unlink" /\ SameRequest(c)
      /\ local'[c].dropped = local[c].dropped
    BY <1>2 DEF OpOK, Local, SameRequest
<1>4. OpOK(c)' /\ Sender(c)' /\ Reader(c)'
    BY <1>2, <1>3
       DEF OpOK, Sender, Reader, SameRequest, PartLabels, CompleteLabels
<1>5. ASSUME NEW x \in Clients \ {c}
      PROVE  /\ SameRequest(x) /\ local'[x].body = local[x].body
             /\ local'[x].dropped = local[x].dropped
             /\ FileOf(x) = f => ~local'[x].open
             /\ FileOf(x) # f \/ pc[x] \notin PartLabels => local'[x] = local[x]
  <2>1. local[x] \in Local /\ (pc[x] \notin PartLabels => ~local[x].open)
      BY DEF TypeOK, ShapeInv, ClientShape, PartLabels
  <2>2. \A l \in Local : ~l.open => [l EXCEPT !.open = FALSE] = l
      BY DEF Local
  <2>3. CASE FileOf(x) = f
    <3>1. local'[x] = [local[x] EXCEPT !.open = FALSE]
        BY <2>3
    <3>2. /\ SameRequest(x) /\ local'[x].body = local[x].body
          /\ local'[x].dropped = local[x].dropped /\ ~local'[x].open
        BY <2>1, <3>1 DEF SameRequest, Local
    <3> QED
        BY <2>1, <2>2, <2>3, <3>1, <3>2
  <2>4. CASE FileOf(x) # f
      BY <2>4 DEF SameRequest
  <2> QED
      BY <2>3, <2>4
<1>6. DisciplineInv'
    BY <1>3, <1>5, DisciplineStays DEF PartInv
<1>7. KeepsCleaning
    BY <1>3, <1>5 DEF KeepsCleaning, SameRequest, CleanupLabels
<1>8. ~Live(r.upload)'
    BY <1>3 DEF Live, Cleaning, CleanupLabels, SameRequest
<1> HIDE DEF f
<1>9. ASSUME NEW x \in Clients \ {c} PROVE OpOK(x)' /\ Sender(x)' /\ Reader(x)'
  <2>1. OpOK(x) /\ Sender(x) /\ Reader(x) /\ pc'[x] = pc[x]
      BY DEF PartInv
  <2>2. OpOK(x)'
      BY <1>5, <2>1 DEF OpOK, SameRequest
  <2>3. CASE FileOf(x) = f /\ pc[x] \in PartLabels
    <3>1. /\ ~local'[x].open /\ FileOf(x)' = f
          /\ local[x].upload = r.upload /\ local'[x].upload = r.upload
          /\ local'[x].part = local[x].part
        BY <1>5, <2>3 DEF SameRequest, FileOf, f
    <3>2. ~Live(local[x].upload)'
        BY <1>8, <3>1 DEF Live, Cleaning
    <3>3. Sender(x)'
        BY <1>1, <2>1, <3>1, <3>2 DEF Sender
    <3>4. Reader(x)'
        BY <2>1, <2>3 DEF Reader, PartLabels
    <3> QED
        BY <2>2, <3>3, <3>4
  <2>4. CASE ~(FileOf(x) = f /\ pc[x] \in PartLabels)
    <3>1. local'[x] = local[x]
        BY <1>5, <2>4
    <3>2. pc[x] \in PartLabels => files'[FileOf(x)] = files[FileOf(x)]
        BY <1>1, <2>4, FileOfType
    <3>3. pc[x] \in CompleteLabels =>
             \A i \in DOMAIN local[x].list :
                LET g == <<local[x].upload, local[x].list[i]>>
                IN  ackedPart'[g] = ackedPart[g] /\ files'[g] \in {files[g], NoFile}
      <4>1. pc[x] \in CompleteLabels =>
               \A i \in DOMAIN local[x].list :
                  <<local[x].upload, local[x].list[i]>> \in Uploads \X PartNumbers
          BY ListedParts
      <4>2. \A g \in Uploads \X PartNumbers : files'[g] \in {files[g], NoFile}
          BY <1>1
      <4> QED
          BY <1>1, <4>1, <4>2
    <3>4. Sender(x)'
        BY <1>1, <1>7, <2>1, <3>1, <3>2, SenderStays
    <3>5. Reader(x)'
        BY <1>1, <2>1, <3>1, <3>3, ReaderStays
    <3> QED
        BY <2>2, <3>4, <3>5
  <2> QED
      BY <2>3, <2>4
<1>10. ASSUME NEW v \in uploads', NEW m \in PartNumbers, ~Sending(v, m)'
       PROVE  StoredPart(v, m)'
  <2>1. /\ v \in uploads /\ v # nextUpload /\ <<v, m>> \in Uploads \X PartNumbers
      BY <1>1, FileTypes DEF RowInv, TypeOK
  <2>2. Live(v)' => Live(v)
      BY <1>1, <1>7, <2>1, LiveStays
  <2>3. CASE <<v, m>> = f
    <3>1. ~Live(v)'
        BY <1>8, <2>3 DEF f
    <3> QED
        BY <1>1, <2>3, <3>1 DEF StoredPart, Readable
  <2>4. CASE <<v, m>> # f
    <3>1. ~Sending(v, m)
        BY <1>3, <1>5, <1>10 DEF Sending, SameRequest
    <3>2. StoredPart(v, m) /\ files'[<<v, m>>] = files[<<v, m>>]
        BY <1>1, <2>1, <2>4, <3>1 DEF PartInv, StoredInv
    <3> QED
        BY <1>1, <2>2, <3>2 DEF StoredPart, Readable
  <2> QED
      BY <2>3, <2>4
<1> QED
    BY <1>4, <1>6, <1>9, <1>10 DEF PartInv, StoredInv

LEMMA PartStep ==
    ASSUME TypeOK, ShapeInv, RowInv, PartInv, Orderly, Orderly', [Next]_vars
    PROVE  PartInv'
<1>1. CASE UNCHANGED vars
  <2> USE <1>1 DEF vars, tables, history
  <2>1. ASSUME NEW c \in Clients PROVE OpOK(c)' /\ Sender(c)' /\ Reader(c)'
    <3>1. OpOK(c) /\ Sender(c) /\ Reader(c)
        BY DEF PartInv
    <3>2. OpOK(c)'
        BY <3>1 DEF OpOK
    <3>3. Sender(c)'
        BY <3>1 DEF Sender, Live, Cleaning, FileOf
    <3>4. Reader(c)'
        BY <3>1 DEF Reader, Readable
    <3> QED
        BY <3>2, <3>3, <3>4
  <2>2. DisciplineInv'
      BY DEF PartInv, DisciplineInv, FileOf
  <2>3. ASSUME NEW u \in uploads', NEW n \in PartNumbers, ~Sending(u, n)'
        PROVE  StoredPart(u, n)'
    <3>1. ~Sending(u, n) /\ u \in uploads
        BY <2>3 DEF Sending
    <3>2. StoredPart(u, n)
        BY <3>1 DEF PartInv, StoredInv
    <3> QED
        BY <3>2 DEF StoredPart, Readable, Live, Cleaning
  <2> QED
      BY <2>1, <2>2, <2>3 DEF PartInv, StoredInv
<1>2. ~Fault
    BY DEF Orderly, Fault
<1>3. CASE CreateUpload \/ DeleteBucket
    BY <1>3, TablesPart
<1>4. ASSUME NEW c \in Clients, NewRequest(c) \/ HandlerStep(c)
      PROVE  PartInv'
  <2>1. CASE NewRequest(c)
      BY <2>1, RequestPart DEF Orderly
  <2>2. CASE FindUpload(c)
      BY <2>2, FindUploadPart
  <2>3. CASE TruncateFile(c)
      BY <2>3, TruncatePart
  <2>4. CASE WriteFile(c)
      BY <2>4, WritePart
  <2>5. CASE ClearPart(c)
      BY <2>5, ClearPartPart
  <2>6. CASE InsertPart(c)
      BY <2>6, InsertPartPart
  <2>7. CASE ListParts(c)
      BY <2>7, ListPartsPart
  <2>8. CASE ReadPart(c)
      BY <2>8, ReadPartPart
  <2>9. CASE AllRead(c) \/ CheckBucket(c) \/ StoreObject(c) \/ AllUnlinked(c)
      BY <2>9, MovesPart
  <2>10. CASE Unlink(c)
      BY <2>10, UnlinkPart
  <2>11. CASE DeleteParts(c)
      BY <2>11, DeletePartsPart
  <2>12. CASE DeleteUpload(c)
      BY <2>12, DeleteUploadPart
  <2> QED
      BY <1>4, <2>1, <2>2, <2>3, <2>4, <2>5, <2>6, <2>7, <2>8, <2>9, <2>10,
         <2>11, <2>12 DEF HandlerStep
<1> QED
    BY <1>1, <1>2, <1>3, <1>4 DEF Next, FailIgnored, Abandon, Restart

LEMMA FaultsCounted ==
    ASSUME [Next]_vars
    PROVE  faults' = faults \/ Fault
<1>1. CASE UNCHANGED vars
    BY <1>1 DEF vars
<1>2. CASE CreateUpload \/ DeleteBucket \/ Restart
    BY <1>2 DEF CreateUpload, DeleteBucket, Restart
<1>3. ASSUME NEW c \in Clients,
             NewRequest(c) \/ HandlerStep(c) \/ FailIgnored(c) \/ Abandon(c)
      PROVE  faults' = faults \/ Fault
  <2>1. CASE NewRequest(c)
      BY <2>1 DEF NewRequest, UploadPart, CompleteUpload, AbortUpload, Issue
  <2>2. CASE FailIgnored(c) \/ Abandon(c)
      BY <2>2 DEF FailIgnored, Abandon
  <2>3. CASE HandlerStep(c)
      BY <2>3 DEF HandlerStep, FindUpload, TruncateFile, WriteFile, ClearPart,
         InsertPart, ListParts, ReadPart, AllRead, CheckBucket, StoreObject,
         Unlink, AllUnlinked, DeleteParts, DeleteUpload
  <2> QED
      BY <1>3, <2>1, <2>2, <2>3
<1> QED
    BY <1>1, <1>2, <1>3 DEF Next

LEMMA IInvCorrect == Spec => []IInv
<1>1. IInv /\ [Next]_vars => IInv'
  <2> SUFFICES ASSUME IInv, [Next]_vars PROVE IInv'
      OBVIOUS
  <2>1. TypeOK' /\ ShapeInv' /\ RowInv'
      BY ShapeStep DEF IInv
  <2>2. Orderly' => Orderly
      BY FaultsCounted DEF Orderly, IInv, TypeOK, Fault
  <2> QED
      BY <2>1, <2>2, PartStep DEF IInv
<1> QED
    BY <1>1, InitIInv, PTL DEF Spec

(* upload_part's 200 means what it says: while the upload is open and      *)
(* nobody re-sends the part, completes or aborts the upload, the part has  *)
(* its row and its file holds the acknowledged bytes, whatever requests    *)
(* for other parts, completes, aborts and bucket deletions run beside it.  *)
THEOREM AcknowledgedPartsAreStored == Spec => []AckedPartsAreStored
BY IInvCorrect, IInvImplies, PTL

(* complete_multipart_upload hands the pipeline the listed parts as they   *)
(* were acknowledged, in the order of the list.                            *)
THEOREM CompletedAsAcknowledged == Spec => []AssembledAsAcked
BY IInvCorrect, IInvImplies, PTL
=============================================================================
