----------------------------- MODULE FileProofs -----------------------------
(***************************************************************************)
(* Proofs about FileHandlers: for any paths, requests and limits, what     *)
(* file.write, file.list and file.read answer while the others change the  *)
(* files under them.                                                       *)
(***************************************************************************)
EXTENDS FileHandlers, SequenceTheorems, TLAPS

-----------------------------------------------------------------------------
(* The types. *)

Stages == {"idle", "begin", "read", "infos", "writing", "closing", "done"}

Answers ==
    {"none", "result", "invalid_request", "permission_denied", "internal_error", "file_too_large"}

Byte == (Reqs \cup {0}) \X Nat

DirEntry == [p : Paths, isDir : BOOLEAN]
FileInfo == Paths \X BOOLEAN \X BOOLEAN \X Nat

Outs == Seq(Byte) \cup (BOOLEAN \X Nat) \cup Seq(FileInfo)

Requests ==
    [stage : Stages, m : FileMethods \cup {"none"}, p : Paths \cup {<<>>}, q : Paths \cup {<<>>},
     opt : BOOLEAN, ino : Inodes \cup {Absent}, todo : SUBSET DirEntry, skip : SUBSET Paths,
     out : Outs, res : Answers]

Handlers == [Reqs -> Requests]

\* From f to g the handler of r keeps its parameters, and the other requests are left alone.
Moves(f, g, r) ==
    /\ g \in Handlers
    /\ \A y \in Reqs \ {r} : g[y] = f[y]
    /\ g[r].m = f[r].m /\ g[r].p = f[r].p /\ g[r].q = f[r].q /\ g[r].opt = f[r].opt

SetStage(f, r, x) == [f EXCEPT ![r].stage = x]
SetIno(f, r, x) == [f EXCEPT ![r].ino = x]
SetTodo(f, r, x) == [f EXCEPT ![r].todo = x]
SetSkip(f, r, x) == [f EXCEPT ![r].skip = x]
SetOut(f, r, x) == [f EXCEPT ![r].out = x]
SetRes(f, r, x) == [f EXCEPT ![r].res = x]

\* One field after the other: the stage ...
LEMMA StageSet ==
  ASSUME NEW f \in Handlers, NEW r \in Reqs, NEW x \in Stages, NEW g, g = SetStage(f, r, x)
  PROVE  /\ Moves(f, g, r) /\ g[r].stage = x /\ g[r].ino = f[r].ino /\ g[r].todo = f[r].todo
         /\ g[r].skip = f[r].skip /\ g[r].out = f[r].out /\ g[r].res = f[r].res
BY DEF Handlers, Requests, Moves, SetStage

\* ... the open file ...
LEMMA InoSet ==
  ASSUME NEW f \in Handlers, NEW r \in Reqs, NEW x \in Inodes, NEW g, g = SetIno(f, r, x)
  PROVE  /\ Moves(f, g, r) /\ g[r].ino = x /\ g[r].stage = f[r].stage /\ g[r].todo = f[r].todo
         /\ g[r].skip = f[r].skip /\ g[r].out = f[r].out /\ g[r].res = f[r].res
BY DEF Handlers, Requests, Moves, SetIno

\* ... the entries to be looked at ...
LEMMA TodoSet ==
  ASSUME NEW f \in Handlers, NEW r \in Reqs, NEW x \in SUBSET DirEntry, NEW g, g = SetTodo(f, r, x)
  PROVE  /\ Moves(f, g, r) /\ g[r].todo = x /\ g[r].stage = f[r].stage /\ g[r].ino = f[r].ino
         /\ g[r].skip = f[r].skip /\ g[r].out = f[r].out /\ g[r].res = f[r].res
BY DEF Handlers, Requests, Moves, SetTodo

\* ... the entries that were skipped ...
LEMMA SkipSet ==
  ASSUME NEW f \in Handlers, NEW r \in Reqs, NEW x \in SUBSET Paths, NEW g, g = SetSkip(f, r, x)
  PROVE  /\ Moves(f, g, r) /\ g[r].skip = x /\ g[r].stage = f[r].stage /\ g[r].ino = f[r].ino
         /\ g[r].todo = f[r].todo /\ g[r].out = f[r].out /\ g[r].res = f[r].res
BY DEF Handlers, Requests, Moves, SetSkip

\* ... the result ...
LEMMA OutSet ==
  ASSUME NEW f \in Handlers, NEW r \in Reqs, NEW x \in Outs, NEW g, g = SetOut(f, r, x)
  PROVE  /\ Moves(f, g, r) /\ g[r].out = x /\ g[r].stage = f[r].stage /\ g[r].ino = f[r].ino
         /\ g[r].todo = f[r].todo /\ g[r].skip = f[r].skip /\ g[r].res = f[r].res
BY DEF Handlers, Requests, Moves, SetOut

\* ... and the answer.
LEMMA ResSet ==
  ASSUME NEW f \in Handlers, NEW r \in Reqs, NEW x \in Answers, NEW g, g = SetRes(f, r, x)
  PROVE  /\ Moves(f, g, r) /\ g[r].res = x /\ g[r].stage = f[r].stage /\ g[r].ino = f[r].ino
         /\ g[r].todo = f[r].todo /\ g[r].skip = f[r].skip /\ g[r].out = f[r].out
BY DEF Handlers, Requests, Moves, SetRes

\* Two moves of a handler in one step.
LEMMA MovesOn ==
  ASSUME NEW f, NEW g, NEW h, NEW r \in Reqs, Moves(f, g, r), Moves(g, h, r)
  PROVE  Moves(f, h, r)
BY DEF Moves

\* The handler of r goes on ...
LEMMA GoesOn ==
  ASSUME req \in Handlers, NEW r \in Reqs, NEW s \in Stages, Go(r, s)
  PROVE  /\ Moves(req, req', r) /\ req'[r].stage = s
         /\ UNCHANGED <<req[r].ino, req[r].todo, req[r].skip, req[r].out, req[r].res>>
<1>1. req' = SetStage(req, r, s)
  BY DEF Go, SetStage
<1> QED
  BY <1>1, StageSet

\* ... or is done, with a word ...
LEMMA Responds ==
  ASSUME req \in Handlers, NEW r \in Reqs, NEW x \in Answers, Respond(r, x)
  PROVE  /\ Moves(req, req', r) /\ req'[r].stage = "done" /\ req'[r].res = x
         /\ UNCHANGED <<req[r].ino, req[r].todo, req[r].skip, req[r].out>>
<1>1. req' = SetRes(SetStage(req, r, "done"), r, x) /\ "done" \in Stages
  BY DEF Respond, SetRes, SetStage, Stages
<1>2. PICK f : f = SetStage(req, r, "done")
  OBVIOUS
<1>3. /\ Moves(req, f, r) /\ f[r].stage = "done" /\ f[r].ino = req[r].ino /\ f[r].todo = req[r].todo
      /\ f[r].skip = req[r].skip /\ f[r].out = req[r].out
  BY <1>1, <1>2, StageSet
<1>4. f \in Handlers /\ req' = SetRes(f, r, x)
  BY <1>1, <1>2, <1>3 DEF Moves
<1> QED
  BY <1>3, <1>4, ResSet, MovesOn

\* ... with the error of a call ...
LEMMA Fails ==
  ASSUME req \in Handlers, NEW r \in Reqs, NEW e, Fail(r, e)
  PROVE  /\ Moves(req, req', r) /\ req'[r].stage = "done" /\ req'[r].res \in Answers \ {"result"}
         /\ UNCHANGED <<req[r].ino, req[r].todo, req[r].skip, req[r].out>>
<1>1. osErrorToRPCError(e) \in Answers \ {"result"}
  BY DEF osErrorToRPCError, Answers
<1>2. PICK x \in Answers \ {"result"} : Respond(r, x)
  BY <1>1 DEF Fail
<1> QED
  BY <1>2, Responds

\* ... or with a value.
LEMMA AnswersWith ==
  ASSUME req \in Handlers, NEW r \in Reqs, NEW v \in Outs, Answer(r, v)
  PROVE  /\ Moves(req, req', r) /\ req'[r].stage = "done" /\ req'[r].res = "result" /\ req'[r].out = v
         /\ UNCHANGED <<req[r].ino, req[r].todo, req[r].skip>>
<1>1. /\ req' = SetOut(SetRes(SetStage(req, r, "done"), r, "result"), r, v)
      /\ "result" \in Answers /\ "done" \in Stages
  BY DEF Answer, Answers, Stages, SetOut, SetRes, SetStage
<1>2. PICK f : f = SetStage(req, r, "done")
  OBVIOUS
<1>3. PICK g : g = SetRes(f, r, "result")
  OBVIOUS
<1>4. /\ Moves(req, f, r) /\ f \in Handlers /\ f[r].stage = "done" /\ f[r].ino = req[r].ino
      /\ f[r].todo = req[r].todo /\ f[r].skip = req[r].skip
  BY <1>1, <1>2, StageSet DEF Moves
<1>5. /\ Moves(f, g, r) /\ g \in Handlers /\ g[r].stage = "done" /\ g[r].ino = req[r].ino
      /\ g[r].todo = req[r].todo /\ g[r].skip = req[r].skip /\ g[r].res = "result"
  BY <1>1, <1>3, <1>4, ResSet DEF Moves
<1>6. req' = SetOut(g, r, v)
  BY <1>1, <1>2, <1>3
<1> QED
  BY <1>4, <1>5, <1>6, OutSet, MovesOn

-----------------------------------------------------------------------------
(* What a step of a handler does to its request. *)

\* What a handler has in each of its stages.
Placed(r) ==
    /\ req[r].stage = "idle" <=> req[r].m = "none"
    /\ req[r].stage # "idle" => req[r].p \in Paths /\ req[r].q \in Paths
    /\ req[r].stage \in {"idle", "begin"} => req[r].todo = {} /\ req[r].skip = {} /\ req[r].out = <<>>
    /\ req[r].stage # "done" => req[r].res = "none"
    /\ req[r].stage = "read" => req[r].m = "file.read"
    /\ req[r].stage = "infos" => req[r].m = "file.list" /\ req[r].out \in Seq(FileInfo)
    /\ req[r].stage \in {"writing", "closing"} => req[r].m = "file.write" /\ req[r].ino \in Inodes
    /\ Succeeded(r, "file.write") => req[r].ino \in Inodes
    /\ Succeeded(r, "file.list") => req[r].out \in Seq(FileInfo)

FsTypeOK ==
    /\ at \in [Paths -> Inodes \cup {Dir, Absent}]
    /\ content \in [Inodes -> Seq(Byte)]
    /\ clobbered \in [Reqs -> BOOLEAN]

FileInv == FsTypeOK /\ req \in Handlers /\ \A r \in Reqs : Placed(r)

\* The request comes in.
Arrives(r) ==
    /\ req[r].stage = "idle" /\ req'[r].stage = "begin" /\ req'[r].res = "none"
    /\ req'[r].m \in FileMethods /\ req'[r].p \in Paths /\ req'[r].q \in Paths
    /\ req'[r].todo = {} /\ req'[r].skip = {} /\ req'[r].out = <<>>
    /\ req' \in Handlers /\ \A y \in Reqs \ {r} : req'[y] = req[y]

\* It is answered with an error.
Rejected(r) ==
    /\ Moves(req, req', r) /\ req[r].stage \notin {"idle", "done"} /\ req'[r].stage = "done"
    /\ req'[r].res \in Answers \ {"result"}
    /\ UNCHANGED <<req[r].ino, req[r].todo, req[r].skip, req[r].out>>

\* file.stat, file.move, file.delete, directory.create: one call, and the result.
Answered(r) ==
    /\ Moves(req, req', r) /\ req[r].stage = "begin" /\ req'[r].stage = "done"
    /\ req[r].m \in {"file.stat", "file.move", "file.delete", "directory.create"}

\* The two steps of file.read.
Checks(r) ==
    /\ Moves(req, req', r) /\ StatForRead(r) /\ req'[r].stage = "read"
    /\ at[req[r].p] \in Inodes \ Special => Len(content[at[req[r].p]]) <= MaxFileReadBytes
    /\ UNCHANGED <<req[r].ino, req[r].todo, req[r].skip, req[r].out, req[r].res>>

Reads(r) ==
    /\ Moves(req, req', r) /\ ReadFile(r) /\ req'[r].stage = "done"
    /\ IsFile(req[r].p) /\ req'[r].out = content[at[req[r].p]]

\* The steps of file.list.
Opens(r) ==
    /\ Moves(req, req', r) /\ ReadDir(r) /\ req'[r].stage = "infos"
    /\ \A q \in Children(req[r].p) : at[q] # Absent => \E e \in req'[r].todo : e.p = q
    /\ \A e \in req'[r].todo : e.p \in Children(req[r].p) /\ at[e.p] # Absent
    /\ UNCHANGED <<req[r].ino, req[r].skip, req[r].out, req[r].res>>

LooksAt(r, e) ==
    /\ Moves(req, req', r) /\ req[r].stage = "infos" /\ req'[r].stage = "infos" /\ Looks
    /\ req'[r].todo = req[r].todo \ {e}
    /\ \/ /\ req'[r].skip = req[r].skip /\ req'[r].out \in Seq(FileInfo)
          /\ \E i \in FileInfo : i[1] = e.p /\ req'[r].out = Append(req[r].out, i)
       \/ /\ req'[r].skip = req[r].skip \cup {e.p} /\ req'[r].out = req[r].out
    /\ UNCHANGED <<req[r].ino, req[r].res>>

Finishes(r) ==
    /\ Moves(req, req', r) /\ Listed(r) /\ req'[r].stage = "done"
    /\ UNCHANGED <<req[r].ino, req[r].todo, req[r].skip, req[r].out>>

\* The steps of file.write.
OpensFile(r) ==
    /\ Moves(req, req', r) /\ req[r].stage = "begin" /\ req[r].m = "file.write" /\ req'[r].stage = "writing"
    /\ req'[r].ino \in Inodes
    /\ UNCHANGED <<req[r].todo, req[r].skip, req[r].out, req[r].res>>

Writes(r) ==
    /\ Moves(req, req', r) /\ Write(r) /\ req'[r].stage = "closing"
    /\ UNCHANGED <<req[r].ino, req[r].todo, req[r].skip, req[r].out, req[r].res>>

Closes(r) ==
    /\ Moves(req, req', r) /\ Close(r) /\ req'[r].stage = "done"
    /\ UNCHANGED <<req[r].ino, req[r].todo, req[r].skip, req[r].out>>

\* A new request.
LEMMA Arrival ==
  ASSUME FileInv, NEW r \in Reqs, Receive(r)
  PROVE  Arrives(r)
<1>1. PICK a \in Args(r) : req' = [req EXCEPT ![r] = Request("begin", a.m, a.p, a.q, a.opt)]
  BY DEF Receive
<1>2. a.m \in FileMethods /\ a.p \in Paths /\ a.q \in Paths /\ a.opt \in BOOLEAN
  BY <1>1, FileHandlersAssumption DEF Args
<1> DEFINE v == Request("begin", a.m, a.p, a.q, a.opt)
<1>3. v = [stage |-> "begin", m |-> a.m, p |-> a.p, q |-> a.q, opt |-> a.opt, ino |-> Absent,
           todo |-> {}, skip |-> {}, out |-> <<>>, res |-> "none"]
  BY DEF Request
<1>4. req' = [req EXCEPT ![r] = v] /\ req[r].stage = "idle" /\ req \in Handlers
  BY <1>1 DEF Receive, At, FileInv
<1> HIDE DEF v
<1>5. /\ v.stage = "begin" /\ v.m = a.m /\ v.p = a.p /\ v.q = a.q /\ v.todo = {} /\ v.skip = {}
      /\ v.out = <<>> /\ v.res = "none"
  BY <1>3
<1>6. v \in Requests
  <2>1. <<>> \in Outs
    BY DEF Outs
  <2> QED
    BY <1>2, <1>3, <2>1 DEF Requests, Stages, Answers
<1> QED
  BY <1>2, <1>4, <1>5, <1>6 DEF Arrives, Handlers

\* The size of a file, and what a handler may answer with.
LEMMA SizesAndOuts ==
  ASSUME FileInv, NEW p \in Paths
  PROVE  /\ Size(p) \in Nat /\ <<IsDir(p), Size(p)>> \in Outs
         /\ IsFile(p) => content[at[p]] \in Outs
         /\ at[p] \in Inodes \ Special => Size(p) = Len(content[at[p]])
         /\ LookErr(p) = "ok" <=> at[p] # Absent
         /\ at[p] # Absent => IsFile(p) \/ IsDir(p)
<1>1. at[p] \in Inodes \cup {Dir, Absent} /\ (IsFile(p) => content[at[p]] \in Seq(Byte))
  BY DEF FileInv, FsTypeOK, IsFile
<1>2. Size(p) \in Nat /\ (at[p] \in Inodes \ Special => Size(p) = Len(content[at[p]]))
  BY <1>1 DEF Size, IsFile
<1>3. LookErr(p) = "ok" <=> at[p] # Absent
  BY DEF LookErr
<1>4. IsDir(p) \in BOOLEAN /\ (at[p] # Absent => IsFile(p) \/ IsDir(p))
  BY <1>1 DEF IsDir, IsFile
<1> QED
  BY <1>1, <1>2, <1>3, <1>4 DEF Outs

\* What each entry that file.list takes up becomes.
LEMMA EntryStep ==
  ASSUME FileInv, NEW r \in Reqs, Info(r) \/ InfoRefused(r)
  PROVE  \E e \in req[r].todo : LooksAt(r, e)
<1>0. /\ req \in Handlers /\ req[r].stage = "infos" /\ Looks /\ req[r].out \in Seq(FileInfo)
      /\ req[r].todo \in SUBSET DirEntry /\ req[r].skip \in SUBSET Paths
  BY DEF Info, InfoRefused, At, FileInv, Placed, Handlers, Requests
<1>1. ASSUME NEW e \in req[r].todo, Vanished(r, e) PROVE LooksAt(r, e)
  <2>1. req' = SetSkip(SetTodo(req, r, req[r].todo \ {e}), r, req[r].skip \cup {e.p})
    BY <1>0, <1>1 DEF Vanished, SetSkip, SetTodo, Handlers, Requests
  <2>2. PICK f : f = SetTodo(req, r, req[r].todo \ {e})
    OBVIOUS
  <2>3. req[r].todo \ {e} \in SUBSET DirEntry /\ req[r].skip \cup {e.p} \in SUBSET Paths
    BY <1>0 DEF DirEntry
  <2>4. /\ Moves(req, f, r) /\ f \in Handlers /\ f[r].todo = req[r].todo \ {e} /\ f[r].stage = "infos"
        /\ f[r].ino = req[r].ino /\ f[r].out = req[r].out /\ f[r].res = req[r].res
    BY <1>0, <2>2, <2>3, TodoSet DEF Moves
  <2>5. /\ Moves(f, req', r) /\ req'[r].skip = req[r].skip \cup {e.p} /\ req'[r].stage = "infos"
        /\ req'[r].todo = f[r].todo /\ req'[r].ino = f[r].ino /\ req'[r].out = f[r].out /\ req'[r].res = f[r].res
    <3>1. PICK k \in SUBSET Paths : k = req[r].skip \cup {e.p}
      BY <2>3
    <3>2. req' = SetSkip(f, r, k)
      BY <2>1, <2>2, <3>1
    <3> QED
      BY <2>4, <3>1, <3>2, SkipSet
  <2> QED
    BY <1>0, <2>4, <2>5, MovesOn DEF LooksAt
<1>2. ASSUME NEW e \in req[r].todo,
             req' = [req EXCEPT ![r].todo = @ \ {e},
                                ![r].out = Append(@, <<e.p, e.isDir, IsDir(e.p), Size(e.p)>>)]
      PROVE  LooksAt(r, e)
  <2> DEFINE i == <<e.p, e.isDir, IsDir(e.p), Size(e.p)>>
  <2>1. e.p \in Paths /\ e.isDir \in BOOLEAN
    BY <1>0 DEF DirEntry
  <2>2. i \in FileInfo /\ i[1] = e.p
    BY <2>1, SizesAndOuts DEF FileInfo, IsDir
  <2> HIDE DEF i
  <2>3. Append(req[r].out, i) \in Outs /\ Append(req[r].out, i) \in Seq(FileInfo)
    BY <1>0, <2>2 DEF Outs
  <2>4. req' = SetOut(SetTodo(req, r, req[r].todo \ {e}), r, Append(req[r].out, i))
    BY <1>0, <1>2 DEF SetOut, SetTodo, Handlers, Requests, i
  <2>5. PICK f : f = SetTodo(req, r, req[r].todo \ {e})
    OBVIOUS
  <2>6. req[r].todo \ {e} \in SUBSET DirEntry
    BY <1>0
  <2>7. /\ Moves(req, f, r) /\ f \in Handlers /\ f[r].todo = req[r].todo \ {e} /\ f[r].stage = "infos"
        /\ f[r].ino = req[r].ino /\ f[r].skip = req[r].skip /\ f[r].res = req[r].res
    BY <1>0, <2>5, <2>6, TodoSet DEF Moves
  <2>8. /\ Moves(f, req', r) /\ req'[r].out = Append(req[r].out, i) /\ req'[r].stage = "infos"
        /\ req'[r].todo = f[r].todo /\ req'[r].ino = f[r].ino /\ req'[r].skip = f[r].skip /\ req'[r].res = f[r].res
    <3>1. PICK o \in Outs : o = Append(req[r].out, i)
      BY <2>3
    <3>2. req' = SetOut(f, r, o)
      BY <2>4, <2>5, <3>1
    <3>3. /\ Moves(f, req', r) /\ req'[r].out = o /\ req'[r].stage = f[r].stage
          /\ req'[r].todo = f[r].todo /\ req'[r].ino = f[r].ino /\ req'[r].skip = f[r].skip /\ req'[r].res = f[r].res
      <4>1. f \in Handlers
        BY <2>7
      <4> QED
        BY <3>2, <4>1, OutSet
    <3> QED
      BY <2>7, <3>1, <3>3
  <2> QED
    BY <1>0, <2>2, <2>3, <2>7, <2>8, MovesOn DEF LooksAt
<1> QED
  BY <1>1, <1>2 DEF Info, InfoRefused

\* os.ReadDir returned.
LEMMA DirStep ==
  ASSUME FileInv, NEW r \in Reqs, ReadDir(r)
  PROVE  Rejected(r) \/ Opens(r)
<1> DEFINE p == req[r].p
           new == {[p |-> q, isDir |-> IsDir(q)] : q \in {x \in Children(p) : at[x] # Absent}}
<1>0. req \in Handlers /\ req[r].stage = "begin"
  BY DEF ReadDir, At, FileInv
<1>1. ASSUME NEW e, Fail(r, e) PROVE Rejected(r)
  BY <1>0, <1>1, Fails DEF Rejected
<1>2. CASE req' = [req EXCEPT ![r].stage = "infos", ![r].todo = new]
  <2>1. /\ new \in SUBSET DirEntry
        /\ \A q \in Children(p) : at[q] # Absent => \E e \in new : e.p = q
        /\ \A e \in new : e.p \in Children(p) /\ at[e.p] # Absent
    <3>1. ASSUME NEW q \in Children(p) PROVE [p |-> q, isDir |-> IsDir(q)] \in DirEntry
      BY DEF Children, DirEntry, IsDir
    <3>2. ASSUME NEW q \in Children(p), at[q] # Absent
          PROVE  \E e \in new : e.p = q
      <4>1. [p |-> q, isDir |-> IsDir(q)] \in new /\ [p |-> q, isDir |-> IsDir(q)].p = q
        BY <3>2
      <4> QED
        BY <4>1
    <3>3. ASSUME NEW e \in new PROVE e \in DirEntry /\ e.p \in Children(p) /\ at[e.p] # Absent
      <4>1. PICK q \in Children(p) : at[q] # Absent /\ e = [p |-> q, isDir |-> IsDir(q)]
        BY <3>3
      <4> QED
        BY <3>1, <4>1
    <3> HIDE DEF new
    <3> QED
      BY <3>2, <3>3
  <2> HIDE DEF new
  <2>2. req' = SetTodo(SetStage(req, r, "infos"), r, new) /\ "infos" \in Stages
    BY <1>2 DEF SetTodo, SetStage, Stages
  <2>3. PICK f : f = SetStage(req, r, "infos")
    OBVIOUS
  <2>4. /\ Moves(req, f, r) /\ f \in Handlers /\ f[r].stage = "infos" /\ f[r].ino = req[r].ino
        /\ f[r].skip = req[r].skip /\ f[r].out = req[r].out /\ f[r].res = req[r].res
    BY <1>0, <2>2, <2>3, StageSet DEF Moves
  <2>5. /\ Moves(f, req', r) /\ req'[r].todo = new /\ req'[r].stage = "infos" /\ req'[r].ino = f[r].ino
        /\ req'[r].skip = f[r].skip /\ req'[r].out = f[r].out /\ req'[r].res = f[r].res
    BY <2>1, <2>2, <2>3, <2>4, TodoSet
  <2> QED
    BY <2>1, <2>4, <2>5, MovesOn DEF Opens
<1> QED
  BY <1>1, <1>2 DEF ReadDir

\* os.OpenFile returned.
LEMMA OpenStep ==
  ASSUME FileInv, NEW r \in Reqs, OpenForWrite(r)
  PROVE  Rejected(r) \/ OpensFile(r)
<1>0. req \in Handlers /\ req[r].stage = "begin" /\ req[r].m = "file.write"
  BY DEF OpenForWrite, At, Is, FileInv
<1>1. ASSUME NEW e, Fail(r, e) PROVE Rejected(r)
  BY <1>0, <1>1, Fails DEF Rejected
<1>2. ASSUME NEW i \in Inodes, req' = [req EXCEPT ![r].stage = "writing", ![r].ino = i] PROVE OpensFile(r)
  <2>2. req' = SetIno(SetStage(req, r, "writing"), r, i) /\ "writing" \in Stages
    BY <1>2 DEF SetIno, SetStage, Stages
  <2>3. PICK f : f = SetStage(req, r, "writing")
    OBVIOUS
  <2>4. /\ Moves(req, f, r) /\ f \in Handlers /\ f[r].stage = "writing" /\ f[r].todo = req[r].todo
        /\ f[r].skip = req[r].skip /\ f[r].out = req[r].out /\ f[r].res = req[r].res
    BY <1>0, <2>2, <2>3, StageSet DEF Moves
  <2>5. /\ Moves(f, req', r) /\ req'[r].ino = i /\ req'[r].stage = "writing" /\ req'[r].todo = f[r].todo
        /\ req'[r].skip = f[r].skip /\ req'[r].out = f[r].out /\ req'[r].res = f[r].res
    BY <2>2, <2>3, <2>4, InoSet
  <2> QED
    BY <1>0, <2>4, <2>5, MovesOn DEF OpensFile
<1>3. Free # {} => (CHOOSE i \in Free : TRUE) \in Inodes
  BY DEF Free
<1> QED
  BY <1>1, <1>2, <1>3 DEF OpenForWrite, IsFile

\* Every step of a handler, as its request sees it.
LEMMA RequestStep ==
  ASSUME FileInv, NEW r \in Reqs, Step(r)
  PROVE  \/ Arrives(r) \/ Rejected(r) \/ Answered(r) \/ Checks(r) \/ Reads(r) \/ Opens(r)
         \/ \E e \in req[r].todo : LooksAt(r, e)
         \/ Finishes(r) \/ OpensFile(r) \/ Writes(r) \/ Closes(r)
<1> DEFINE Goal ==
         \/ Arrives(r) \/ Rejected(r) \/ Answered(r) \/ Checks(r) \/ Reads(r) \/ Opens(r)
         \/ \E e \in req[r].todo : LooksAt(r, e)
         \/ Finishes(r) \/ OpensFile(r) \/ Writes(r) \/ Closes(r)
<1> SUFFICES Goal
  OBVIOUS
<1>0. req \in Handlers /\ Placed(r) /\ "result" \in Answers
  BY DEF FileInv, Answers
<1>1. ASSUME NEW e, Fail(r, e), req[r].stage \notin {"idle", "done"} PROVE Rejected(r)
  BY <1>0, <1>1, Fails DEF Rejected
<1>2. ASSUME NEW x \in Answers \ {"result"}, Respond(r, x), req[r].stage \notin {"idle", "done"} PROVE Rejected(r)
  BY <1>0, <1>2, Responds DEF Rejected
<1>3. ASSUME Respond(r, "result")
      PROVE  /\ Moves(req, req', r) /\ req'[r].stage = "done" /\ req'[r].res = "result"
             /\ UNCHANGED <<req[r].ino, req[r].todo, req[r].skip, req[r].out>>
  BY <1>0, <1>3, Responds
<1>4. CASE Receive(r)
  BY <1>4, Arrival
<1>5. CASE InvalidRequest(r) \/ Refused(r)
  BY <1>1, <1>2, <1>5 DEF InvalidRequest, Refused, At, Answers
<1>6. CASE StatForRead(r)
  <2>1. req[r].p \in Paths /\ req[r].stage = "begin"
    BY <1>0, <1>6 DEF StatForRead, At, Placed
  <2>2. CASE LookErr(req[r].p) # "ok"
    BY <1>1, <1>6, <2>1, <2>2 DEF StatForRead
  <2>3. CASE LookErr(req[r].p) = "ok" /\ TooLarge(req[r].p)
    BY <1>2, <1>6, <2>1, <2>3 DEF StatForRead, Answers
  <2>4. CASE LookErr(req[r].p) = "ok" /\ ~TooLarge(req[r].p)
    <3>1. Go(r, "read") /\ "read" \in Stages
      BY <1>6, <2>4 DEF StatForRead, Stages
    <3>2. at[req[r].p] \in Inodes \ Special => Len(content[at[req[r].p]]) <= MaxFileReadBytes
      <4>1. MaxFileReadBytes \in Nat /\ Size(req[r].p) \in Nat /\ ~(Size(req[r].p) > MaxFileReadBytes)
        BY <2>1, <2>4, SizesAndOuts, FileHandlersAssumption DEF TooLarge
      <4>2. Size(req[r].p) <= MaxFileReadBytes
        BY <4>1
      <4> QED
        BY <2>1, <4>2, SizesAndOuts
    <3> QED
      BY <1>0, <1>6, <3>1, <3>2, GoesOn DEF Checks
  <2> QED
    BY <2>2, <2>3, <2>4
<1>7. CASE ReadFile(r)
  <2>1. req[r].p \in Paths /\ req[r].stage = "read"
    BY <1>0, <1>7 DEF ReadFile, At, Placed
  <2>2. CASE \E e : Fail(r, e)
    BY <1>1, <2>1, <2>2
  <2>3. CASE LookErr(req[r].p) = "ok" /\ ~IsDir(req[r].p) /\ Answer(r, content[at[req[r].p]])
    <3>1. IsFile(req[r].p) /\ content[at[req[r].p]] \in Outs
      BY <2>1, <2>3, SizesAndOuts
    <3> QED
      BY <1>0, <1>7, <2>3, <3>1, AnswersWith DEF Reads
  <2> QED
    BY <1>7, <2>2, <2>3 DEF ReadFile
<1>8. CASE Stat(r)
  <2>1. req[r].p \in Paths /\ req[r].stage = "begin" /\ req[r].m = "file.stat"
    BY <1>0, <1>8 DEF Stat, At, Is, Placed
  <2>2. CASE \E e : Fail(r, e)
    BY <1>1, <2>1, <2>2
  <2>3. CASE Answer(r, <<IsDir(req[r].p), Size(req[r].p)>>)
    BY <1>0, <2>1, <2>3, SizesAndOuts, AnswersWith DEF Answered
  <2> QED
    BY <1>8, <2>2, <2>3 DEF Stat
<1>9. CASE ReadDir(r) \/ Info(r) \/ InfoRefused(r) \/ OpenForWrite(r)
  BY <1>9, DirStep, EntryStep, OpenStep
<1>10. CASE Listed(r) \/ Close(r)
  BY <1>3, <1>10 DEF Listed, Close, Finishes, Closes
<1>11. CASE Write(r)
  <2>1. Go(r, "closing") /\ "closing" \in Stages
    BY <1>11 DEF Write, Stages
  <2> QED
    BY <1>0, <1>11, <2>1, GoesOn DEF Writes
<1>12. CASE WriteErr(r) \/ CloseErr(r)
  BY <1>1, <1>12 DEF WriteErr, CloseErr, Discard, At
<1>13. CASE Move(r) \/ Delete(r) \/ Mkdir(r) \/ MkdirAll(r)
  <2>1. /\ req[r].stage = "begin" /\ req[r].m \in {"file.move", "file.delete", "directory.create"}
    BY <1>13 DEF Move, Delete, Mkdir, MkdirAll, At, Is
  <2>2. Respond(r, "result") \/ \E e : Fail(r, e)
    BY <1>13 DEF Move, Delete, Mkdir, MkdirAll
  <2> QED
    BY <1>1, <1>3, <2>1, <2>2 DEF Answered
<1> HIDE DEF Goal
<1> QED
  BY <1>4, <1>5, <1>6, <1>7, <1>8, <1>9, <1>10, <1>11, <1>12, <1>13 DEF Step

-----------------------------------------------------------------------------
(* What a step of a handler does to the files. *)

Tree == [Paths -> Inodes \cup {Dir, Absent}]

\* A file is made, or truncated.
Erases(r) ==
    \E i \in Inodes : content' = [content EXCEPT ![i] = <<>>] /\ Touch(r, {i}) /\ at' \in Tree

\* Data is written to the open file.
Puts(r, d) ==
    /\ req[r].stage = "writing"
    /\ content' = [content EXCEPT ![req[r].ino] = Put(r, @, d)]
    /\ Touch(r, Endangered(r)) /\ UNCHANGED at

\* Names come and go.
Renames(r) == at' \in Tree /\ UNCHANGED content /\ \E I \in SUBSET Inodes : Touch(r, I)

\* The bytes of a file.write.
LEMMA DataType ==
  ASSUME NEW r \in Reqs
  PROVE  /\ Data(r) \in Seq(Byte) /\ Len(Data(r)) = DataLen
         /\ \A j \in 1 .. DataLen : Data(r)[j] = <<r, j>>
         /\ \A k \in 0 .. DataLen - 1 : SubSeq(Data(r), 1, k) \in Seq(Byte)
<1>1. DataLen \in Nat
  BY FileHandlersAssumption
<1>2. Data(r) \in Seq(Byte) /\ Len(Data(r)) = DataLen /\ \A j \in 1 .. DataLen : Data(r)[j] = <<r, j>>
  BY <1>1 DEF Data, Byte
<1>3. ASSUME NEW k \in 0 .. DataLen - 1 PROVE SubSeq(Data(r), 1, k) \in Seq(Byte)
  <2>1. \A i \in 1 .. k : Data(r)[i] \in Byte
    BY <1>1, <1>2
  <2>2. k \in Int
    BY <1>1
  <2> QED
    BY <2>1, <2>2, SubSeqProperties
<1> QED
  BY <1>2, <1>3

\* Where written data goes.
LEMMA PutIn ==
  ASSUME NEW r \in Reqs, NEW c \in Seq(Byte), NEW d \in Seq(Byte)
  PROVE  /\ Put(r, c, d) \in Seq(Byte)
         /\ req[r].ino \notin Special /\ Appends(r) =>
               /\ Len(Put(r, c, d)) = Len(c) + Len(d)
               /\ \A k \in 1 .. Len(c) : Put(r, c, d)[k] = c[k]
               /\ \A j \in 1 .. Len(d) : Put(r, c, d)[Len(c) + j] = d[j]
         /\ req[r].ino \notin Special /\ ~Appends(r) =>
               /\ Len(Put(r, c, d)) >= Len(d)
               /\ \A j \in 1 .. Len(d) : Put(r, c, d)[j] = d[j]
<1>1. Len(c) \in Nat /\ Len(d) \in Nat
  OBVIOUS
<1>0. CASE req[r].ino \in Special
  BY <1>0 DEF Put
<1>2. CASE req[r].ino \notin Special /\ Appends(r)
  <2>1. Put(r, c, d) = c \o d
    BY <1>2 DEF Put
  <2>2. /\ c \o d \in Seq(Byte) /\ Len(c \o d) = Len(c) + Len(d)
        /\ \A i \in 1 .. Len(c) + Len(d) : (c \o d)[i] = IF i <= Len(c) THEN c[i] ELSE d[i - Len(c)]
    BY ConcatProperties
  <2>3. ASSUME NEW k \in 1 .. Len(c) PROVE (c \o d)[k] = c[k]
    BY <1>1, <2>2
  <2>4. ASSUME NEW j \in 1 .. Len(d) PROVE (c \o d)[Len(c) + j] = d[j]
    <3>1. Len(c) + j \in 1 .. Len(c) + Len(d) /\ ~(Len(c) + j <= Len(c)) /\ (Len(c) + j) - Len(c) = j
      BY <1>1
    <3> QED
      BY <2>2, <3>1
  <2> QED
    BY <1>2, <2>1, <2>2, <2>3, <2>4
<1>3. CASE req[r].ino \notin Special /\ ~Appends(r)
  <2> DEFINE t == SubSeq(c, Len(d) + 1, Len(c))
  <2>1. Put(r, c, d) = d \o t
    BY <1>3 DEF Put
  <2>2. t \in Seq(Byte)
    <3>1. \A i \in Len(d) + 1 .. Len(c) : c[i] \in Byte
      BY <1>1
    <3> QED
      BY <1>1, <3>1, SubSeqProperties
  <2> HIDE DEF t
  <2>3. /\ d \o t \in Seq(Byte) /\ Len(d \o t) = Len(d) + Len(t) /\ Len(t) \in Nat
        /\ \A i \in 1 .. Len(d) + Len(t) : (d \o t)[i] = IF i <= Len(d) THEN d[i] ELSE t[i - Len(d)]
    BY <2>2, ConcatProperties
  <2>4. ASSUME NEW j \in 1 .. Len(d) PROVE (d \o t)[j] = d[j]
    BY <1>1, <2>3
  <2> QED
    BY <1>1, <1>3, <2>1, <2>3, <2>4
<1> QED
  BY <1>0, <1>2, <1>3

\* Every step of a handler, as the files see it.
LEMMA FileStep ==
  ASSUME FileInv, NEW r \in Reqs, Step(r)
  PROVE  \/ Looks
         \/ Renames(r)
         \/ Erases(r)
         \/ Write(r) /\ Puts(r, Data(r))
         \/ \E d \in Seq(Byte) : Puts(r, d) /\ WriteErr(r)
         \/ Discard(r) /\ CloseErr(r)
<1> DEFINE Goal ==
         \/ Looks
         \/ Renames(r)
         \/ Erases(r)
         \/ Write(r) /\ Puts(r, Data(r))
         \/ \E d \in Seq(Byte) : Puts(r, d) /\ WriteErr(r)
         \/ Discard(r) /\ CloseErr(r)
<1> SUFFICES Goal
  OBVIOUS
<1>0. at \in Tree /\ Placed(r)
  BY DEF FileInv, FsTypeOK, Tree
<1>1. CASE \/ Receive(r) \/ InvalidRequest(r) \/ Refused(r) \/ StatForRead(r) \/ ReadFile(r) \/ Stat(r)
           \/ ReadDir(r) \/ Info(r) \/ InfoRefused(r) \/ Listed(r) \/ Close(r)
  <2>1. Looks
    BY <1>1 DEF Receive, InvalidRequest, Refused, StatForRead, ReadFile, Stat, ReadDir, Info, InfoRefused,
                Listed, Close
  <2> QED
    BY <2>1
<1>2. CASE OpenForWrite(r)
  <2> DEFINE new == CHOOSE i \in Free : TRUE
             p == req[r].p
  <2>1. Free # {} => new \in Inodes
    BY DEF Free
  <2>2. p \in Paths
    BY <1>0, <1>2 DEF OpenForWrite, At, Placed
  <2>3. CASE IsFile(p) /\ content' = [content EXCEPT ![at[p]] = <<>>] /\ Touch(r, {at[p]}) /\ UNCHANGED at
    BY <1>0, <2>3 DEF Erases, IsFile
  <2>4. CASE /\ Free # {} /\ at' = [at EXCEPT ![p] = new]
             /\ content' = [content EXCEPT ![new] = <<>>] /\ Touch(r, {new})
    <3> HIDE DEF new
    <3>1. at' \in Tree
      BY <1>0, <2>1, <2>2, <2>4 DEF Tree
    <3> QED
      BY <2>1, <2>4, <3>1 DEF Erases
  <2>5. CASE Looks
    BY <2>5
  <2> QED
    BY <1>2, <2>3, <2>4, <2>5 DEF OpenForWrite
<1>3. CASE Write(r)
  BY <1>3 DEF Write, Puts, At
<1>4. CASE WriteErr(r)
  <2>1. PICK k \in 0 .. DataLen - 1 : content' = [content EXCEPT ![req[r].ino] = Put(r, @, SubSeq(Data(r), 1, k))]
    BY <1>4 DEF WriteErr
  <2>2. SubSeq(Data(r), 1, k) \in Seq(Byte)
    BY DataType
  <2> QED
    BY <1>4, <2>1, <2>2 DEF WriteErr, Puts, At
<1>5. CASE CloseErr(r)
  BY <1>5 DEF CloseErr
<1>6. CASE Move(r)
  <2>1. CASE Looks
    BY <2>1
  <2>2. CASE /\ at' = Renamed(req[r].p, req[r].q) /\ UNCHANGED content
             /\ Touch(r, IF req[r].p = req[r].q THEN {} ELSE {at[req[r].q]} \cap Inodes)
    <3>1. at' \in Tree
      BY <1>0, <2>2 DEF Renamed, Tree
    <3>2. (IF req[r].p = req[r].q THEN {} ELSE {at[req[r].q]} \cap Inodes) \in SUBSET Inodes
      OBVIOUS
    <3> QED
      BY <2>2, <3>1, <3>2 DEF Renames
  <2> QED
    BY <1>6, <2>1, <2>2 DEF Move
<1>7. CASE Delete(r)
  <2>1. CASE Looks
    BY <2>1
  <2>2. CASE at' = [at EXCEPT ![req[r].p] = Absent] /\ UNCHANGED content /\ Touch(r, {at[req[r].p]} \cap Inodes)
    <3>1. at' \in Tree /\ {at[req[r].p]} \cap Inodes \in SUBSET Inodes
      BY <1>0, <2>2 DEF Tree
    <3> QED
      BY <2>2, <3>1 DEF Renames
  <2> QED
    BY <1>7, <2>1, <2>2 DEF Delete
<1>8. CASE Mkdir(r) \/ MkdirAll(r)
  <2>1. CASE Looks
    BY <2>1
  <2>2. CASE at' \in Tree /\ UNCHANGED content /\ Touch(r, {})
    BY <2>2 DEF Renames
  <2>3. ASSUME at' = [at EXCEPT ![req[r].p] = Dir] PROVE at' \in Tree
    BY <1>0, <2>3 DEF Tree
  <2>4. ASSUME NEW S, at' = [q \in Paths |-> IF q \in S THEN Dir ELSE at[q]] PROVE at' \in Tree
    BY <1>0, <2>4 DEF Tree
  <2> QED
    BY <1>8, <2>1, <2>2, <2>3, <2>4 DEF Mkdir, MkdirAll
<1> HIDE DEF Goal
<1> QED
  BY <1>1, <1>2, <1>3, <1>4, <1>5, <1>6, <1>7, <1>8 DEF Step

-----------------------------------------------------------------------------
(* The invariant of requests and files. *)

\* A request whose handler does not move has what it had.
LEMMA PlacedKept ==
  ASSUME NEW r \in Reqs, Placed(r), req'[r] = req[r]
  PROVE  Placed(r)'
BY DEF Placed, Succeeded, Is

\* One that moves is placed again: one step per kind of move.
LEMMA PlacedAgain ==
  ASSUME FileInv, NEW r \in Reqs, Step(r)
  PROVE  Placed(r)' /\ req' \in Handlers /\ \A y \in Reqs \ {r} : req'[y] = req[y]
<1> USE DEF Succeeded, Is
<1>0. Placed(r) /\ req \in Handlers
  BY DEF FileInv
<1>1. CASE Arrives(r)
  <2>1. req'[r].m # "none"
    BY <1>1 DEF Arrives, FileMethods
  <2> QED
    BY <1>1, <2>1 DEF Arrives, Placed
<1>2. CASE Rejected(r)
  BY <1>0, <1>2 DEF Rejected, Moves, Placed
<1>3. CASE Answered(r)
  BY <1>0, <1>3 DEF Answered, Moves, Placed
<1>4. CASE Checks(r)
  BY <1>0, <1>4 DEF Checks, StatForRead, At, Moves, Placed
<1>5. CASE Reads(r)
  BY <1>0, <1>5 DEF Reads, ReadFile, At, Moves, Placed
<1>6. CASE Opens(r)
  <2>1. <<>> \in Seq(FileInfo)
    OBVIOUS
  <2> QED
    BY <1>0, <1>6, <2>1 DEF Opens, ReadDir, At, Moves, Placed
<1>7. ASSUME NEW e \in req[r].todo, LooksAt(r, e)
      PROVE  Placed(r)' /\ req' \in Handlers /\ \A y \in Reqs \ {r} : req'[y] = req[y]
  <2>1. req'[r].out \in Seq(FileInfo)
    BY <1>0, <1>7 DEF LooksAt, Placed
  <2> QED
    BY <1>0, <1>7, <2>1 DEF LooksAt, Moves, Placed
<1>8. CASE Finishes(r)
  BY <1>0, <1>8 DEF Finishes, Listed, At, Moves, Placed
<1>9. CASE OpensFile(r)
  BY <1>0, <1>9 DEF OpensFile, Moves, Placed
<1>10. CASE Writes(r)
  BY <1>0, <1>10 DEF Writes, Write, At, Moves, Placed
<1>11. CASE Closes(r)
  BY <1>0, <1>11 DEF Closes, Close, At, Moves, Placed
<1> QED
  BY <1>1, <1>2, <1>3, <1>4, <1>5, <1>6, <1>7, <1>8, <1>9, <1>10, <1>11, RequestStep

\* The bytes of r in a file become holes; the others stay where they are.
LEMMA DiscardIn ==
  ASSUME FileInv, NEW r \in Reqs, Discard(r)
  PROVE  /\ content' \in [Inodes -> Seq(Byte)] /\ UNCHANGED <<at, clobbered>>
         /\ \A i \in Inodes :
               /\ Len(content'[i]) = Len(content[i])
               /\ \A k \in 1 .. Len(content[i]) : content[i][k][1] # r => content'[i][k] = content[i][k]
<1> DEFINE n == req[r].ino
           c == content[n]
           d == [k \in 1 .. Len(c) |-> IF c[k][1] = r THEN NoByte ELSE c[k]]
<1>1. n \in Inodes /\ content \in [Inodes -> Seq(Byte)] /\ c \in Seq(Byte) /\ DOMAIN c = 1 .. Len(c)
  BY DEF FileInv, FsTypeOK, Placed, Discard, At
<1>2. content' = [content EXCEPT ![n] = d] /\ UNCHANGED <<at, clobbered>>
  BY <1>1 DEF Discard
<1>3. NoByte \in Byte
  BY DEF NoByte, Byte
<1>4. /\ d \in Seq(Byte) /\ Len(d) = Len(c)
      /\ \A k \in 1 .. Len(c) : c[k][1] # r => d[k] = c[k]
  <2>1. \A k \in 1 .. Len(c) : c[k] \in Byte
    BY <1>1
  <2>2. Len(c) \in Nat
    BY <1>1
  <2> HIDE DEF c
  <2> QED
    BY <1>3, <2>1, <2>2
<1> HIDE DEF d, n
<1> QED
  BY <1>1, <1>2, <1>4

\* The files keep their types.
LEMMA NextFsType ==
  ASSUME FileInv, NEW r \in Reqs, Step(r)
  PROVE  FsTypeOK'
<1>0. FsTypeOK
  BY DEF FileInv
<1>1. ASSUME NEW I, Touch(r, I) PROVE clobbered' \in [Reqs -> BOOLEAN]
  BY <1>0, <1>1 DEF Touch, FsTypeOK
<1>2. CASE Looks
  BY <1>0, <1>2 DEF Looks, FsTypeOK
<1>3. CASE Renames(r)
  BY <1>0, <1>1, <1>3 DEF Renames, FsTypeOK, Tree
<1>4. CASE Erases(r)
  <2>1. <<>> \in Seq(Byte)
    OBVIOUS
  <2> QED
    BY <1>0, <1>1, <1>4, <2>1 DEF Erases, FsTypeOK, Tree
<1>5. ASSUME NEW d \in Seq(Byte), Puts(r, d) PROVE FsTypeOK'
  <2>1. req[r].ino \in Inodes
    BY <1>5 DEF Puts, FileInv, Placed
  <2>2. Put(r, content[req[r].ino], d) \in Seq(Byte)
    BY <1>0, <2>1, PutIn DEF FsTypeOK
  <2> QED
    BY <1>0, <1>1, <1>5, <2>1, <2>2 DEF Puts, FsTypeOK
<1>6. CASE Discard(r)
  BY <1>0, <1>6, DiscardIn DEF FsTypeOK
<1> QED
  BY <1>2, <1>3, <1>4, <1>5, <1>6, FileStep, DataType

\* Requests are placed, and requests and files have their types, in every behaviour.
THEOREM FileInvariance == Spec => []FileInv
<1>1. Init => FileInv
  <2> SUFFICES ASSUME Init PROVE FileInv
    OBVIOUS
  <2>1. FsTypeOK
    <3> DEFINE i == CHOOSE n \in Inodes \ Special : TRUE
    <3>1. i \in Inodes /\ Special \subseteq Inodes /\ MaxFileReadBytes \in Nat /\ MaxFileReadBytes + 1 \in Nat
      <4>1. i \in Inodes \ Special
        BY FileHandlersAssumption
      <4> HIDE DEF i
      <4> QED
        BY <4>1, FileHandlersAssumption
    <3>2. \A n \in Nat : Old(n) \in Seq(Byte)
      BY DEF Old, Byte
    <3>3. at \in [Paths -> Inodes \cup {Dir, Absent}]
      <4> DEFINE d == CHOOSE p \in Paths : Len(p) = 1 /\ \E q \in Paths : IsStrictPrefix(p, q)
                 f == CHOOSE p \in Paths : Len(p) = 1 /\ p # d
      <4>1. PICK n \in Special \cup {i} :
                at = [q \in Paths |-> IF q = d THEN Dir ELSE IF q = f THEN n ELSE Absent]
        BY DEF Init
      <4> HIDE DEF i, d, f
      <4>2. n \in Inodes
        BY <3>1
      <4> QED
        BY <4>1, <4>2
    <3>4. /\ content = [n \in Inodes |-> IF n \in Special THEN Old(MaxFileReadBytes + 1)
                                        ELSE IF n = i THEN Old(MaxFileReadBytes) ELSE <<>>]
          /\ clobbered \in [Reqs -> BOOLEAN]
      BY DEF Init
    <3> HIDE DEF i
    <3>5. content \in [Inodes -> Seq(Byte)]
      <4>1. Old(MaxFileReadBytes + 1) \in Seq(Byte) /\ Old(MaxFileReadBytes) \in Seq(Byte) /\ <<>> \in Seq(Byte)
        BY <3>1, <3>2
      <4> QED
        BY <3>4, <4>1
    <3> QED
      BY <3>3, <3>4, <3>5 DEF FsTypeOK
  <2>2. req \in Handlers /\ \A r \in Reqs : req[r] = NoReq
    <3>1. NoReq \in Requests
      <4>1. <<>> \in Outs
        BY DEF Outs
      <4> QED
        BY <4>1 DEF NoReq, Request, Requests, Stages, Answers
    <3> QED
      BY <3>1 DEF Init, Handlers
  <2>3. ASSUME NEW r \in Reqs PROVE Placed(r)
    <3>1. /\ NoReq.stage = "idle" /\ NoReq.m = "none" /\ NoReq.todo = {} /\ NoReq.skip = {} /\ NoReq.out = <<>>
          /\ NoReq.res = "none"
      BY DEF NoReq, Request
    <3> QED
      BY <2>2, <3>1 DEF Placed, Succeeded, Is
  <2> QED
    BY <2>1, <2>2, <2>3 DEF FileInv
<1>2. FileInv /\ [Next]_vars => FileInv'
  <2>1. ASSUME FileInv, NEW r \in Reqs, Step(r) PROVE FileInv'
    <3>1. Placed(r)' /\ req' \in Handlers /\ \A y \in Reqs \ {r} : req'[y] = req[y]
      BY <2>1, PlacedAgain
    <3>2. \A y \in Reqs \ {r} : Placed(y)'
      BY <2>1, <3>1, PlacedKept DEF FileInv
    <3> QED
      BY <2>1, <3>1, <3>2, NextFsType DEF FileInv
  <2>2. ASSUME FileInv, UNCHANGED vars PROVE FileInv'
    BY <2>2, PlacedKept DEF vars, FileInv, FsTypeOK
  <2> QED
    BY <2>1, <2>2 DEF Next
<1> QED
  BY <1>1, <1>2, PTL DEF Spec

-----------------------------------------------------------------------------
(* file.read. *)

\* As long as it did not change since os.Stat, the file is no larger than it was found.
Checked(r) ==
    req[r].stage = "read" /\ ~overtaken[r] /\ at[req[r].p] \in Inodes \ Special =>
        Len(content[at[req[r].p]]) <= MaxFileReadBytes

\* One step of anybody.
LEMMA NextChecked ==
  ASSUME FileInv, [Next]_vars, NEW r \in Reqs, overtaken \in [Reqs -> BOOLEAN], Checked(r)
  PROVE  Checked(r)'
<1>1. CASE UNCHANGED vars
  BY <1>1 DEF vars, watchVars, Checked
<1>2. ASSUME NEW x \in Reqs, Step(x), Watch PROVE Checked(r)'
  <2>0. /\ ~overtaken'[r] => ~overtaken[r]
        /\ req'[r].stage = "read" /\ ~overtaken'[r] =>
              /\ at'[req'[r].p] = at[req'[r].p]
              /\ at[req'[r].p] \in Inodes => content'[at[req'[r].p]] = content[at[req'[r].p]]
    BY <1>2 DEF Watch, IsFile
  <2>1. CASE x # r
    <3>1. req'[r] = req[r]
      BY <1>2, <2>1, PlacedAgain
    <3> QED
      BY <2>0, <3>1 DEF Checked
  <2>2. CASE x = r
    <3>0. Placed(r) /\ Step(r)
      BY <1>2, <2>2 DEF FileInv
    <3>1. CASE Checks(r)
      <4>1. req'[r].p = req[r].p
        BY <3>1 DEF Checks, Moves
      <4> QED
        BY <2>0, <3>1, <4>1 DEF Checked, Checks
    <3>2. CASE \/ Arrives(r) \/ Rejected(r) \/ Answered(r) \/ Reads(r) \/ Opens(r) \/ Finishes(r) \/ OpensFile(r)
               \/ Writes(r) \/ Closes(r) \/ \E e \in req[r].todo : LooksAt(r, e)
      <4>1. req'[r].stage # "read"
        BY <3>2 DEF Arrives, Rejected, Answered, Reads, Opens, LooksAt, Finishes, OpensFile, Writes, Closes
      <4> QED
        BY <4>1 DEF Checked
    <3> QED
      BY <3>0, <3>1, <3>2, RequestStep
  <2> QED
    BY <2>1, <2>2
<1> QED
  BY <1>1, <1>2 DEF Next

\* file.read of a regular file exceeds its limit only when the file at its path changed between
\* os.Stat and os.ReadFile.
THEOREM OversizeIsARace == Spec => OversizeOnlyByRace
<1> DEFINE AllChecked == overtaken \in [Reqs -> BOOLEAN] /\ \A r \in Reqs : Checked(r)
           WithinLimit == \A r \in Reqs :
              At(r, "read") /\ Succeeded(r, "file.read")' /\ ~overtaken[r] =>
                  Len(req'[r].out) <= MaxFileReadBytes \/ at[req[r].p] \in Special
<1>1. Init => AllChecked
  <2> SUFFICES ASSUME Init PROVE AllChecked
    OBVIOUS
  <2>1. \A r \in Reqs : req[r].stage = "idle"
    BY DEF Init, NoReq, Request
  <2>2. overtaken = [r \in Reqs |-> FALSE]
    BY DEF Init
  <2> QED
    BY <2>1, <2>2 DEF Checked
<1>2. FileInv /\ AllChecked /\ [Next]_vars => AllChecked'
  <2> SUFFICES ASSUME FileInv, AllChecked, [Next]_vars PROVE AllChecked'
    OBVIOUS
  <2>1. overtaken' \in [Reqs -> BOOLEAN]
    BY DEF Next, Watch, vars, watchVars
  <2> QED
    BY <2>1, NextChecked
<1>3. FileInv /\ AllChecked /\ [Next]_vars => [WithinLimit]_vars
  <2> SUFFICES ASSUME FileInv, AllChecked, NEW x \in Reqs, Step(x), NEW r \in Reqs,
                      At(r, "read"), Succeeded(r, "file.read")', ~overtaken[r]
               PROVE  Len(req'[r].out) <= MaxFileReadBytes \/ at[req[r].p] \in Special
    BY DEF Next
  <2>1. Placed(r) /\ Checked(r) /\ req[r].stage = "read" /\ req'[r].res = "result"
    BY DEF FileInv, At, Succeeded
  <2>2. x = r
    <3>1. x # r => req'[r] = req[r]
      BY PlacedAgain
    <3> QED
      BY <2>1, <3>1 DEF Placed
  <2>3. Reads(r)
    <3>1. ~(Arrives(r) \/ Rejected(r) \/ Answered(r) \/ Checks(r) \/ Opens(r) \/ Finishes(r) \/ OpensFile(r)
            \/ Writes(r) \/ Closes(r) \/ \E e \in req[r].todo : LooksAt(r, e))
      BY <2>1 DEF Arrives, Rejected, Answered, Checks, StatForRead, Opens, ReadDir, LooksAt, Finishes, Listed,
                  OpensFile, Writes, Write, Closes, Close, At
    <3> QED
      BY <2>2, <3>1, RequestStep
  <2> QED
    BY <2>1, <2>3 DEF Reads, Checked, IsFile
<1> HIDE DEF AllChecked
<1> QED
  BY <1>1, <1>2, <1>3, FileInvariance, PTL DEF Spec, OversizeOnlyByRace, WithinLimit

-----------------------------------------------------------------------------
(* file.list. *)

ListedBy(r) == {req[r].out[k][1] : k \in DOMAIN req[r].out}
DueBy(r) == {e.p : e \in req[r].todo}

\* What was there all the time is listed, skipped or yet to be looked at; what is listed or to be
\* looked at was there.
Faithful(r) ==
    req[r].m = "file.list" =>
        /\ req[r].stage = "infos" =>
              /\ steady[r] \ req[r].skip \subseteq ListedBy(r) \cup DueBy(r)
              /\ ListedBy(r) \cup DueBy(r) \subseteq seen[r]
        /\ Succeeded(r, "file.list") =>
              /\ steady[r] \ req[r].skip \subseteq ListedBy(r)
              /\ ListedBy(r) \subseteq seen[r]

\* What the observer notes of a list that has begun.
LEMMA Observed ==
  ASSUME FileInv, NEW r \in Reqs, Watch, req[r].stage # "idle", req'[r].m = req[r].m, req'[r].p = req[r].p
  PROVE  /\ steady'[r] \subseteq steady[r] /\ seen[r] \subseteq seen'[r]
         /\ req[r].m = "file.list" /\ req'[r].stage # "done" =>
               LET Now == {q \in Children(req[r].p) : at'[q] # Absent}
               IN  steady'[r] \subseteq Now /\ Now \subseteq seen'[r]
<1> DEFINE Listing == req'[r].m = "file.list" /\ req'[r].stage # "done"
           Now == {q \in Children(req[r].p) : at'[q] # Absent}
<1>1. /\ steady'[r] = IF ~Listing THEN steady[r] ELSE steady[r] \cap Now
      /\ seen'[r] = IF Listing THEN seen[r] \cup Now ELSE seen[r]
  BY DEF Watch, At
<1> HIDE DEF Now
<1>2. /\ steady'[r] \subseteq steady[r] /\ seen[r] \subseteq seen'[r]
      /\ Listing => steady'[r] \subseteq Now /\ Now \subseteq seen'[r]
  BY <1>1
<1> QED
  BY <1>2 DEF Now

\* One step of anybody.
LEMMA NextFaithful ==
  ASSUME FileInv, [Next]_vars, NEW r \in Reqs, Faithful(r)
  PROVE  Faithful(r)'
<1> USE DEF Succeeded, Is
<1>1. CASE UNCHANGED vars
  BY <1>1 DEF vars, watchVars, Faithful, ListedBy, DueBy
<1>2. ASSUME NEW x \in Reqs, Step(x), Watch PROVE Faithful(r)'
  <2>0. Placed(r) /\ req \in Handlers
    BY DEF FileInv
  <2>1. CASE x # r
    <3>1. req'[r] = req[r]
      BY <1>2, <2>1, PlacedAgain
    <3>2. req[r].stage # "idle" => steady'[r] \subseteq steady[r] /\ seen[r] \subseteq seen'[r]
      BY <1>2, <3>1, Observed
    <3>3. req[r].stage = "idle" => req[r].m # "file.list"
      BY <2>0 DEF Placed
    <3>4. ListedBy(r)' = ListedBy(r) /\ DueBy(r)' = DueBy(r)
      BY <3>1 DEF ListedBy, DueBy
    <3> QED
      BY <3>1, <3>2, <3>3, <3>4 DEF Faithful
  <2>2. CASE x = r
    <3>0. Step(r)
      BY <1>2, <2>2
    <3>1. CASE Opens(r)
      <4>1. /\ req[r].stage = "begin" /\ req'[r].stage = "infos" /\ req'[r].res = "none" /\ req[r].m = "file.list"
            /\ req'[r].m = req[r].m /\ req'[r].p = req[r].p /\ UNCHANGED at /\ req'[r].out = <<>> /\ req'[r].skip = {}
        BY <2>0, <3>1 DEF Opens, ReadDir, Looks, At, Moves, Placed
      <4>2. ListedBy(r)' = {}
        BY <4>1 DEF ListedBy
      <4>3. DueBy(r)' = {q \in Children(req[r].p) : at[q] # Absent}
        BY <3>1 DEF Opens, DueBy
      <4>4. steady'[r] \subseteq DueBy(r)' /\ DueBy(r)' \subseteq seen'[r]
        BY <1>2, <4>1, <4>3, Observed
      <4> QED
        BY <4>1, <4>2, <4>4 DEF Faithful
    <3>2. ASSUME NEW e \in req[r].todo, LooksAt(r, e) PROVE Faithful(r)'
      <4>1. /\ req[r].stage = "infos" /\ req'[r].stage = "infos" /\ req'[r].res = "none" /\ req[r].m = "file.list"
            /\ req'[r].m = req[r].m /\ req'[r].p = req[r].p
        BY <2>0, <3>2 DEF LooksAt, Moves, Placed
      <4>2. steady'[r] \subseteq steady[r] /\ seen[r] \subseteq seen'[r]
        BY <1>2, <4>1, Observed
      <4>3. DueBy(r) \subseteq DueBy(r)' \cup {e.p} /\ DueBy(r)' \subseteq DueBy(r) /\ e.p \in DueBy(r)
        BY <3>2 DEF LooksAt, DueBy
      <4>4. \/ ListedBy(r)' = ListedBy(r) \cup {e.p} /\ req'[r].skip = req[r].skip
            \/ ListedBy(r)' = ListedBy(r) /\ req'[r].skip = req[r].skip \cup {e.p}
        <5>1. CASE req'[r].skip = req[r].skip \cup {e.p} /\ req'[r].out = req[r].out
          BY <5>1 DEF ListedBy
        <5>2. ASSUME NEW i \in FileInfo, i[1] = e.p, req'[r].out = Append(req[r].out, i)
              PROVE  ListedBy(r)' = ListedBy(r) \cup {e.p}
          <6> DEFINE o == req[r].out
          <6>1. o \in Seq(FileInfo)
            BY <2>0, <4>1 DEF Placed
          <6> HIDE DEF o
          <6>2. /\ DOMAIN o = 1 .. Len(o) /\ Len(o) \in Nat /\ DOMAIN Append(o, i) = 1 .. Len(o) + 1
                /\ \A k \in 1 .. Len(o) : Append(o, i)[k] = o[k]
                /\ Append(o, i)[Len(o) + 1] = i
            BY <6>1
          <6>3. 1 .. Len(o) + 1 = (1 .. Len(o)) \cup {Len(o) + 1}
            BY <6>2
          <6>4. {Append(o, i)[k][1] : k \in DOMAIN Append(o, i)} = {o[k][1] : k \in DOMAIN o} \cup {e.p}
            BY <5>2, <6>2, <6>3
          <6> QED
            BY <5>2, <6>4 DEF ListedBy, o
        <5> QED
          BY <3>2, <5>1, <5>2 DEF LooksAt
      <4>5. /\ steady[r] \ req[r].skip \subseteq ListedBy(r) \cup DueBy(r)
            /\ ListedBy(r) \cup DueBy(r) \subseteq seen[r]
        BY <4>1 DEF Faithful
      <4>6. /\ steady'[r] \ req'[r].skip \subseteq ListedBy(r)' \cup DueBy(r)'
            /\ ListedBy(r)' \cup DueBy(r)' \subseteq seen'[r]
        BY <4>2, <4>3, <4>4, <4>5
      <4> QED
        BY <4>1, <4>6 DEF Faithful
    <3>3. CASE Finishes(r)
      <4>1. /\ req[r].stage = "infos" /\ req'[r].stage = "done" /\ req[r].m = "file.list" /\ req[r].todo = {}
            /\ req'[r].m = req[r].m /\ req'[r].p = req[r].p /\ req'[r].skip = req[r].skip
            /\ req'[r].out = req[r].out
        BY <2>0, <3>3 DEF Finishes, Listed, Moves, Placed, At
      <4>2. steady'[r] \subseteq steady[r] /\ seen[r] \subseteq seen'[r]
        BY <1>2, <4>1, Observed
      <4>3. DueBy(r) = {} /\ ListedBy(r)' = ListedBy(r)
        BY <4>1 DEF DueBy, ListedBy
      <4> QED
        BY <4>1, <4>2, <4>3 DEF Faithful
    <3>4. CASE \/ Arrives(r) \/ Rejected(r) \/ Answered(r) \/ Checks(r) \/ Reads(r) \/ OpensFile(r) \/ Writes(r)
               \/ Closes(r)
      <4>1. req'[r].stage # "infos" /\ ~Succeeded(r, "file.list")'
        BY <2>0, <3>4 DEF Arrives, Rejected, Answered, Checks, StatForRead, Reads, ReadFile, OpensFile, Writes, Write,
                          Closes, Close, At, Moves, Placed
      <4> QED
        BY <4>1 DEF Faithful
    <3> QED
      BY <3>0, <3>1, <3>2, <3>3, <3>4, RequestStep
  <2> QED
    BY <2>1, <2>2
<1> QED
  BY <1>1, <1>2 DEF Next

\* file.list answers with every entry that was there all the time and could be looked at, and with
\* none that never was there.
THEOREM ListingIsFaithful == Spec => []ListingFaithful
<1> DEFINE AllFaithful == \A r \in Reqs : Faithful(r)
<1>1. Init => AllFaithful
  BY DEF Init, NoReq, Request, Faithful
<1>2. FileInv /\ AllFaithful /\ [Next]_vars => AllFaithful'
  BY NextFaithful
<1>3. AllFaithful => ListingFaithful
  BY DEF Faithful, ListingFaithful, ListedBy, Succeeded, Is
<1> HIDE DEF AllFaithful
<1> QED
  BY <1>1, <1>2, <1>3, FileInvariance, PTL DEF Spec

-----------------------------------------------------------------------------
(* file.write. *)

\* All that r writes is in the bytes c, in one piece.
Lands(c, r) == \E k \in 0 .. Len(c) - DataLen : \A j \in 1 .. DataLen : c[k + j] = <<r, j>>

\* It is there once Write to a regular file has returned, acknowledged or not, unless somebody else
\* destroyed it.
Landed(r) ==
    /\ req[r].stage = "closing" \/ Succeeded(r, "file.write")
    /\ ~clobbered[r] /\ req[r].ino \notin Special
    => Lands(content[req[r].ino], r)

\* It stays as long as the bytes of r do and the file does not shrink.
LEMMA StaysLanded ==
  ASSUME NEW r \in Reqs, NEW c \in Seq(Byte), NEW d \in Seq(Byte), Lands(c, r), Len(c) <= Len(d),
         \A k \in 1 .. Len(c) : c[k][1] = r => d[k] = c[k]
  PROVE  Lands(d, r)
<1>1. DataLen \in Nat /\ Len(c) \in Nat /\ Len(d) \in Nat
  BY FileHandlersAssumption
<1>2. PICK k \in 0 .. Len(c) - DataLen : \A j \in 1 .. DataLen : c[k + j] = <<r, j>>
  BY DEF Lands
<1>3. ASSUME NEW j \in 1 .. DataLen PROVE d[k + j] = <<r, j>>
  <2>1. k + j \in 1 .. Len(c)
    BY <1>1
  <2>2. c[k + j] = <<r, j>> /\ c[k + j][1] = r
    BY <1>2
  <2> QED
    BY <2>1, <2>2
<1>4. k \in 0 .. Len(d) - DataLen
  BY <1>1
<1> QED
  BY <1>3, <1>4 DEF Lands

\* The write itself puts it there: at the end of the file, or at the beginning.
LEMMA WriteLands ==
  ASSUME NEW r \in Reqs, NEW c \in Seq(Byte), req[r].ino \notin Special
  PROVE  Lands(Put(r, c, Data(r)), r)
<1> DEFINE d == Data(r)
           w == Put(r, c, d)
<1>1. d \in Seq(Byte) /\ Len(d) = DataLen /\ \A j \in 1 .. DataLen : d[j] = <<r, j>>
  BY DataType
<1>2. DataLen \in Nat /\ Len(c) \in Nat
  BY FileHandlersAssumption
<1> HIDE DEF d
<1>3. /\ w \in Seq(Byte) /\ Len(w) \in Nat
      /\ Appends(r) => /\ Len(w) = Len(c) + DataLen
                       /\ \A j \in 1 .. DataLen : w[Len(c) + j] = d[j]
      /\ ~Appends(r) => /\ Len(w) >= DataLen
                        /\ \A j \in 1 .. DataLen : w[j] = d[j]
  BY <1>1, PutIn
<1> HIDE DEF w
<1>4. CASE Appends(r)
  <2>1. Len(c) \in 0 .. Len(w) - DataLen
    BY <1>2, <1>3, <1>4
  <2>2. \A j \in 1 .. DataLen : w[Len(c) + j] = <<r, j>>
    BY <1>1, <1>3, <1>4
  <2> QED
    BY <2>1, <2>2 DEF Lands, w, d
<1>5. CASE ~Appends(r)
  <2>1. 0 \in 0 .. Len(w) - DataLen
    BY <1>2, <1>3, <1>5
  <2>2. \A j \in 1 .. DataLen : w[0 + j] = <<r, j>>
    BY <1>1, <1>2, <1>3, <1>5
  <2> QED
    BY <2>1, <2>2 DEF Lands, w, d
<1> QED
  BY <1>4, <1>5

\* Others either leave what r wrote alone or are seen to destroy it.
LEMMA OthersSpare ==
  ASSUME FileInv, NEW r \in Reqs, NEW x \in Reqs \ {r}, Step(x), req[r].ino \in Inodes \ Special, ~clobbered'[r],
         Lands(content[req[r].ino], r)
  PROVE  Lands(content'[req[r].ino], r)
<1>1. PICK n \in Inodes \ Special : n = req[r].ino
  OBVIOUS
<1>2. /\ content \in [Inodes -> Seq(Byte)] /\ content' \in [Inodes -> Seq(Byte)] /\ content[n] \in Seq(Byte)
      /\ content'[n] \in Seq(Byte) /\ Placed(x) /\ Lands(content[n], r)
  BY <1>1, NextFsType DEF FileInv, FsTypeOK
<1>3. ASSUME NEW I, Touch(x, I) PROVE n \notin I
  BY <1>1, <1>3 DEF Touch
<1>4. CASE content'[n] = content[n]
  BY <1>1, <1>2, <1>4
<1>5. CASE Erases(x)
  <2>1. content'[n] = content[n]
    BY <1>2, <1>3, <1>5 DEF Erases
  <2> QED
    BY <1>4, <2>1
<1>6. ASSUME NEW d \in Seq(Byte), Puts(x, d) PROVE Lands(content'[n], r)
  <2>1. req[x].ino \in Inodes
    BY <1>2, <1>6 DEF Puts, Placed
  <2>2. CASE req[x].ino # n
    <3>1. content'[n] = content[n]
      BY <1>2, <1>6, <2>1, <2>2 DEF Puts
    <3> QED
      BY <1>4, <1>1, <3>1
  <2>3. CASE req[x].ino = n
    <3>1. Appends(x)
      BY <1>3, <1>6, <2>3 DEF Puts, Endangered
    <3>2. content'[n] = Put(x, content[n], d)
      BY <1>2, <1>6, <2>3 DEF Puts
    <3>3. PICK c \in Seq(Byte) : c = content[n]
      BY <1>2
    <3>4. PICK w : w = Put(x, c, d)
      OBVIOUS
    <3>5. w \in Seq(Byte) /\ Len(w) = Len(c) + Len(d) /\ \A k \in 1 .. Len(c) : w[k] = c[k]
      BY <2>3, <3>1, <3>4, PutIn
    <3>6. Len(c) <= Len(w)
      BY <3>5
    <3>7. Lands(w, r)
      BY <1>2, <3>3, <3>5, <3>6, StaysLanded
    <3> QED
      BY <3>2, <3>3, <3>4, <3>7
  <2> QED
    BY <2>2, <2>3
<1>7. CASE Discard(x)
  <2>1. PICK c \in Seq(Byte) : c = content[n]
    BY <1>2
  <2>2. PICK d \in Seq(Byte) : d = content'[n]
    BY <1>2
  <2>3. Len(d) = Len(c) /\ \A k \in 1 .. Len(c) : c[k][1] # x => d[k] = c[k]
    BY <1>7, <2>1, <2>2, DiscardIn
  <2>4. Len(c) <= Len(d) /\ \A k \in 1 .. Len(c) : c[k][1] = r => d[k] = c[k]
    BY <2>3
  <2>5. Lands(d, r)
    BY <1>2, <2>1, <2>4, StaysLanded
  <2> QED
    BY <1>1, <2>2, <2>5
<1>8. Looks \/ Renames(x) => content'[n] = content[n]
  BY DEF Looks, Renames
<1> QED
  BY <1>1, <1>4, <1>5, <1>6, <1>7, <1>8, FileStep, DataType

\* No step of others takes the mark of destruction back.
LEMMA MarkStays ==
  ASSUME FileInv, NEW r \in Reqs, NEW x \in Reqs, Step(x), ~clobbered'[r]
  PROVE  ~clobbered[r]
<1>1. ASSUME NEW I, Touch(x, I) PROVE ~clobbered[r]
  BY <1>1 DEF Touch
<1>2. CASE Looks \/ Discard(x)
  BY <1>2 DEF Looks, Discard
<1>3. CASE Renames(x) \/ Erases(x) \/ \E d \in Seq(Byte) : Puts(x, d)
  BY <1>1, <1>3 DEF Renames, Erases, Puts
<1> QED
  BY <1>2, <1>3, FileStep, DataType

\* One step of anybody.
LEMMA NextLanded ==
  ASSUME FileInv, [Next]_vars, NEW r \in Reqs, Landed(r)
  PROVE  Landed(r)'
<1>1. CASE UNCHANGED vars
  BY <1>1 DEF vars, Landed, Succeeded, Is
<1>2. ASSUME NEW x \in Reqs, Step(x) PROVE Landed(r)'
  <2>0. Placed(r) /\ content \in [Inodes -> Seq(Byte)]
    BY DEF FileInv, FsTypeOK
  <2>1. CASE x # r
    <3>1. req'[r] = req[r]
      BY <1>2, <2>1, PlacedAgain
    <3>2. req[r].stage = "closing" \/ Succeeded(r, "file.write") => req[r].ino \in Inodes
      BY <2>0 DEF Placed
    <3> SUFFICES ASSUME req[r].stage = "closing" \/ Succeeded(r, "file.write"), ~clobbered'[r],
                        req[r].ino \notin Special
                 PROVE  Lands(content'[req[r].ino], r)
      BY <3>1 DEF Landed, Succeeded, Is
    <3>3. Lands(content[req[r].ino], r)
      BY <1>2, MarkStays DEF Landed
    <3> QED
      BY <1>2, <2>1, <3>2, <3>3, OthersSpare
  <2>2. CASE x = r
    <3>1. CASE Writes(r)
      <4>1. /\ req[r].ino \in Inodes /\ req'[r].ino = req[r].ino
            /\ content' = [content EXCEPT ![req[r].ino] = Put(r, content[req[r].ino], Data(r))]
        BY <2>0, <3>1 DEF Writes, Write, At, Placed
      <4>2. req[r].ino \notin Special => Lands(Put(r, content[req[r].ino], Data(r)), r)
        BY <2>0, <4>1, WriteLands
      <4>3. content'[req'[r].ino] = Put(r, content[req[r].ino], Data(r))
        BY <2>0, <4>1
      <4> QED
        BY <4>1, <4>2, <4>3 DEF Landed
    <3>2. CASE Closes(r)
      <4>1. req[r].stage = "closing" /\ req'[r].ino = req[r].ino /\ content' = content /\ clobbered' = clobbered
        BY <3>2 DEF Closes, Close, Looks, At
      <4> QED
        BY <4>1 DEF Landed
    <3>3. CASE \/ Arrives(r) \/ Rejected(r) \/ Answered(r) \/ Checks(r) \/ Reads(r) \/ Opens(r) \/ Finishes(r)
               \/ OpensFile(r) \/ \E e \in req[r].todo : LooksAt(r, e)
      <4>1. req'[r].stage # "closing" /\ (req'[r].m # "file.write" \/ req'[r].res # "result")
        BY <2>0, <3>3 DEF Arrives, Rejected, Answered, Checks, StatForRead, Reads, ReadFile, Opens, ReadDir, LooksAt,
                          Finishes, Listed, OpensFile, At, Moves, Placed, Is
      <4> QED
        BY <4>1 DEF Landed, Succeeded, Is
    <3> QED
      BY <1>2, <2>2, <3>1, <3>2, <3>3, RequestStep
  <2> QED
    BY <2>1, <2>2
<1> QED
  BY <1>1, <1>2 DEF Next

\* An acknowledged file.write to a regular file is in that file, whole and in one piece, until another request
\* truncates, overwrites or removes that file.
THEOREM AckedWritesLand == Spec => []AckedWriteLands
<1> DEFINE AllLanded == \A r \in Reqs : Landed(r)
<1>1. Init => AllLanded
  BY DEF Init, NoReq, Request, Landed, Succeeded
<1>2. FileInv /\ AllLanded /\ [Next]_vars => AllLanded'
  BY NextLanded
<1>3. FileInv /\ AllLanded => AckedWriteLands
  <2> SUFFICES ASSUME FileInv, AllLanded, NEW r \in Reqs, Succeeded(r, "file.write"), ~clobbered[r],
                      req[r].ino \notin Special, NEW c, c = content[req[r].ino]
               PROVE  \E k \in 0 .. Len(c) - DataLen : SubSeq(c, k + 1, k + DataLen) = Data(r)
    BY DEF AckedWriteLands
  <2>1. c \in Seq(Byte) /\ DataLen \in Nat /\ Len(c) \in Nat
    <3>1. req[r].ino \in Inodes /\ content \in [Inodes -> Seq(Byte)]
      BY DEF FileInv, FsTypeOK, Placed
    <3>2. c \in Seq(Byte)
      BY <3>1
    <3>3. Len(c) \in Nat
      BY <3>2
    <3> QED
      BY <3>2, <3>3, FileHandlersAssumption
  <2>2. PICK k \in 0 .. Len(c) - DataLen : \A j \in 1 .. DataLen : c[k + j] = <<r, j>>
    BY DEF Landed, Lands
  <2>3. PICK t : t = SubSeq(c, k + 1, k + DataLen)
    OBVIOUS
  <2>4. k \in Nat /\ k + 1 \in Int /\ k + DataLen \in Int
    BY <2>1
  <2>5. \A i \in k + 1 .. k + DataLen : c[i] \in Byte
    BY <2>1, <2>4
  <2>6. t \in Seq(Byte) /\ Len(t) = DataLen /\ \A j \in 1 .. DataLen : t[j] = c[k + j]
    <3>1. PICK a \in Int, b \in Int : a = k + 1 /\ b = k + DataLen
      BY <2>4
    <3>2. /\ t \in Seq(Byte) /\ Len(t) = IF a <= b THEN b - a + 1 ELSE 0
          /\ \A j \in 1 .. b - a + 1 : t[j] = c[a + j - 1]
      BY <2>3, <2>5, <3>1, SubSeqProperties
    <3>3. b - a + 1 = DataLen /\ (a <= b \/ DataLen = 0) /\ \A j \in 1 .. DataLen : a + j - 1 = k + j
      BY <2>1, <2>4, <3>1
    <3> QED
      BY <2>1, <3>2, <3>3
  <2>7. Data(r) \in Seq(Byte) /\ Len(Data(r)) = DataLen /\ \A j \in 1 .. DataLen : Data(r)[j] = <<r, j>>
    BY DataType
  <2>8. t = Data(r)
    BY <2>2, <2>6, <2>7, SeqEqual
  <2> QED
    BY <2>3, <2>8
<1> HIDE DEF AllLanded
<1> QED
  BY <1>1, <1>2, <1>3, FileInvariance, PTL DEF Spec
=============================================================================
