---------------------------- MODULE FileHandlers ----------------------------
(***************************************************************************)
(* agent/handlers_fs.go: the handlers of the file methods as goroutines    *)
(* over one file system.  Each call of package os is one step; what a      *)
(* handler does between two of them, other handlers may undo.              *)
(***************************************************************************)
EXTENDS Integers, SequencesExt

CONSTANTS
    Reqs,               \* requests
    Methods,            \* Methods[r]: the methods request r may have
    Paths,              \* paths, as sequences of names; with a path every prefix of it
    Inodes,             \* identities of files, as numbers
    Special,            \* those of proc files, devices, FIFOs: st_size is 0 whatever they hold
    MaxFileReadBytes,   \* proto.MaxFileReadBytes
    DataLen             \* the length of the content of a file.write

FileMethods ==
    {"file.read", "file.stat", "file.list", "file.write", "file.move", "file.delete",
     "directory.create"}

ASSUME FileHandlersAssumption ==
    /\ Methods \in [Reqs -> SUBSET FileMethods]
    /\ \A p \in Paths : Len(p) > 0 /\ (Len(p) > 1 => Front(p) \in Paths)
    /\ Inodes \subseteq Nat \ {0}
    /\ Special \subseteq Inodes /\ Inodes \ Special # {}
    /\ MaxFileReadBytes \in Nat
    /\ DataLen \in Nat \ {0}

Absent == -1
Dir == 0

VARIABLES
    at,             \* at[p]: the inode of the file at path p, Dir or Absent
    content,        \* content[i]: the bytes of file i
    req,            \* req[r]: the parameters and the local state of the handler of r
    (* Observations. *)
    clobbered,      \* clobbered[r]: another one truncated, overwrote or removed the file r wrote
    overtaken,      \* overtaken[r]: the file at its path changed after the os.Stat of the file.read r
    steady,         \* steady[r]: the paths that were there throughout the file.list r
    seen            \* seen[r]: the paths that were there at some time during it

watchVars == <<overtaken, steady, seen>>
vars == <<at, content, req, clobbered, watchVars>>

\* opt: mode "append" of file.write, recursive of directory.create.
Args(r) ==
    {a \in [m : Methods[r], p : Paths, q : Paths, opt : BOOLEAN] :
        /\ a.m # "file.move" => a.q = a.p
        /\ a.opt => a.m \in {"file.write", "directory.create"}}

Request(s, m, p, q, opt) ==
    [stage |-> s, m |-> m, p |-> p, q |-> q, opt |-> opt, ino |-> Absent,
     todo |-> {}, skip |-> {}, out |-> <<>>, res |-> "none"]

NoReq == Request("idle", "none", <<>>, <<>>, FALSE)

NoByte == <<0, 0>>

\* The bytes request r writes.
Data(r) == [k \in 1 .. DataLen |-> <<r, k>>]

\* The n bytes a file holds from the beginning.
Old(n) == [k \in 1 .. n |-> <<0, k>>]

\* A directory, and a file: one as large as file.read allows, or a special one that holds more.
Init ==
    LET d == CHOOSE p \in Paths : Len(p) = 1 /\ \E q \in Paths : IsStrictPrefix(p, q)
        f == CHOOSE p \in Paths : Len(p) = 1 /\ p # d
        regular == CHOOSE i \in Inodes \ Special : TRUE
    IN  /\ \E i \in Special \cup {regular} :
            at = [p \in Paths |-> IF p = d THEN Dir ELSE IF p = f THEN i ELSE Absent]
        /\ content = [i \in Inodes |-> IF i \in Special THEN Old(MaxFileReadBytes + 1)
                                       ELSE IF i = regular THEN Old(MaxFileReadBytes)
                                       ELSE <<>>]
        /\ req = [r \in Reqs |-> NoReq]
        /\ clobbered = [r \in Reqs |-> FALSE]
        /\ overtaken = [r \in Reqs |-> FALSE]
        /\ steady = [r \in Reqs |-> {}]
        /\ seen = [r \in Reqs |-> {}]

-----------------------------------------------------------------------------
(* The file system (external). *)

IsFile(p) == at[p] \in Inodes
IsDir(p) == at[p] = Dir
Children(p) == {q \in Paths : Len(q) = Len(p) + 1 /\ IsPrefix(p, q)}

\* The error of looking a path up.
LookErr(p) ==
    IF at[p] # Absent THEN "ok"
    ELSE IF \E q \in Paths : IsStrictPrefix(q, p) /\ IsFile(q) THEN "ENOTDIR"
    ELSE "ENOENT"

\* The error of making an entry for p, which is absent.
MakeErr(p) == IF Len(p) = 1 \/ IsDir(Front(p)) THEN "ok" ELSE LookErr(p)

\* rename(2), and os.Rename, which refuses a directory as the target.
RenameErr(p, q) ==
    IF at[p] = Absent THEN LookErr(p)
    ELSE IF IsDir(q) THEN "EEXIST"
    ELSE IF p = q THEN "ok"
    ELSE IF IsDir(p) /\ (IsFile(q) \/ IsPrefix(p, q)) THEN "EINVAL"
    ELSE MakeErr(q)

\* A directory takes what is in it along, as far as the paths of the model reach.
Renamed(p, q) ==
    [x \in Paths |->
        IF p = q THEN at[x]
        ELSE IF IsPrefix(q, x)
        THEN LET y == p \o SubSeq(x, Len(q) + 1, Len(x))
             IN  IF y \in Paths THEN at[y] ELSE Absent
        ELSE IF IsPrefix(p, x) THEN Absent
        ELSE at[x]]

-----------------------------------------------------------------------------
(* Steps of a handler. *)

At(r, s) == req[r].stage = s
Is(r, m) == req[r].m = m

\* The handler of r goes on in stage s.
Go(r, s) == req' = [req EXCEPT ![r].stage = s]
Respond(r, x) == req' = [req EXCEPT ![r].stage = "done", ![r].res = x]
Answer(r, v) == req' = [req EXCEPT ![r].stage = "done", ![r].res = "result", ![r].out = v]

osErrorToRPCError(e) ==
    CASE e = "ENOENT" -> "invalid_request"
      [] e = "EACCES" -> "permission_denied"
      [] OTHER -> "internal_error"

Fail(r, e) == Respond(r, osErrorToRPCError(e))

\* The step of r changes the file system: what others wrote to the files I is not safe any more.
Touch(r, I) ==
    clobbered' = [q \in Reqs |-> clobbered[q] \/ (q # r /\ req[q].ino \in I)]

Looks == UNCHANGED <<at, content, clobbered>>

Receive(r) ==
    /\ At(r, "idle")
    /\ \E a \in Args(r) :
        req' = [req EXCEPT ![r] = Request("begin", a.m, a.p, a.q, a.opt)]
    /\ Looks

\* Parameters that do not parse, validatePath, an unknown mode, content that is not base64.
InvalidRequest(r) ==
    /\ At(r, "begin")
    /\ Respond(r, "invalid_request")
    /\ Looks

\* The first call of package os is refused, or fails for a reason of its own.
Refused(r) ==
    /\ At(r, "begin")
    /\ \E e \in {"EACCES", "EIO"} : Fail(r, e)
    /\ Looks

(* file.read and file.stat *)

\* st_size: the kernel does not know how much a special file will yield.
Size(p) == IF at[p] \in Inodes \ Special THEN Len(content[at[p]]) ELSE 0

\* Mutant of TooLarge: one byte too many is let through.
TooLargeByTwo(p) == Size(p) > MaxFileReadBytes + 1

TooLarge(p) == Size(p) > MaxFileReadBytes

StatForRead(r) ==
    LET p == req[r].p IN
    /\ At(r, "begin") /\ Is(r, "file.read")
    /\ IF LookErr(p) # "ok" THEN Fail(r, LookErr(p))
       ELSE IF TooLarge(p) THEN Respond(r, "file_too_large")
       ELSE Go(r, "read")
    /\ Looks

\* os.ReadFile looks the path up again, and reads to the end, which on a FIFO may take for ever.
ReadFile(r) ==
    LET p == req[r].p IN
    /\ At(r, "read")
    /\ IF LookErr(p) # "ok" THEN Fail(r, LookErr(p))
       ELSE IF IsDir(p) THEN Fail(r, "EISDIR")
       ELSE Answer(r, content[at[p]])
    /\ Looks

Stat(r) ==
    LET p == req[r].p IN
    /\ At(r, "begin") /\ Is(r, "file.stat")
    /\ IF LookErr(p) # "ok" THEN Fail(r, LookErr(p)) ELSE Answer(r, <<IsDir(p), Size(p)>>)
    /\ Looks

(* file.list *)

ReadDir(r) ==
    LET p == req[r].p IN
    /\ At(r, "begin") /\ Is(r, "file.list")
    /\ IF LookErr(p) # "ok" THEN Fail(r, LookErr(p))
       ELSE IF IsFile(p) THEN Fail(r, "ENOTDIR")
       ELSE req' = [req EXCEPT ![r].stage = "infos",
                               ![r].todo = {[p |-> q, isDir |-> IsDir(q)] :
                                                q \in {x \in Children(p) : at[x] # Absent}}]
    /\ Looks

\* Mutant of Vanished: the loop ends at an entry that is gone.
VanishedStops(r, e) == req' = [req EXCEPT ![r].todo = {}, ![r].skip = @ \cup {e.p}]

\* An entry whose Info fails is skipped.
Vanished(r, e) == req' = [req EXCEPT ![r].todo = @ \ {e}, ![r].skip = @ \cup {e.p}]

\* e.Info() of the next entry looks its path up again: isDir is the old entry's, the rest is new.
Info(r) ==
    /\ At(r, "infos")
    /\ \E e \in req[r].todo :
        \/ /\ at[e.p] # Absent
           /\ req' = [req EXCEPT ![r].todo = @ \ {e},
                                 ![r].out = Append(@, <<e.p, e.isDir, IsDir(e.p), Size(e.p)>>)]
        \/ /\ at[e.p] = Absent
           /\ Vanished(r, e)
    /\ Looks

\* The look at an entry is refused, although it is there.
InfoRefused(r) ==
    /\ At(r, "infos")
    /\ \E e \in req[r].todo : Vanished(r, e)
    /\ Looks

Listed(r) ==
    /\ At(r, "infos") /\ req[r].todo = {}
    /\ Respond(r, "result")
    /\ Looks

(* file.write *)

Appends(r) == req[r].opt

\* Inodes for new files: neither a path nor an open file has them.
Free ==
    LET used == {at[p] : p \in Paths} \cup {req[r].ino : r \in {q \in Reqs : ~At(q, "done")}}
    IN  (Inodes \ Special) \ used

\* os.OpenFile with O_CREATE, and O_TRUNC or O_APPEND.  A special file has nothing to truncate.
OpenForWrite(r) ==
    LET p == req[r].p
        new == CHOOSE i \in Free : TRUE
        Opened(i) == req' = [req EXCEPT ![r].stage = "writing", ![r].ino = i]
    IN  /\ At(r, "begin") /\ Is(r, "file.write")
        /\ \/ /\ IsFile(p) /\ (Appends(r) \/ at[p] \in Special)
              /\ Opened(at[p])
              /\ Looks
           \/ /\ IsFile(p) /\ ~Appends(r) /\ at[p] \notin Special
              /\ Opened(at[p])
              /\ content' = [content EXCEPT ![at[p]] = <<>>]
              /\ Touch(r, {at[p]})
              /\ UNCHANGED at
           \/ /\ at[p] = Absent /\ MakeErr(p) = "ok" /\ Free # {}
              /\ Opened(new)
              /\ at' = [at EXCEPT ![p] = new]
              /\ content' = [content EXCEPT ![new] = <<>>]
              /\ Touch(r, {new})
           \/ /\ ~IsFile(p) /\ (IsDir(p) \/ MakeErr(p) # "ok" \/ Free = {})
              /\ Fail(r, IF IsDir(p) THEN "EISDIR" ELSE IF MakeErr(p) = "ok" THEN "ENOSPC" ELSE MakeErr(p))
              /\ Looks

\* Where the data goes: with O_APPEND to the end, whoever wrote before; else to the beginning.  A
\* special file takes it and does not keep it.
Put(r, c, d) ==
    IF req[r].ino \in Special THEN c
    ELSE IF Appends(r) THEN c \o d
    ELSE d \o SubSeq(c, Len(d) + 1, Len(c))

\* What a write of r endangers: an append only adds.
Endangered(r) == IF Appends(r) THEN {} ELSE {req[r].ino}

Write(r) ==
    /\ At(r, "writing")
    /\ content' = [content EXCEPT ![req[r].ino] = Put(r, @, Data(r))]
    /\ Touch(r, Endangered(r))
    /\ Go(r, "closing")
    /\ UNCHANGED at

\* f.Write fails with a part written; the file is closed.
WriteErr(r) ==
    /\ At(r, "writing")
    /\ \E k \in 0 .. DataLen - 1 :
        content' = [content EXCEPT ![req[r].ino] = Put(r, @, SubSeq(Data(r), 1, k))]
    /\ Touch(r, Endangered(r))
    /\ Fail(r, "EIO")
    /\ UNCHANGED at

Close(r) ==
    /\ At(r, "closing")
    /\ Respond(r, "result")
    /\ Looks

\* The bytes that never reached the file, though others wrote behind them.
Discard(r) ==
    /\ At(r, "closing")
    /\ content' = [content EXCEPT ![req[r].ino] = [k \in DOMAIN @ |-> IF @[k][1] = r THEN NoByte ELSE @[k]]]
    /\ UNCHANGED <<at, clobbered>>

\* Mutant of CloseErr: the close is deferred and its error ignored.
CloseErrIgnored(r) == Discard(r) /\ Respond(r, "result")

\* f.Close fails, and what was written is discarded.
CloseErr(r) == Discard(r) /\ Fail(r, "EIO")

(* file.move, file.delete and directory.create *)

Move(r) ==
    LET p == req[r].p
        q == req[r].q
        e == RenameErr(p, q)
    IN  /\ At(r, "begin") /\ Is(r, "file.move")
        /\ IF e # "ok" THEN Fail(r, e) /\ Looks
           ELSE /\ at' = Renamed(p, q)
                /\ Touch(r, IF p = q THEN {} ELSE {at[q]} \cap Inodes)
                /\ Respond(r, "result")
                /\ UNCHANGED content

\* os.Remove: a file, or a directory that is empty.
Delete(r) ==
    LET p == req[r].p IN
    /\ At(r, "begin") /\ Is(r, "file.delete")
    /\ IF LookErr(p) # "ok" THEN Fail(r, LookErr(p)) /\ Looks
       ELSE IF IsDir(p) /\ \E q \in Children(p) : at[q] # Absent THEN Fail(r, "ENOTEMPTY") /\ Looks
       ELSE /\ at' = [at EXCEPT ![p] = Absent]
            /\ Touch(r, {at[p]} \cap Inodes)
            /\ Respond(r, "result")
            /\ UNCHANGED content

Mkdir(r) ==
    LET p == req[r].p IN
    /\ At(r, "begin") /\ Is(r, "directory.create") /\ ~req[r].opt
    /\ IF at[p] # Absent THEN Fail(r, "EEXIST") /\ Looks
       ELSE IF MakeErr(p) # "ok" THEN Fail(r, MakeErr(p)) /\ Looks
       ELSE /\ at' = [at EXCEPT ![p] = Dir]
            /\ Touch(r, {})
            /\ Respond(r, "result")
            /\ UNCHANGED content

\* os.MkdirAll makes every missing directory, or fails half-way.
MkdirAll(r) ==
    LET p == req[r].p
        Down(k) == {q \in Paths : IsPrefix(q, p) /\ Len(q) <= k}
    IN  /\ At(r, "begin") /\ Is(r, "directory.create") /\ req[r].opt
        /\ IF \E q \in Down(Len(p)) : IsFile(q) THEN Fail(r, "ENOTDIR") /\ Looks
           ELSE \E k \in 0 .. Len(p) :
                   /\ at' = [q \in Paths |-> IF q \in Down(k) THEN Dir ELSE at[q]]
                   /\ Touch(r, {})
                   /\ \/ k = Len(p) /\ Respond(r, "result")
                      \/ k < Len(p) /\ \E e \in {"EACCES", "EIO"} : Fail(r, e)
                   /\ UNCHANGED content

-----------------------------------------------------------------------------
Step(r) ==
    \/ Receive(r) \/ InvalidRequest(r) \/ Refused(r)
    \/ StatForRead(r) \/ ReadFile(r) \/ Stat(r)
    \/ ReadDir(r) \/ Info(r) \/ InfoRefused(r) \/ Listed(r)
    \/ OpenForWrite(r) \/ Write(r) \/ WriteErr(r) \/ Close(r) \/ CloseErr(r)
    \/ Move(r) \/ Delete(r) \/ Mkdir(r) \/ MkdirAll(r)

\* The observations, brought up to date with each step.
Watch ==
    LET Reading(r) == req'[r].stage = "read"
        Listing(r) == req'[r].m = "file.list" /\ req'[r].stage # "done"
        Now(r) == {q \in Children(req'[r].p) : at'[q] # Absent}
        Changed(p) == at'[p] # at[p] \/ (IsFile(p) /\ content'[at[p]] # content[at[p]])
    IN  /\ overtaken' = [r \in Reqs |-> overtaken[r] \/ (Reading(r) /\ Changed(req'[r].p))]
        /\ steady' = [r \in Reqs |-> IF ~Listing(r) THEN steady[r]
                                     ELSE IF At(r, "idle") THEN Now(r) ELSE steady[r] \cap Now(r)]
        /\ seen' = [r \in Reqs |-> IF Listing(r) THEN seen[r] \cup Now(r) ELSE seen[r]]

Next == \E r \in Reqs : Step(r) /\ Watch

Spec == Init /\ [][Next]_vars

-----------------------------------------------------------------------------
(* Properties. *)

Succeeded(r, m) == Is(r, m) /\ req[r].res = "result"

\* An acknowledged file.write to a regular file is in that file, whole and in one piece, until another request
\* truncates, overwrites or removes that file: appends of several requests never damage each
\* other, and a failure of Write or Close is never acknowledged (handlers_fs.go:202).
AckedWriteLands ==
    \A r \in Reqs :
        LET c == content[req[r].ino] IN
        Succeeded(r, "file.write") /\ ~clobbered[r] /\ req[r].ino \notin Special =>
            \E k \in 0 .. Len(c) - DataLen : SubSeq(c, k + 1, k + DataLen) = Data(r)

\* file.list answers with every entry that was there all the time and could be looked at, and
\* with none that never was there, while entries come, go and are replaced between ReadDir and
\* Info (handlers_fs.go:153).
ListingFaithful ==
    \A r \in Reqs :
        LET listed == {req[r].out[k][1] : k \in DOMAIN req[r].out} IN
        Succeeded(r, "file.list") =>
            /\ steady[r] \ req[r].skip \subseteq listed
            /\ listed \subseteq seen[r]

\* file.read of a regular file exceeds its limit only when that very file was changed, or another
\* one put in its place, between os.Stat and os.ReadFile: the size that was checked is stale then
\* (handlers_fs.go:77).  A special file passes the check whatever it holds.
OversizeOnlyByRace ==
    [][\A r \in Reqs :
          At(r, "read") /\ Succeeded(r, "file.read")' /\ ~overtaken[r] =>
              Len(req'[r].out) <= MaxFileReadBytes \/ at[req[r].p] \in Special]_vars
=============================================================================
