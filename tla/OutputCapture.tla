--------------------------- MODULE OutputCapture ---------------------------
(***************************************************************************)
(* One managed process and everything that touches its output: the process *)
(* and its descendants writing into the pipes, the goroutines of           *)
(* Manager.Start (agent/processmgr.go) that copy the pipes into ring       *)
(* buffers and wait for the exit, one command.exec or command.read handler *)
(* (agent/handlers_command.go) waiting for it, and a client that pages     *)
(* through the output with process.read (agent/handlers_process.go).       *)
(*                                                                         *)
(* A byte is its position in the stream and its kind: "a" a character of   *)
(* one byte, "h" and "t" the two bytes of a wider one.                     *)
(***************************************************************************)
EXTENDS RingBuffer, FiniteSets

CONSTANTS
    Streams,        \* {"stdout", "stderr"}, or one of them
    Kinds,          \* the kinds of bytes the process writes: {"a"} or {"a", "h"}
    MaxBytes,       \* MaxBytes[s]: bound on the bytes of a stream
    Cap,            \* STDOUT_BUFFER_BYTES, STDERR_BUFFER_BYTES
    MaxOut,         \* proto.MaxCommandOutputBytes
    PageSizes       \* max_bytes values the paging client asks for

ASSUME CaptureAssumption ==
    /\ IsFiniteSet(Streams) /\ Streams # {}
    /\ MaxBytes \in [Streams -> Nat] /\ Cap \in Nat /\ MaxOut \in Nat \ {0}
    /\ PageSizes \subseteq Int /\ Kinds \subseteq {"a", "h"}

VARIABLES
    stream,         \* stream[s]: the bytes written into the pipe so far
    copied,         \* copied[s]: how many of them the copy goroutine took out
    chunk,          \* chunk[s]: what it took out and has yet to write into the buffer
    ring,           \* ring[s]: the ring buffer
    copyDone,       \* copyDone[s]: io.Copy returned
    leader,         \* the process itself: "running" or "exited"
    kids,           \* a descendant is alive and holds the pipes' write ends
    pipesOpen,      \* CloseIO was not called yet
    waiter,         \* where the exit-wait goroutine is
    forced,         \* the drain grace period elapsed before the copies ended
    cmd,            \* cmd[s]: where the command handler is with stream s
    timedOut,       \* its timed_out
    cmdPage,        \* cmdPage[s]: what it read
    truncated,      \* truncated[s]: its StdoutTruncated, StderrTruncated
    off,            \* off[s]: the paging client's next offset
    seen,           \* seen[s]: the text it put together
    skipped,        \* skipped[s]: some page was flagged truncated_before
    sawExit,        \* some page reported an exit code
    sawEnd          \* sawEnd[s]: a page asked for after that was empty

vars == <<stream, copied, chunk, ring, copyDone, leader, kids, pipesOpen, waiter, forced,
          cmd, timedOut, cmdPage, truncated, off, seen, skipped, sawExit, sawEnd>>
processVars == <<stream, leader, kids>>
captureVars == <<copied, chunk, ring, copyDone, pipesOpen, waiter, forced>>
cmdVars == <<cmd, timedOut, cmdPage, truncated>>
clientVars == <<off, seen, skipped, sawExit, sawEnd>>

Bytes == Nat \X {"a", "h", "t"}

\* U+FFFD, which json.Marshal puts in the place of bytes that are not valid UTF-8.
Replacement == <<0, "?">>

NoPage == [data |-> <<>>, next |-> 0, truncatedBefore |-> FALSE]

\* The shapes of the state; a ring buffer (agent/ringbuffer.go) never exceeds its capacity.
TypeOK ==
    /\ stream \in [Streams -> Seq(Bytes)]
    /\ copied \in [Streams -> Nat]
    /\ chunk \in [Streams -> Seq(Bytes)]
    /\ ring \in [Streams -> [buf : Seq(Bytes), start : Nat]]
    /\ \A s \in Streams : Len(ring[s].buf) <= Cap
    /\ copyDone \in [Streams -> BOOLEAN]
    /\ leader \in {"running", "exited"}
    /\ kids \in BOOLEAN
    /\ pipesOpen \in BOOLEAN
    /\ waiter \in {"wait", "drain", "closeIO", "drained", "done"}
    /\ forced \in BOOLEAN
    /\ cmd \in [Streams -> {"wait", "read", "len", "done"}]
    /\ timedOut \in BOOLEAN
    /\ cmdPage \in [Streams -> [data : Seq(Bytes), next : Nat, truncatedBefore : BOOLEAN]]
    /\ truncated \in [Streams -> BOOLEAN]
    /\ off \in [Streams -> Nat]
    /\ seen \in [Streams -> Seq(Bytes \cup {Replacement})]
    /\ skipped \in [Streams -> BOOLEAN]
    /\ sawExit \in BOOLEAN
    /\ sawEnd \in [Streams -> BOOLEAN]

Init ==
    /\ stream = [s \in Streams |-> <<>>]
    /\ copied = [s \in Streams |-> 0]
    /\ chunk = [s \in Streams |-> <<>>]
    /\ ring = [s \in Streams |-> NewRingBuffer]
    /\ copyDone = [s \in Streams |-> FALSE]
    /\ leader = "running"
    /\ kids = FALSE
    /\ pipesOpen = TRUE
    /\ waiter = "wait"
    /\ forced = FALSE
    /\ cmd = [s \in Streams |-> "wait"]
    /\ timedOut = FALSE
    /\ cmdPage = [s \in Streams |-> NoPage]
    /\ truncated = [s \in Streams |-> FALSE]
    /\ off = [s \in Streams |-> 0]
    /\ seen = [s \in Streams |-> <<>>]
    /\ skipped = [s \in Streams |-> FALSE]
    /\ sawExit = FALSE
    /\ sawEnd = [s \in Streams |-> FALSE]

-----------------------------------------------------------------------------
(* The process and its descendants. *)

\* The kind of the next byte: a wide character is completed before anything else.
NextKinds(s) ==
    LET n == Len(stream[s]) IN
    IF n > 0 /\ stream[s][n][2] = "h" THEN {"t"} ELSE Kinds

Produce(s) ==
    /\ leader = "running" \/ kids
    /\ pipesOpen
    /\ Len(stream[s]) < MaxBytes[s]
    /\ \E k \in NextKinds(s) :
        stream' = [stream EXCEPT ![s] = Append(@, <<Len(@) + 1, k>>)]
    /\ UNCHANGED <<leader, kids, captureVars, cmdVars, clientVars>>

Fork ==
    /\ leader = "running"
    /\ ~kids
    /\ kids' = TRUE
    /\ UNCHANGED <<stream, leader, captureVars, cmdVars, clientVars>>

LeaderExit ==
    /\ leader = "running"
    /\ leader' = "exited"
    /\ UNCHANGED <<stream, kids, captureVars, cmdVars, clientVars>>

KidsExit ==
    /\ kids
    /\ kids' = FALSE
    /\ UNCHANGED <<stream, leader, captureVars, cmdVars, clientVars>>

-----------------------------------------------------------------------------
(* The goroutines of Manager.Start. *)

\* io.Copy takes what is in the pipe, or a part of it.
CopyRead(s) ==
    /\ ~copyDone[s]
    /\ pipesOpen
    /\ chunk[s] = <<>>
    /\ \E n \in copied[s] + 1 .. Len(stream[s]) :
        /\ chunk' = [chunk EXCEPT ![s] = SubSeq(stream[s], copied[s] + 1, n)]
        /\ copied' = [copied EXCEPT ![s] = n]
    /\ UNCHANGED <<processVars, ring, copyDone, pipesOpen, waiter, forced, cmdVars, clientVars>>

\* io.Copy writes it into the ring buffer.
CopyWrite(s) ==
    /\ chunk[s] # <<>>
    /\ ring' = [ring EXCEPT ![s] = RingWrite(Cap, @, chunk[s])]
    /\ chunk' = [chunk EXCEPT ![s] = <<>>]
    /\ UNCHANGED <<processVars, copied, copyDone, pipesOpen, waiter, forced, cmdVars, clientVars>>

\* End of file: nobody holds the write end and the pipe is empty.
AtEOF(s) == leader = "exited" /\ ~kids /\ copied[s] = Len(stream[s])

\* io.Copy returns, at end of file or because CloseIO closed the pipe under it.
CopyEnd(s) ==
    /\ ~copyDone[s]
    /\ chunk[s] = <<>>
    /\ AtEOF(s) \/ ~pipesOpen
    /\ copyDone' = [copyDone EXCEPT ![s] = TRUE]
    /\ UNCHANGED <<processVars, copied, chunk, ring, pipesOpen, waiter, forced, cmdVars, clientVars>>

AllCopied == \A s \in Streams : copyDone[s]

\* h.Wait returns.
Reap ==
    /\ waiter = "wait"
    /\ leader = "exited"
    /\ waiter' = "drain"
    /\ UNCHANGED <<processVars, copied, chunk, ring, copyDone, pipesOpen, forced, cmdVars, clientVars>>

\* The select on drained and on the grace timer.
Drained ==
    /\ waiter = "drain"
    /\ AllCopied
    /\ waiter' = "closeIO"
    /\ UNCHANGED <<processVars, copied, chunk, ring, copyDone, pipesOpen, forced, cmdVars, clientVars>>

\* Mutant of GraceElapsed: no timer, the copies are waited for however long they take.
GraceNever ==
    /\ waiter = "drain"
    /\ AllCopied
    /\ waiter' = "closeIO"
    /\ UNCHANGED <<processVars, copied, chunk, ring, copyDone, pipesOpen, forced, cmdVars, clientVars>>

GraceElapsed ==
    /\ waiter = "drain"
    /\ waiter' = "closeIO"
    /\ forced' = ~AllCopied
    /\ UNCHANGED <<processVars, copied, chunk, ring, copyDone, pipesOpen, cmdVars, clientVars>>

CloseIO ==
    /\ waiter = "closeIO"
    /\ pipesOpen' = FALSE
    /\ waiter' = "drained"
    /\ UNCHANGED <<processVars, copied, chunk, ring, copyDone, forced, cmdVars, clientVars>>

\* Mutant of Publish: the second <-drained is missing.
PublishEarly ==
    /\ waiter = "drained"
    /\ waiter' = "done"
    /\ UNCHANGED <<processVars, copied, chunk, ring, copyDone, pipesOpen, forced, cmdVars, clientVars>>

\* <-drained, then exitCode and finished under the lock and close(rec.done).
Publish ==
    /\ waiter = "drained"
    /\ AllCopied
    /\ waiter' = "done"
    /\ UNCHANGED <<processVars, copied, chunk, ring, copyDone, pipesOpen, forced, cmdVars, clientVars>>

-----------------------------------------------------------------------------
(* command.exec, command.read. *)

\* rec.Wait returns: the process is done, or the clamped timeout elapsed.
CmdWait(late) ==
    /\ \A s \in Streams : cmd[s] = "wait"
    /\ late \/ waiter = "done"
    /\ cmd' = [s \in Streams |-> "read"]
    /\ timedOut' = late
    /\ UNCHANGED <<processVars, captureVars, cmdPage, truncated, clientVars>>

\* ReadFrom on each stream.
CmdRead(s) ==
    /\ cmd[s] = "read"
    /\ cmdPage' = [cmdPage EXCEPT ![s] = ReadFrom(ring[s], 0, MaxOut)]
    /\ cmd' = [cmd EXCEPT ![s] = "len"]
    /\ UNCHANGED <<processVars, captureVars, timedOut, truncated, clientVars>>

\* Mutant of CmdLen: an off-by-one in the truncation test.
CmdLenOffByOne(s) ==
    /\ \A t \in Streams : cmd[t] \in {"len", "done"}
    /\ cmd[s] = "len"
    /\ truncated' = [truncated EXCEPT ![s] = cmdPage[s].next + 1 < RingLen(ring[s])]
    /\ cmd' = [cmd EXCEPT ![s] = "done"]
    /\ UNCHANGED <<processVars, captureVars, timedOut, cmdPage, clientVars>>

\* The result is put together: the next offset is compared with the buffer's Len.
CmdLen(s) ==
    /\ \A t \in Streams : cmd[t] \in {"len", "done"}
    /\ cmd[s] = "len"
    /\ truncated' = [truncated EXCEPT ![s] = cmdPage[s].next < RingLen(ring[s])]
    /\ cmd' = [cmd EXCEPT ![s] = "done"]
    /\ UNCHANGED <<processVars, captureVars, timedOut, cmdPage, clientVars>>

-----------------------------------------------------------------------------
(* process.read. *)

clampMaxBytes(n) == IF n <= 0 \/ n > MaxOut THEN MaxOut ELSE n

\* string(data) on the wire: json.Marshal replaces each byte of a character that is not whole.
JsonText(data) ==
    [i \in 1 .. Len(data) |->
        IF \/ data[i][2] = "h" /\ (i = Len(data) \/ data[i + 1][2] # "t")
           \/ data[i][2] = "t" /\ (i = 1 \/ data[i - 1][2] # "h")
        THEN Replacement ELSE data[i]]

\* A process.read reads from the buffer of s.
ReadPage(s, n) ==
    LET p == ReadFrom(ring[s], off[s], clampMaxBytes(n)) IN
    /\ off' = [off EXCEPT ![s] = p.next]
    /\ seen' = [seen EXCEPT ![s] = @ \o JsonText(p.data)]
    /\ skipped' = [skipped EXCEPT ![s] = @ \/ p.truncatedBefore]
    /\ sawEnd' = [sawEnd EXCEPT ![s] = @ \/ (sawExit /\ p.data = <<>>)]
    /\ UNCHANGED <<processVars, captureVars, cmdVars, sawExit>>

\* It reads the exit code afterwards: the process may have ended since.
ReadExit ==
    /\ waiter = "done"
    /\ ~sawExit
    /\ sawExit' = TRUE
    /\ UNCHANGED <<processVars, captureVars, cmdVars, off, seen, skipped, sawEnd>>

-----------------------------------------------------------------------------
CaptureStep ==
    \/ \E s \in Streams : CopyRead(s) \/ CopyWrite(s) \/ CopyEnd(s)
    \/ Reap \/ Drained \/ GraceElapsed \/ CloseIO \/ Publish

Next ==
    \/ \E s \in Streams : Produce(s)
    \/ Fork \/ LeaderExit \/ KidsExit
    \/ CaptureStep
    \/ \E late \in BOOLEAN : CmdWait(late)
    \/ \E s \in Streams : CmdRead(s) \/ CmdLen(s)
    \/ \E s \in Streams, n \in PageSizes : ReadPage(s, n)
    \/ ReadExit

Spec == Init /\ [][Next]_vars

\* The Agent's goroutines and its grace timer run; the process need not do anything.
Fairness ==
    /\ \A s \in Streams : WF_vars(CopyRead(s) \/ CopyWrite(s) \/ CopyEnd(s))
    /\ WF_vars(Reap \/ Drained \/ CloseIO \/ Publish)
    /\ WF_vars(GraceElapsed)

FairSpec == Spec /\ Fairness

-----------------------------------------------------------------------------
(* Properties. *)

\* The ring buffer holds the end of what was written into it, at the right offsets, and no
\* more than its capacity: the buffer of s is the tail of the first copied bytes.
RingIsTail ==
    \A s \in Streams :
        LET total == copied[s] - Len(chunk[s]) IN
        /\ RingLen(ring[s]) = total
        /\ ring[s].buf = SubSeq(stream[s], ring[s].start + 1, total)
        /\ Len(ring[s].buf) <= Cap

\* processmgr.go:146: "exitCode/done must never precede full Stdout/Stderr capture".  Once
\* done is closed the buffers hold the whole output, unless the grace period elapsed.
DoneMeansCaptured ==
    waiter = "done" =>
        \A s \in Streams :
            /\ chunk[s] = <<>>
            /\ ~forced => RingLen(ring[s]) = Len(stream[s])

\* A client that pages with the returned offsets until an empty page after the exit code,
\* without a page flagged truncated_before, has the whole text.
PagingComplete ==
    \A s \in Streams : sawEnd[s] /\ ~skipped[s] /\ ~forced => seen[s] = stream[s]

\* handlers_command.go:41: the flags are "the caller's only signal that output beyond the
\* cap was discarded".  A command that ended and whose response lacks some of its output
\* says so.
TruncationSignalled ==
    \A s \in Streams :
        cmd[s] = "done" /\ ~timedOut /\ ~forced /\ cmdPage[s].data # stream[s] => truncated[s]

\* A process whose leader exited is reported done, even while a descendant keeps the pipes
\* open.
ExitIsPublished == leader = "exited" ~> waiter = "done"
=============================================================================
