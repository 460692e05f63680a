----------------------------- MODULE SelfUpdate -----------------------------
(***************************************************************************)
(* internal/selfupdate: the goroutine that looks at the latest GitHub      *)
(* release, downloads and verifies its archive, replaces the binary of the *)
(* running Agent and re-executes it; around it the publisher, who uploads  *)
(* assets and marks releases as latest at any time (external), the stop    *)
(* and the crash of the Agent, and systemd, which starts it again.         *)
(***************************************************************************)
EXTENDS Integers, FiniteSets

CONSTANTS
    Nums,           \* versions; 0 is version.DevVersion
    Archs,          \* the architectures of the release archives
    GoArch,         \* runtime.GOARCH
    Enabled,        \* AUTO_UPDATE_ENABLED
    MaxBuild,       \* bound on the uploads of one asset
    MaxFaults       \* bound on failures of network and disk, and on crashes

ASSUME SelfUpdateAssumption ==
    /\ Nums \subseteq Nat /\ 1 \in Nums
    /\ Archs \subseteq {"amd64", "arm64"}
    /\ Enabled \in BOOLEAN
    /\ MaxBuild \in Nat \ {0} /\ MaxFaults \in Nat

Dev == 0
Checksums == "checksums"
AssetNames == Archs \cup {Checksums}

\* A build of the Agent, and the archive that holds it.
Binaries == [num : Nums, build : 1 .. MaxBuild, arch : Archs \cup {GoArch}]

Garbage == [num |-> Dev, build |-> 0, arch |-> "none"]

VARIABLES
    assets,         \* assets[n][a]: the build of asset a that release n has, 0: it has none
    latest,         \* the release the "latest" endpoint answers
    proc,           \* the Agent: up, stopping (ctx is done) or down
    running,        \* the binary it was started from
    pc,             \* where the check goroutine is
    rel,            \* the number of the release it works on
    archive,        \* archiveData
    sums,           \* the build checksumsData was made for, 0: it is damaged
    tmp,            \* the temp file: none, empty, data, exec (complete and executable)
    dest,           \* the file at destPath
    faults          \* faults so far

checkVars == <<pc, rel, archive, sums>>
vars == <<assets, latest, proc, running, checkVars, tmp, dest, faults>>

Steps == {"off", "idle", "check", "archive", "sums", "verify", "create", "write", "close",
          "chmod", "rename", "exec"}

\* The shapes of the state of the check goroutine and of the files it works on.
TypeOK ==
    /\ assets \in [Nums \ {Dev} -> [AssetNames -> 0 .. MaxBuild]]
    /\ latest \in Nums \ {Dev}
    /\ proc \in {"up", "stopping", "down"}
    /\ running \in Binaries
    /\ pc \in Steps
    /\ rel \in Nums \cup {Dev}
    /\ archive \in Binaries \cup {Garbage}
    /\ sums \in 0 .. MaxBuild
    /\ tmp \in {"none", "empty", "data", "exec"}
    /\ dest \in Binaries \cup {Garbage}
    /\ faults \in 0 .. MaxFaults

\* Start's guard: a disabled checker and an unreleased build do nothing; otherwise the first
\* check comes at once.
Start(b) == IF Enabled /\ b.num # Dev THEN "check" ELSE "off"

\* Release 1 is complete; the operator installed it, or a build of his own.
Init ==
    /\ assets = [n \in Nums \ {Dev} |-> [a \in AssetNames |-> IF n = 1 THEN 1 ELSE 0]]
    /\ latest = 1
    /\ proc = "up"
    /\ running \in [num : {Dev, 1} \cap Nums, build : {1}, arch : {GoArch}]
    /\ pc = Start(running)
    /\ rel = Dev
    /\ archive = Garbage
    /\ sums = 0
    /\ tmp = "none"
    /\ dest = running
    /\ faults = 0

-----------------------------------------------------------------------------
(* The publisher. *)

\* An asset is uploaded, or replaced by that of a later build.
Upload(n, a) ==
    /\ assets[n][a] < MaxBuild
    /\ assets' = [assets EXCEPT ![n][a] = @ + 1]
    /\ UNCHANGED <<latest, proc, running, checkVars, tmp, dest, faults>>

\* Another release becomes the latest one, also an older one.
MarkLatest(n) ==
    /\ latest' = n
    /\ n # latest
    /\ UNCHANGED <<assets, proc, running, checkVars, tmp, dest, faults>>

Publisher == \E n \in Nums \ {Dev} : MarkLatest(n) \/ \E a \in AssetNames : Upload(n, a)

-----------------------------------------------------------------------------
(* checkOnce. *)

Fault == faults < MaxFaults /\ faults' = faults + 1

At(s) == proc # "down" /\ pc = s

\* checkOnce returns, with an error that is only logged or without one: the next tick.
Return ==
    /\ pc' = "idle"
    /\ rel' = Dev
    /\ archive' = Garbage
    /\ sums' = 0

\* The ticker, or ctx is done and the goroutine is over; the select may take either.
Tick ==
    /\ At("idle")
    /\ pc' \in IF proc = "up" THEN {"check"} ELSE {"check", "off"}
    /\ UNCHANGED <<assets, latest, proc, running, rel, archive, sums, tmp, dest, faults>>

\* Mutant of updateNeeded: the tag is compared with its "v", so every release differs.
updateAlways(current, tag) == TRUE

\* Any other version is installed, whether newer or older.
updateNeeded(current, tag) == current # tag

\* fetchLatestRelease, and the choice of the two assets among those the release has.
FetchLatestRelease ==
    /\ At("check")
    /\ proc = "up"
    /\ IF /\ updateNeeded(running.num, latest)
          /\ GoArch \in Archs /\ assets[latest][GoArch] # 0
          /\ assets[latest][Checksums] # 0
       THEN /\ rel' = latest
            /\ pc' = "archive"
            /\ UNCHANGED <<archive, sums>>
       ELSE Return
    /\ UNCHANGED <<assets, latest, proc, running, tmp, dest, faults>>

\* downloadAsset: the asset as it is now, or damaged on the way.
DownloadArchive ==
    /\ At("archive")
    /\ proc = "up"
    /\ \/ /\ archive' = [num |-> rel, build |-> assets[rel][GoArch], arch |-> GoArch]
          /\ UNCHANGED faults
       \/ archive' = Garbage /\ Fault
    /\ pc' = "sums"
    /\ UNCHANGED <<assets, latest, proc, running, rel, sums, tmp, dest>>

DownloadChecksums ==
    /\ At("sums")
    /\ proc = "up"
    /\ \/ sums' = assets[rel][Checksums] /\ UNCHANGED faults
       \/ sums' = 0 /\ Fault
    /\ pc' = "verify"
    /\ UNCHANGED <<assets, latest, proc, running, rel, archive, tmp, dest>>

\* A request fails: an error, another status than 200, too large; it does if ctx is done.
RequestErr ==
    /\ \E s \in {"check", "archive", "sums"} : At(s)
    /\ \/ proc = "stopping" /\ UNCHANGED faults
       \/ proc = "up" /\ Fault
    /\ Return
    /\ UNCHANGED <<assets, latest, proc, running, tmp, dest>>

\* Mutant of verifySHA256: an archive without an entry passes.
verifyListed(a, s) == s = 0 \/ a.build = s

\* The archive's digest is the one the checksums have for it.
verifySHA256(a, s) == a # Garbage /\ s # 0 /\ a.build = s

\* verifySHA256, extractBinary, executablePath.
Verify ==
    /\ At("verify")
    /\ IF verifySHA256(archive, sums) THEN pc' = "create" /\ UNCHANGED <<rel, archive, sums>>
                                      ELSE Return
    /\ UNCHANGED <<assets, latest, proc, running, tmp, dest, faults>>

\* The archive has no such file, or the path is unknown.
VerifyErr ==
    /\ At("verify")
    /\ Fault
    /\ Return
    /\ UNCHANGED <<assets, latest, proc, running, tmp, dest>>

-----------------------------------------------------------------------------
(* replaceBinary and execSelf: ctx is not looked at any more. *)

\* A step that succeeds turns the temp file into what it is in state t.
Advance(from, to, t) ==
    /\ At(from)
    /\ pc' = to
    /\ tmp' = t
    /\ UNCHANGED <<assets, latest, proc, running, rel, archive, sums, dest, faults>>

CreateTemp == Advance("create", "write", "empty")
WriteTemp == Advance("write", "close", "data")
CloseTemp == Advance("close", "chmod", "data")
Chmod == Advance("chmod", "rename", "exec")

\* os.Rename over destPath; the deferred Remove then finds nothing.
Rename ==
    /\ At("rename")
    /\ dest' = IF tmp = "exec" THEN archive ELSE Garbage
    /\ tmp' = "none"
    /\ pc' = "exec"
    /\ UNCHANGED <<assets, latest, proc, running, rel, archive, sums, faults>>

\* One of the steps fails, and the deferred Remove takes the temp file away.
ReplaceErr ==
    /\ \E s \in {"create", "write", "close", "chmod", "rename"} : At(s)
    /\ Fault
    /\ tmp' = "none"
    /\ Return
    /\ UNCHANGED <<assets, latest, proc, running, dest>>

\* The image of a process becomes that of dest, and main begins.
Boot ==
    /\ dest # Garbage
    /\ proc' = "up"
    /\ running' = dest
    /\ pc' = Start(dest)
    /\ rel' = Dev
    /\ archive' = Garbage
    /\ sums' = 0

\* execSelf: the same process, with a new ctx.
ExecSelf ==
    /\ At("exec")
    /\ Boot
    /\ UNCHANGED <<assets, latest, tmp, dest, faults>>

\* It fails: the next check sees the same update again.
ExecSelfErr ==
    /\ At("exec")
    /\ Fault
    /\ Return
    /\ UNCHANGED <<assets, latest, proc, running, tmp, dest>>

CheckStep ==
    \/ Tick
    \/ FetchLatestRelease \/ DownloadArchive \/ DownloadChecksums \/ RequestErr
    \/ Verify \/ VerifyErr
    \/ CreateTemp \/ WriteTemp \/ CloseTemp \/ Chmod \/ Rename \/ ReplaceErr
    \/ ExecSelf \/ ExecSelfErr

-----------------------------------------------------------------------------
(* The life of the Agent. *)

\* SIGTERM or SIGINT.
Stop ==
    /\ proc = "up"
    /\ proc' = "stopping"
    /\ UNCHANGED <<assets, latest, running, checkVars, tmp, dest, faults>>

\* The process ends, wherever its goroutines are; its temp file, if there is one, stays on
\* disk under a name that nobody looks at again.
Gone ==
    /\ proc' = "down"
    /\ pc' = "off"
    /\ rel' = Dev
    /\ archive' = Garbage
    /\ sums' = 0
    /\ tmp' = "none"
    /\ UNCHANGED <<assets, latest, running, dest>>

Exit ==
    /\ proc = "stopping"
    /\ Gone
    /\ UNCHANGED faults

Crash ==
    /\ proc # "down"
    /\ Fault
    /\ Gone

\* systemd or the operator starts the Agent.
Launch ==
    /\ proc = "down"
    /\ Boot
    /\ UNCHANGED <<assets, latest, tmp, dest, faults>>

Next == Publisher \/ CheckStep \/ Stop \/ Exit \/ Crash \/ Launch

Spec == Init /\ [][Next]_vars

\* The goroutine runs and its ticker fires; every request has a timeout (httpTimeout), so it
\* returns.  Nothing is assumed of the publisher, of stops and of starts.
FairSpec == Spec /\ WF_vars(CheckStep)

-----------------------------------------------------------------------------
(* Properties. *)

\* What the publisher offered for this machine so far, and the operator's own build of a version
\* the publisher does not build for it.
Offered ==
    {b \in Binaries :
        /\ b.arch = GoArch
        /\ b.build <= IF b.num = Dev \/ GoArch \notin Archs THEN 1 ELSE assets[b.num][GoArch]}

Abstract == INSTANCE AtomicUpdate WITH offered <- Offered

\* replaceBinary "atomically overwrites destPath" (apply.go:53) and only verified archives get
\* that far: whatever fails, crashes, stops or is published meanwhile, destPath holds a whole
\* binary that was offered for this architecture, and that is what a start or re-exec runs.
ImplementsAtomicUpdate == Abstract!Spec

\* Release n is the latest and has an archive and checksums of one build.
Complete(n) ==
    /\ latest = n
    /\ assets[n][GoArch] = assets[n][Checksums]
    /\ assets[n][GoArch] # 0

\* An Agent that stays up while the publisher leaves a complete release as the latest one ends
\* up running that version, and re-executes itself no more.
Settles ==
    \A n \in Nums \ {Dev} :
        <>[](proc = "up" /\ Complete(n))
            => <>[](pc = "off" \/ (running.num = n /\ pc \in {"idle", "check"}))
=============================================================================
