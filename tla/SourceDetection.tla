---------------------------- MODULE SourceDetection ----------------------------
(***************************************************************************)
(* Whether an agent's data can be read on this machine                     *)
(* (internal/source/detect.go, source/catalog, and the Detect of each      *)
(* source), and which files the commands that read sessions then open.     *)
(***************************************************************************)
EXTENDS Integers, Sequences, SequencesExt, TLC

CONSTANTS
    InstallPaths, SessionPaths, \* each a sequence of paths, fixed by the platform
    OtherPath,                  \* a path that only an override names
    TranscriptFiles,            \* the files that a path may have below it, see FilesAssumption
    SearchDepth,                \* how many directories down detection looks (4)
    MachineChanges              \* bound

\* No platform searches the path of an override.
ASSUME PathsAssumption ==
    /\ InstallPaths \in Seq(STRING) /\ SessionPaths \in Seq(STRING)
    /\ OtherPath \in STRING \ {""}
    /\ OtherPath \notin ToSet(InstallPaths) \cup ToSet(SessionPaths)

\* A file lies so many directories below the path, and its extension is spelled in
\* small letters (".jsonl") or otherwise (".JSONL").
ASSUME FilesAssumption ==
    /\ SearchDepth \in Nat
    /\ TranscriptFiles \subseteq [depth : Nat, spelled : {"small", "otherwise"}]

VARIABLE machine    \* the paths, and the locations given in the configuration and the command

Paths == ToSet(InstallPaths) \cup ToSet(SessionPaths) \cup {OtherPath}

\* What is not a directory that can be read has no files that anybody finds.
NoFiles(kind) == [kind |-> kind, files |-> {}]
PathStates ==
    {NoFiles(kind) : kind \in {"missing", "not_directory", "unreadable"}}
    \cup [kind : {"directory"}, files : SUBSET TranscriptFiles]

Endpoints == {"", "remote", "silent", "stranger", "identified"}

\* The endpoint that is asked unless one is given, and whether a binary is on the path.
DetectionInit ==
    machine = [paths |-> [p \in Paths |-> NoFiles("missing")], binary |-> FALSE, endpoint |-> "silent",
               config |-> "", cli |-> "", changes |-> 0]

Change(field, value) ==
    /\ machine.changes < MachineChanges
    /\ machine' = [machine EXCEPT ![field] = value, !.changes = @ + 1]

DetectionNext ==
    \/ \E p \in Paths, s \in PathStates : Change("paths", [machine.paths EXCEPT ![p] = s])
    \/ Change("binary", ~machine.binary)
    \/ \E e \in Endpoints : Change("endpoint", e)
    \/ \E p \in {"", OtherPath}, field \in {"config", "cli"} : Change(field, p)

DetectionSpec == DetectionInit /\ [][DetectionNext]_machine

------------------------------------------------------------------------------
Detection(status, origin, location) ==
    [status |-> status, origin |-> origin, location |-> location]

\* checkPath.
PathState(p) ==
    CASE machine.paths[p].kind = "missing" -> "missing"
      [] machine.paths[p].kind \in {"not_directory", "unreadable"} -> "broken"
      [] machine.paths[p].kind = "directory" -> "usable"

\* Mutant: the directories at the depth that is searched are left out.
HasSessionDataAbove(p) == \E f \in machine.paths[p].files : f.depth < SearchDepth

\* hasClaudeSessionData, hasCodexSessionData: the name is compared in small letters.
HasSessionData(p) == \E f \in machine.paths[p].files : f.depth <= SearchDepth

\* A path that was asked for must be there; DetectConfiguredPath, and DetectPath.
DetectConfiguredPath(p, origin) ==
    Detection(CASE PathState(p) # "usable" -> "broken"
                [] PathState(p) = "usable" /\ HasSessionData(p) -> "ready"
                [] OTHER -> "installed",
              origin, p)

\* The first session path that is not merely without data decides; install paths and
\* binaries only tell whether the agent is there at all.
DetectAutoPathSource(install, sessions) ==
    LET decides(p) == PathState(p) = "broken" \/ (PathState(p) = "usable" /\ HasSessionData(p))
        first == SelectInSeq(sessions, decides)
        upTo == IF first = 0 THEN Len(sessions) ELSE first
        tried == {i \in 1..upTo : PathState(sessions[i]) # "missing"}
        location == IF tried = {} THEN "" ELSE sessions[Max(tried)]
        found(state) == \E p \in ToSet(install) : PathState(p) = state
    IN  CASE first # 0 -> Detection(IF PathState(sessions[first]) = "broken" THEN "broken"
                                    ELSE "ready", "auto", location)
          [] first = 0 /\ (tried # {} \/ machine.binary \/ found("usable")) ->
               Detection("installed", "auto", location)
          [] first = 0 /\ tried = {} /\ ~machine.binary /\ ~found("usable") /\ found("broken") ->
               Detection("broken", "auto", location)
          [] OTHER -> Detection("unavailable", "none", location)

\* resolveOverride: the command's location goes before the configuration's.
Override ==
    CASE machine.cli # "" -> [path |-> machine.cli, origin |-> "cli"]
      [] machine.cli = "" /\ machine.config # "" -> [path |-> machine.config, origin |-> "config"]
      [] OTHER -> [path |-> "", origin |-> "auto"]

\* Detect of Claude Code and of Codex.
DetectAgent ==
    IF Override.path # "" THEN DetectConfiguredPath(Override.path, Override.origin)
    ELSE DetectAutoPathSource(InstallPaths, SessionPaths)

\* Only a loopback endpoint is asked, once, and what answers must say who it is.
ProbeEndpoint(endpoint, origin) ==
    CASE endpoint = "" -> Detection("unavailable", "none", "")
      [] endpoint = "remote" -> Detection("broken", origin, "")
      [] endpoint = "silent" -> Detection("unavailable", origin, "")
      [] endpoint = "identified" -> Detection("ready", origin, "")
      [] OTHER -> Detection("installed", origin, "")

\* Detect of 9Router, which has no data to read: without an answer that settles it, an
\* installation is looked for.
DetectRouter(override) ==
    LET probed == ProbeEndpoint(IF override # "" THEN override ELSE machine.endpoint,
                                IF override # "" THEN "config" ELSE "auto")
        installed == DetectAutoPathSource(InstallPaths, <<>>)
    IN  IF override # "" \/ probed.status \in {"ready", "broken"} \/ installed.status # "installed"
        THEN probed ELSE installed

\* collectSessionFiles walks the platform's paths, to any depth and whatever location
\* was configured, and compares the extension as it is spelled.
SessionFilesIn(p) == {f \in machine.paths[p].files : f.spelled = "small"}

------------------------------------------------------------------------------
(* Properties. *)

\* How far what detection says of an agent that it finds by itself agrees with the files
\* that the commands then read (DetectAutoPathSource, collectSessionFiles).  "Ready"
\* names a path of the platform's with a transcript in reach of the search, which is not
\* to say that it is read: it may be spelled otherwise.  A file that is read, on whichever
\* of the paths, makes the agent ready; or it lies deeper than the search goes, and the
\* agent is installed or a path is broken; or a path before it is broken.  Without a
\* trace of the agent all depends on the binary.  A path that was asked for is the one
\* that is reported, and 9Router, with nothing to read, is ready only by its answer.
DetectedIsRead ==
    LET found == DetectAgent
        broken(j) == machine.paths[SessionPaths[j]].kind \in {"not_directory", "unreadable"}
    IN  /\ Override.path = "" =>
             /\ found.status = "ready" =>
                  /\ found.location \in ToSet(SessionPaths)
                  /\ \E f \in machine.paths[found.location].files : f.depth <= SearchDepth
             /\ \A i \in DOMAIN SessionPaths : \A f \in SessionFilesIn(SessionPaths[i]) :
                  \/ found.status = "ready"
                  \/ found.status = "installed" /\ f.depth > SearchDepth
                  \/ found.status = "broken" /\ \E j \in DOMAIN SessionPaths :
                        broken(j) /\ (j < i \/ f.depth > SearchDepth)
             /\ (\A p \in Paths \ {OtherPath} : machine.paths[p].kind = "missing") =>
                  found.status = IF machine.binary THEN "installed" ELSE "unavailable"
        /\ Override.path # "" => found.status # "unavailable" /\ found.location = Override.path
        /\ DetectRouter("").status = "ready" => machine.endpoint = "identified"
===============================================================================
