---------------------------- MODULE InstanceLock ----------------------------
(***************************************************************************)
(* The single-instance lock file of a data directory                      *)
(* (runtime/instanceLock.ts).  The calls of acquireInstanceLock are        *)
(* synchronous in their own process, but each of them is one system call   *)
(* and other processes run between two of them, so every call is a step.   *)
(*                                                                         *)
(* A process is identified by its pid; it may be killed between any two    *)
(* calls, and the operating system may give its pid to a later process.    *)
(***************************************************************************)
EXTENDS Naturals

CONSTANTS Pids,      \* the pids of the SmartBot processes
          NoFile,    \* there is no lock file
          NoPid      \* the file holds no pid that can be read

VARIABLES lockFile,  \* NoFile, or the file: who created it, the pid written in it
          phase,     \* where each process is in acquire or release
          attempt,   \* the pass of the acquisition loop it is in
          owner      \* the pid it read from the file

vars == <<lockFile, phase, attempt, owner>>

Attempts == 2        \* the loop tries exclusive creation twice

Phases == {"dead", "idle", "create", "write", "read", "probe", "unlink",
           "held", "checkOwner", "remove"}

TypeOK ==
  /\ lockFile \in [maker : Pids, pid : Pids \cup {NoPid}] \cup {NoFile}
  /\ phase \in [Pids -> Phases]
  /\ attempt \in [Pids -> 0..Attempts]
  /\ owner \in [Pids -> Pids \cup {NoPid}]

Init ==
  /\ lockFile = NoFile
  /\ phase = [p \in Pids |-> "dead"]
  /\ attempt = [p \in Pids |-> 0]
  /\ owner = [p \in Pids |-> NoPid]

-----------------------------------------------------------------------------
Goto(p, place) == phase' = [phase EXCEPT ![p] = place]

\* What readLockPid returns: an absent file and text that is not a pid are the same.
ReadPid == IF lockFile = NoFile THEN NoPid ELSE lockFile.pid

\* process.kill(pid, 0) succeeds.
Alive(p) == phase[p] # "dead"

Spawn(p) ==
  /\ phase[p] = "dead"
  /\ Goto(p, "idle")
  /\ UNCHANGED <<lockFile, attempt, owner>>

\* The process is killed: nothing releases the file.
Die(p) ==
  /\ Alive(p)
  /\ Goto(p, "dead")
  /\ UNCHANGED <<lockFile, attempt, owner>>

Acquire(p) ==
  /\ phase[p] = "idle"
  /\ Goto(p, "create")
  /\ attempt' = [attempt EXCEPT ![p] = 0]
  /\ UNCHANGED <<lockFile, owner>>

\* openSync(path, "wx"): creates an empty file, or fails with EEXIST.
CreateExclusive(p) ==
  /\ phase[p] = "create"
  /\ attempt[p] < Attempts
  /\ attempt' = [attempt EXCEPT ![p] = @ + 1]
  /\ \/ /\ lockFile = NoFile
        /\ lockFile' = [maker |-> p, pid |-> NoPid]
        /\ Goto(p, "write")
     \/ /\ lockFile # NoFile
        /\ UNCHANGED lockFile
        /\ Goto(p, "read")
  /\ UNCHANGED owner

\* writeFileSync(fd, ...): to the file this process opened, which another
\* process may have unlinked since.
WritePid(p) ==
  /\ phase[p] = "write"
  /\ lockFile' = IF lockFile # NoFile /\ lockFile.maker = p
                   THEN [lockFile EXCEPT !.pid = p] ELSE lockFile
  /\ Goto(p, "held")
  /\ UNCHANGED <<attempt, owner>>

ReadOwner(p) ==
  /\ phase[p] = "read"
  /\ owner' = [owner EXCEPT ![p] = ReadPid]
  /\ Goto(p, IF ReadPid = NoPid THEN "unlink" ELSE "probe")
  /\ UNCHANGED <<lockFile, attempt>>

\* "another SmartBot instance is already running", or a stale pid.
ProbeOwner(p) ==
  /\ phase[p] = "probe"
  /\ Goto(p, IF Alive(owner[p]) THEN "idle" ELSE "unlink")
  /\ UNCHANGED <<lockFile, attempt, owner>>

Reclaim(p) ==
  /\ phase[p] = "unlink"
  /\ lockFile' = NoFile
  /\ Goto(p, "create")
  /\ UNCHANGED <<attempt, owner>>

\* "could not acquire SmartBot instance lock"
GiveUp(p) ==
  /\ phase[p] = "create"
  /\ attempt[p] = Attempts
  /\ Goto(p, "idle")
  /\ UNCHANGED <<lockFile, attempt, owner>>

Release(p) ==
  /\ phase[p] = "held"
  /\ Goto(p, "checkOwner")
  /\ UNCHANGED <<lockFile, attempt, owner>>

ReleaseRead(p) ==
  /\ phase[p] = "checkOwner"
  /\ Goto(p, IF ReadPid = p THEN "remove" ELSE "idle")
  /\ UNCHANGED <<lockFile, attempt, owner>>

ReleaseUnlink(p) ==
  /\ phase[p] = "remove"
  /\ lockFile' = NoFile
  /\ Goto(p, "idle")
  /\ UNCHANGED <<attempt, owner>>

Next ==
  \E p \in Pids :
    \/ Spawn(p) \/ Die(p) \/ Acquire(p) \/ CreateExclusive(p) \/ WritePid(p)
    \/ ReadOwner(p) \/ ProbeOwner(p) \/ Reclaim(p) \/ GiveUp(p)
    \/ Release(p) \/ ReleaseRead(p) \/ ReleaseUnlink(p)

Spec == Init /\ [][Next]_vars

-----------------------------------------------------------------------------
\* At most one live process holds the data directory: the comment over
\* acquireInstanceLock says that simultaneous starts race safely and exactly
\* one process wins.
OneInstance ==
  \A p, q \in Pids : phase[p] = "held" /\ phase[q] = "held" => p = q
=============================================================================
