----------------------------- MODULE SocketPath ------------------------------
(***************************************************************************)
(* The file of one POSIX endpoint, which several processes bind, clean up  *)
(* and release: bindInternal, removeStalePosixEndpoint, unlinkOwnedSocket  *)
(* and closeInternal of transport/local-ipc.ts as far as they touch the    *)
(* file system.  Every call of fs is an action.                            *)
(*                                                                         *)
(* Files are numbered as they appear; the identity of a socket file is its *)
(* number, for dev, ino and birthtimeMs, and how often it has been         *)
(* renamed, for ctimeMs.  A process that crashes leaves its file.  Node    *)
(* unlinks the path of a listener that closes, whatever file is there.     *)
(* bind(2) and listen(2), which follow each other in one call of node, are *)
(* one step.                                                               *)
(***************************************************************************)
EXTENDS Naturals, FiniteSets

CONSTANTS Procs,        \* the processes
          MaxFiles,     \* bound: the socket files
          MaxPathBinds  \* bound: the binds of all processes

ASSUME SocketPathAssumption ==
    /\ IsFiniteSet(Procs)
    /\ MaxFiles \in Nat \ {0}
    /\ MaxPathBinds \in Nat

NoFile == 0
Sockets == 1 .. MaxFiles
PlainFile == MaxFiles + 1       \* a file that is not a socket

VARIABLES
    pc,          \* what each process does next
    task,        \* the operation that it does: "bind" or "close"
    inode,       \* the file its listener has made, while it listens
    expected,    \* the identity that it has seen: observed and ownedEndpoint.identity
    pathBinds,   \* how often processes bound the path
    endpoint,    \* the file at the endpoint
    quarantine,  \* the file each process has moved to its quarantine
    abandoned,   \* the files that stay in the quarantines of the past
    renames,     \* how often each file was renamed
    files,       \* how many socket files there have been
    raced        \* history: a cleanup left a listener in its quarantine, or a file came
                 \* to the path in its midst

fsVars == <<endpoint, quarantine, abandoned, renames, files>>
pathVars == <<pc, task, inode, expected, pathBinds, fsVars, raced>>

Identity(f) == [file |-> f, ctime |-> IF f \in Sockets THEN renames[f] ELSE 0]
NoIdentity == [file |-> NoFile, ctime |-> 0]

\* A connection to the path of f is accepted.
Live(f) == f # NoFile /\ \E p \in Procs : inode[p] = f

\* At first the path is free, or has the socket of a process that is gone, or
\* some other file.
PathInit ==
    /\ pc = [p \in Procs |-> "idle"]
    /\ task = [p \in Procs |-> "bind"]
    /\ inode = [p \in Procs |-> NoFile]
    /\ expected = [p \in Procs |-> NoIdentity]
    /\ pathBinds = 0
    /\ endpoint \in {NoFile, 1, PlainFile}
    /\ quarantine = [p \in Procs |-> NoFile]
    /\ abandoned = {}
    /\ renames = [f \in Sockets |-> 0]
    /\ files = 1
    /\ raced = FALSE

-----------------------------------------------------------------------------
(* Steps shared by the operations. *)

Goes(p, to) == pc' = [pc EXCEPT ![p] = to]

\* The operation is over.  What is in the quarantine stays there: its name is
\* random, and no later operation knows it.
Ends(p) ==
    /\ Goes(p, "idle")
    /\ abandoned' = abandoned \cup ({quarantine[p]} \ {NoFile})
    /\ quarantine' = [quarantine EXCEPT ![p] = NoFile]

\* The path gets a file while a live listener is in another's quarantine, or
\* another's restore is about to rename onto it.
Interferes(p) ==
    \E q \in Procs \ {p} : Live(quarantine[q]) \/ pc[q] = "replacing"

\* listenServer on a path that is free.
ListensAt(p) ==
    /\ endpoint = NoFile
    /\ files < MaxFiles
    /\ files' = files + 1
    /\ endpoint' = files + 1
    /\ inode' = [inode EXCEPT ![p] = files + 1]
    /\ raced' = (raced \/ Interferes(p))
    /\ Goes(p, "publishing")

\* closeServer of a listener.
StopsListening(p) ==
    /\ inode' = [inode EXCEPT ![p] = NoFile]
    /\ endpoint' = NoFile

-----------------------------------------------------------------------------
(* bind. *)

\* listen; an address in use leads to the cleanup.
BindPath(p) ==
    /\ pc[p] = "idle"
    /\ pathBinds < MaxPathBinds
    /\ pathBinds' = pathBinds + 1
    /\ task' = [task EXCEPT ![p] = "bind"]
    /\ \/ ListensAt(p)
       \/ /\ endpoint # NoFile
          /\ Goes(p, "observing")
          /\ UNCHANGED <<inode, endpoint, files, raced>>
    /\ UNCHANGED <<expected, quarantine, abandoned, renames>>

\* publish: the bind resolves with the identity of what is at the path, or the
\* path has disappeared.
PublishPath(p) ==
    /\ pc[p] = "publishing"
    /\ \/ /\ endpoint \in Sockets
          /\ expected' = [expected EXCEPT ![p] = Identity(endpoint)]
          /\ Goes(p, "bound")
          /\ UNCHANGED <<inode, endpoint>>
       \/ /\ endpoint \notin Sockets
          /\ StopsListening(p)
          /\ Goes(p, "idle")
          /\ UNCHANGED expected
    /\ UNCHANGED <<task, pathBinds, quarantine, abandoned, renames, files, raced>>

\* removeStalePosixEndpoint looks at the path: only sockets are cleaned up.
Observe(p) ==
    /\ pc[p] = "observing"
    /\ \/ /\ endpoint \in Sockets
          /\ expected' = [expected EXCEPT ![p] = Identity(endpoint)]
          /\ Goes(p, "probing")
       \/ /\ endpoint \notin Sockets
          /\ Goes(p, "idle")
          /\ UNCHANGED expected
    /\ UNCHANGED <<task, inode, pathBinds, fsVars, raced>>

\* probePosixEndpoint: "stale" when the connection is refused or the path is
\* gone; "live" or "inconclusive" end the bind.
Probe(p) ==
    /\ pc[p] = "probing"
    /\ \/ ~Live(endpoint) /\ Goes(p, "verifying")
       \/ Goes(p, "idle")
    /\ UNCHANGED <<task, inode, expected, pathBinds, fsVars, raced>>

\* The path was removed, and the bind listens again.
Relisten(p) ==
    /\ pc[p] = "relistening"
    /\ \/ ListensAt(p)
       \/ /\ endpoint # NoFile
          /\ Goes(p, "idle")
          /\ UNCHANGED <<inode, endpoint, files, raced>>
    /\ UNCHANGED <<task, expected, pathBinds, quarantine, abandoned, renames>>

-----------------------------------------------------------------------------
(* unlinkOwnedSocket. *)

\* lstat: the file must be the expected one, unchanged.
Verify(p) ==
    /\ pc[p] = "verifying"
    /\ Goes(p, IF endpoint \in Sockets /\ Identity(endpoint) = expected[p]
               THEN "moving" ELSE "idle")
    /\ UNCHANGED <<task, inode, expected, pathBinds, fsVars, raced>>

MovesByLink(p) ==
    /\ endpoint # NoFile
    /\ quarantine' = [quarantine EXCEPT ![p] = endpoint]
    /\ renames' = [f \in Sockets |-> IF f = endpoint THEN renames[f] + 1 ELSE renames[f]]
    /\ UNCHANGED endpoint

\* rename of whatever is at the path now.
Moves(p) ==
    /\ endpoint # NoFile
    /\ quarantine' = [quarantine EXCEPT ![p] = endpoint]
    /\ renames' = [f \in Sockets |-> IF f = endpoint THEN renames[f] + 1 ELSE renames[f]]
    /\ endpoint' = NoFile

Move(p) ==
    /\ pc[p] = "moving"
    /\ \/ Moves(p) /\ Goes(p, "checking")
       \/ endpoint = NoFile /\ Goes(p, "idle") /\ UNCHANGED <<quarantine, renames, endpoint>>
    /\ UNCHANGED <<task, inode, expected, pathBinds, abandoned, files, raced>>

CheckedByPath(p) ==
    /\ pc[p] = "checking"
    /\ Goes(p, "unlinking")
    /\ UNCHANGED <<task, inode, expected, pathBinds, fsVars, raced>>

\* lstat of the quarantine, which nobody else knows: is it the expected object?
Check(p) ==
    /\ pc[p] = "checking"
    /\ Goes(p, IF quarantine[p] = expected[p].file THEN "reprobing" ELSE "restoring")
    /\ UNCHANGED <<task, inode, expected, pathBinds, fsVars, raced>>

\* A probe of the quarantine: only what is stale goes.
Reprobe(p) ==
    /\ pc[p] = "reprobing"
    /\ \/ ~Live(quarantine[p]) /\ Goes(p, "unlinking")
       \/ Goes(p, "restoring")
    /\ UNCHANGED <<task, inode, expected, pathBinds, fsVars, raced>>

Unlink(p) ==
    /\ pc[p] = "unlinking"
    /\ quarantine' = [quarantine EXCEPT ![p] = NoFile]
    /\ Goes(p, IF task[p] = "bind" THEN "relistening" ELSE "idle")
    /\ UNCHANGED <<task, inode, expected, pathBinds, endpoint, abandoned, renames, files, raced>>

RestoreForgotten(p) ==
    /\ pc[p] = "restoring"
    /\ Ends(p)
    /\ UNCHANGED <<task, inode, expected, pathBinds, endpoint, renames, files, raced>>

\* restoreQuarantine looks whether the endpoint has a new owner, and then it
\* leaves the quarantine where it is.
Restore(p) ==
    /\ pc[p] = "restoring"
    /\ \/ /\ endpoint = NoFile
          /\ Goes(p, "replacing")
          /\ UNCHANGED <<quarantine, abandoned>>
       \/ endpoint # NoFile /\ Ends(p)
    /\ UNCHANGED <<task, inode, expected, pathBinds, endpoint, renames, files, raced>>

\* rename back, onto whatever is at the path by now.
Replaces(p) ==
    /\ endpoint' = quarantine[p]
    /\ renames' = [f \in Sockets |-> IF f = quarantine[p] THEN renames[f] + 1 ELSE renames[f]]
    /\ quarantine' = [quarantine EXCEPT ![p] = NoFile]

Replace(p) ==
    /\ pc[p] = "replacing"
    /\ Replaces(p)
    /\ Goes(p, "idle")
    /\ raced' = (raced \/ Interferes(p))
    /\ UNCHANGED <<task, inode, expected, pathBinds, abandoned, files>>

Cleaning == {"observing", "probing", "verifying", "moving", "checking", "reprobing",
             "unlinking", "restoring", "replacing"}

\* A call of fs fails.  The catch of unlinkOwnedSocket restores what has been
\* moved, also when what failed was a restore; the error of its own restore
\* ends the cleanup.
CallFails(p) ==
    /\ pc[p] \in Cleaning
    /\ \/ /\ quarantine[p] # NoFile
          /\ Goes(p, "restoring")
          /\ UNCHANGED <<quarantine, abandoned, raced>>
       \/ /\ quarantine[p] = NoFile \/ pc[p] \in {"restoring", "replacing"}
          /\ Ends(p)
          /\ raced' = (raced \/ Live(quarantine[p]))
    /\ UNCHANGED <<task, inode, expected, pathBinds, endpoint, renames, files>>

\* The deadline of a call passes, and the call may still take effect (Replace is
\* that of the rename back).  The same deadline holds for the restoring that
\* would follow, so it is not even tried.
CutOff(p) ==
    /\ pc[p] \in Cleaning
    /\ \/ /\ Ends(p)
          /\ raced' = (raced \/ Live(quarantine[p]))
          /\ UNCHANGED endpoint
       \/ /\ pc[p] = "moving"
          /\ endpoint # NoFile
          /\ Goes(p, "idle")
          /\ abandoned' = abandoned \cup {endpoint}
          /\ endpoint' = NoFile
          /\ raced' = (raced \/ Live(endpoint))
          /\ UNCHANGED quarantine
       \/ /\ pc[p] = "unlinking"
          /\ Goes(p, "idle")
          /\ quarantine' = [quarantine EXCEPT ![p] = NoFile]
          /\ UNCHANGED <<abandoned, endpoint, raced>>
    /\ UNCHANGED <<task, inode, expected, pathBinds, renames, files>>

-----------------------------------------------------------------------------
(* close, and crashes. *)

\* The listener closes; then its file is removed, if it is still there.
ClosePath(p) ==
    /\ pc[p] = "bound"
    /\ StopsListening(p)
    /\ task' = [task EXCEPT ![p] = "close"]
    /\ Goes(p, "verifying")
    /\ UNCHANGED <<expected, pathBinds, quarantine, abandoned, renames, files, raced>>

\* Its file stays where it is, and its quarantine.  A new process takes its place.
Crash(p) ==
    /\ pc[p] # "idle"
    /\ Ends(p)
    /\ inode' = [inode EXCEPT ![p] = NoFile]
    /\ raced' = (raced \/ Live(quarantine[p]))
    /\ UNCHANGED <<task, expected, pathBinds, endpoint, renames, files>>

Step(p) ==
    \/ BindPath(p)
    \/ PublishPath(p)
    \/ Observe(p)
    \/ Probe(p)
    \/ Relisten(p)
    \/ Verify(p)
    \/ Move(p)
    \/ Check(p)
    \/ Reprobe(p)
    \/ Unlink(p)
    \/ Restore(p)
    \/ Replace(p)
    \/ CallFails(p)
    \/ CutOff(p)
    \/ ClosePath(p)
    \/ Crash(p)

PathNext == \E p \in Procs : Step(p)

PathSpec == PathInit /\ [][PathNext]_pathVars

-----------------------------------------------------------------------------
(* Safety. *)

Exists(f) == f = endpoint \/ f \in abandoned \/ \E p \in Procs : quarantine[p] = f

\* The types of the variables; a file is at one place at most.
PathTypeOK ==
    /\ pc \in [Procs -> Cleaning \cup {"idle", "publishing", "bound", "relistening"}]
    /\ task \in [Procs -> {"bind", "close"}]
    /\ inode \in [Procs -> Sockets \cup {NoFile}]
    /\ expected \in [Procs -> [file : Sockets \cup {NoFile}, ctime : Nat]]
    /\ pathBinds \in 0 .. MaxPathBinds
    /\ endpoint \in Sockets \cup {NoFile, PlainFile}
    /\ quarantine \in [Procs -> Sockets \cup {NoFile}]
    /\ abandoned \subseteq Sockets
    /\ renames \in [Sockets -> Nat]
    /\ files \in Sockets
    /\ raced \in BOOLEAN
    /\ \A p \in Procs : quarantine[p] # NoFile =>
          /\ quarantine[p] # endpoint /\ quarantine[p] \notin abandoned
          /\ \A q \in Procs \ {p} : quarantine[q] # quarantine[p]

\* A listener whose bind has resolved is found at its endpoint, or on its way back
\* there from the quarantine of a cleanup that took it for the stale file it had
\* seen; unless that cleanup could not put it back, for a call that failed twice or a
\* deadline, or another process put a file there while a live listener was in
\* quarantine or a restore was about to rename.
ListenersComeBack ==
    raced \/ \A p \in Procs : pc[p] = "bound" =>
                 \/ endpoint = inode[p]
                 \/ \E q \in Procs : quarantine[q] = inode[p] /\ pc[q] \in Cleaning \ {"unlinking"}

\* Whatever races, no cleanup unlinks the file of a live listener, nor one that
\* is not a socket: files that go were stale, or were overwritten by a restore, or
\* were at the path of a listener that closed.
OnlyStaleFilesGo ==
    [][\A f \in Sockets \cup {PlainFile} :
          Exists(f) /\ ~Exists(f)' =>
              \/ ~Live(f) /\ f # PlainFile
              \/ \E p \in Procs : \/ pc[p] = "replacing" /\ endpoint = f
                                  \/ inode[p] # NoFile /\ inode'[p] = NoFile /\ endpoint = f]_pathVars
=============================================================================
