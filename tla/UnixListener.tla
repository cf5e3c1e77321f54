---------------------------- MODULE UnixListener ----------------------------
(***************************************************************************)
(* The path of a Unix-domain listening socket and the processes that serve *)
(* on it: bind_unix_listener() and remove_stale_unix_socket() of           *)
(* src/socket.cpp, and ListenerState::release_unix_path(), which runs      *)
(* before the socket of the listener is closed.                            *)
(*                                                                         *)
(* A step is one system call on the path.  The path holds nothing, a file  *)
(* that is no socket, or a socket named by its inode; device numbers are   *)
(* left out.  An inode number is free again once neither the path nor an   *)
(* open socket refers to it, so a later socket may be given the number of  *)
(* an earlier one.  A process may crash between any two steps, and then    *)
(* leaves its socket at the path; the operator may remove the path or put  *)
(* a file there.  Calls whose failure is a failure of the whole machine    *)
(* (socket(), and lstat() for a reason other than a missing entry) fail    *)
(* where the code throws for it, except inside unlink_owned_unix_socket(), *)
(* where the directory is taken to be readable and writable.               *)
(*                                                                         *)
(* MaxStarting bounds how many processes are inside bind_unix_listener()   *)
(* at once: the code has no lock against a second one.                     *)
(***************************************************************************)
EXTENDS Naturals, FiniteSets

CONSTANTS Procs,        \* the processes configured with this path
          Inodes,       \* inode numbers
          MaxStarting   \* processes inside bind_unix_listener() at once

ASSUME UnixAssumption ==
  /\ Procs # {} /\ IsFiniteSet(Procs)
  /\ "none" \notin Inodes /\ "file" \notin Inodes
  /\ MaxStarting \in Nat \ {0}

VARIABLES path,       \* what the directory entry refers to
          sock,       \* inode a process's open socket is bound to, or "none"
          listening,  \* processes whose socket accepts connections
          identity,   \* ListenerState::unix_socket_identity, or "none"
          seen,       \* the inode of the first lstat() of the stale check
          upc         \* where a process is

unixVars == <<path, sock, listening, identity, seen, upc>>

Binding == {"bind", "stale_lstat", "probe", "recheck", "stale_unlink",
            "rebind", "inspect", "chmod", "listen", "undo_lstat",
            "undo_unlink", "undo_close"}

Releasing == {"release_lstat", "release_unlink", "close"}

UPoints == {"idle", "serving", "failed"} \cup Binding \cup Releasing

UnixTypeOK ==
  /\ path \in {"none", "file"} \cup Inodes
  /\ sock \in [Procs -> {"none"} \cup Inodes]
  /\ listening \in SUBSET Procs
  /\ identity \in [Procs -> {"none"} \cup Inodes]
  /\ seen \in [Procs -> {"none"} \cup Inodes]
  /\ upc \in [Procs -> UPoints]

UnixInit ==
  /\ path \in {"none", "file"}
  /\ sock = [p \in Procs |-> "none"]
  /\ listening = {}
  /\ identity = [p \in Procs |-> "none"]
  /\ seen = [p \in Procs |-> "none"]
  /\ upc = [p \in Procs |-> "idle"]

Goto(p, point) == upc' = [upc EXCEPT ![p] = point]

FreeInodes == Inodes \ ({path} \cup {sock[p] : p \in Procs})

(* An exception leaves bind_unix_listener(): UniqueFd closes the socket. *)
ThrowClosing(p) ==
  /\ sock' = [sock EXCEPT ![p] = "none"]
  /\ Goto(p, "failed")
  /\ UNCHANGED <<path, listening, identity, seen>>

BindListener(p) ==
  /\ upc[p] = "idle"
  /\ Cardinality({q \in Procs : upc[q] \in Binding}) < MaxStarting
  /\ Goto(p, "bind")
  /\ UNCHANGED <<path, sock, listening, identity, seen>>

(* ::bind() creates the entry, or fails because there is one. *)
Bind(p, from, taken) ==
  /\ upc[p] = from
  /\ \/ /\ path = "none"
        /\ \E i \in FreeInodes :
             /\ path' = i
             /\ sock' = [sock EXCEPT ![p] = i]
        /\ Goto(p, "inspect")
     \/ /\ path # "none"
        /\ Goto(p, taken)
        /\ UNCHANGED <<path, sock>>
  /\ UNCHANGED <<listening, identity, seen>>

FirstBind(p) == Bind(p, "bind", "stale_lstat")

SecondBind(p) == Bind(p, "rebind", "failed")

(* A system call fails for another reason: the code throws. *)
CallFails(p) ==
  /\ upc[p] \in {"bind", "stale_lstat", "probe", "recheck", "stale_unlink",
                "rebind", "inspect"}
  /\ ThrowClosing(p)

StaleLstat(p) ==
  /\ upc[p] = "stale_lstat"
  /\ seen' = [seen EXCEPT ![p] = IF path \in Inodes THEN path ELSE "none"]
  /\ Goto(p, IF path = "none" THEN "rebind"
             ELSE IF path = "file" THEN "failed" ELSE "probe")
  /\ UNCHANGED <<path, sock, listening, identity>>

(* connect() to the path: only a socket that listens accepts it. *)
HasListener == \E q \in listening : sock[q] = path

Probe(p) ==
  /\ upc[p] = "probe"
  /\ Goto(p, IF path = "none" THEN "rebind"
             ELSE IF HasListener THEN "failed" ELSE "recheck")
  /\ UNCHANGED <<path, sock, listening, identity, seen>>

Recheck(p) ==
  /\ upc[p] = "recheck"
  /\ Goto(p, IF path = "none" THEN "rebind"
             ELSE IF path # seen[p] THEN "failed" ELSE "stale_unlink")
  /\ UNCHANGED <<path, sock, listening, identity, seen>>

(* unlink() removes whatever is at the path by now. *)
UnlinkPath(p, from, next) ==
  /\ upc[p] = from
  /\ path' = "none"
  /\ Goto(p, next)
  /\ UNCHANGED <<sock, listening, identity, seen>>

StaleUnlink(p) == UnlinkPath(p, "stale_unlink", "rebind")

(* lstat() after bind(): the identity is that of the entry, whosever it is. *)
Inspect(p) ==
  /\ upc[p] = "inspect"
  /\ \/ /\ path \notin Inodes
        /\ ThrowClosing(p)
     \/ /\ path \in Inodes
        /\ identity' = [identity EXCEPT ![p] = path]
        /\ seen' = [seen EXCEPT ![p] = "none"]
        /\ Goto(p, "chmod")
        /\ UNCHANGED <<path, sock, listening>>

Chmod(p) ==
  /\ upc[p] = "chmod"
  /\ \/ path # "none" /\ Goto(p, "listen")
     \/ Goto(p, "undo_lstat")
  /\ UNCHANGED <<path, sock, listening, identity, seen>>

Listen(p) ==
  /\ upc[p] = "listen"
  /\ \/ /\ listening' = listening \cup {p}
        /\ Goto(p, "serving")
     \/ /\ UNCHANGED listening
        /\ Goto(p, "undo_lstat")
  /\ UNCHANGED <<path, sock, identity, seen>>

(* unlink_owned_unix_socket(): compare, then unlink, in two calls. *)
OwnedLstat(p, from, match, other) ==
  /\ upc[p] = from
  /\ Goto(p, IF path = identity[p] THEN match ELSE other)
  /\ UNCHANGED <<path, sock, listening, identity, seen>>

(* The listener failed: its identity was a local variable, the socket goes *)
(* with the exception.                                                     *)
UndoLstat(p) == OwnedLstat(p, "undo_lstat", "undo_unlink", "undo_close")

UndoUnlink(p) == UnlinkPath(p, "undo_unlink", "undo_close")

UndoClose(p) ==
  /\ upc[p] = "undo_close"
  /\ identity' = [identity EXCEPT ![p] = "none"]
  /\ sock' = [sock EXCEPT ![p] = "none"]
  /\ Goto(p, "failed")
  /\ UNCHANGED <<path, listening, seen>>

(* Fault: the socket is closed first and the path released after it. *)
BeginReleaseClosed(p) ==
  /\ upc[p] = "serving"
  /\ Goto(p, "release_lstat")
  /\ listening' = listening \ {p}
  /\ sock' = [sock EXCEPT ![p] = "none"]
  /\ UNCHANGED <<path, identity, seen>>

(* release_unix_path() and then the close of the socket, by Server::wait() *)
(* or by ~ListenerState().                                                 *)
BeginRelease(p) ==
  /\ upc[p] = "serving"
  /\ Goto(p, "release_lstat")
  /\ UNCHANGED <<path, sock, listening, identity, seen>>

ReleaseLstat(p) == OwnedLstat(p, "release_lstat", "release_unlink", "close")

ReleaseUnlink(p) == UnlinkPath(p, "release_unlink", "close")

CloseListener(p) ==
  /\ upc[p] = "close"
  /\ sock' = [sock EXCEPT ![p] = "none"]
  /\ listening' = listening \ {p}
  /\ identity' = [identity EXCEPT ![p] = "none"]
  /\ Goto(p, "idle")
  /\ UNCHANGED <<path, seen>>

(* The caller has seen the exception; it may try again. *)
Recover(p) ==
  /\ upc[p] = "failed"
  /\ Goto(p, "idle")
  /\ seen' = [seen EXCEPT ![p] = "none"]
  /\ UNCHANGED <<path, sock, listening, identity>>

BindStep(p) ==
  \/ FirstBind(p) \/ SecondBind(p) \/ CallFails(p)
  \/ StaleLstat(p) \/ Probe(p) \/ Recheck(p) \/ StaleUnlink(p)
  \/ Inspect(p) \/ Chmod(p) \/ Listen(p)
  \/ UndoLstat(p) \/ UndoUnlink(p) \/ UndoClose(p)

ReleaseStep(p) == ReleaseLstat(p) \/ ReleaseUnlink(p) \/ CloseListener(p)

(* The kernel closes the socket of a process that dies; the entry stays. *)
Crash(p) ==
  /\ upc[p] # "idle"
  /\ sock' = [sock EXCEPT ![p] = "none"]
  /\ listening' = listening \ {p}
  /\ identity' = [identity EXCEPT ![p] = "none"]
  /\ seen' = [seen EXCEPT ![p] = "none"]
  /\ Goto(p, "idle")
  /\ UNCHANGED path

(* The operator clears the path or puts a file there, not in the middle of *)
(* the start or the release of a server.                                   *)
Operator ==
  /\ \A p \in Procs : upc[p] \notin Binding \cup Releasing
  /\ \E entry \in {"none", "file"} : path' = entry
  /\ UNCHANGED <<sock, listening, identity, seen, upc>>

=============================================================================
