-------------------------- MODULE ServerLifecycle --------------------------
(***************************************************************************)
(* The life of a Server (src/server.cpp): start(), wait(), run(), stop(),  *)
(* reload_tls() and ~Server(), with the contexts of its TLS listeners      *)
(* (TlsContext::create() of src/tls_context.cpp) and the Unix-domain       *)
(* socket it shares a path with other processes for (UnixListener).        *)
(*                                                                         *)
(* The server of interest, Self, has a Unix-domain listener followed by    *)
(* TLS listeners over TCP.  Its owner thread calls the operations above;   *)
(* the workers are the reactor threads, reduced to when they count the     *)
(* latch down, fail, and leave the loop (Reactor and Admission model what  *)
(* they do); the stopper is another thread, or the stop callback of run(). *)
(* The other processes are servers too, of which only the listener is      *)
(* seen.  Certificate and key are files that the operator replaces one     *)
(* after the other, so a context may be loaded between the two.            *)
(*                                                                         *)
(* StopOverlapsWait says whether a call of stop() may still be iterating   *)
(* over reactors_ when wait() clears it: the code does not prevent it.     *)
(***************************************************************************)
EXTENDS UnixListener, Sequences

CONSTANTS Self, Workers, TlsCount, MaxRotations, StopOverlapsWait

ASSUME ServerAssumption ==
  /\ Self \in Procs
  /\ Workers \in Nat \ {0}
  /\ TlsCount \in Nat /\ MaxRotations \in Nat
  /\ StopOverlapsWait \in BOOLEAN

VARIABLES
  phase,      \* where the owner thread is
  closing,    \* who tears the server down: "start", "wait" or "destroy"
  result,     \* how the last operation ended
  started,    \* Server::started_
  stop,       \* ServerState::stop_source_ has been asked to stop
  failure,    \* ServerState::failure_: whose exception it is, 0 = null
  failLog,    \* the workers that failed, in order (history)
  worker,     \* jthread and reactor loop of each worker
  latch,      \* count of the latch start() waits on
  reactors,   \* reactors_ holds the reactors
  stopper,    \* another thread inside stop()
  chainFile, keyFile,   \* generation of the files on disk
  index,      \* listener whose context is being made
  chain, key, \* what the context being made has read, 0 = nothing yet
  loaded,     \* contexts a reload has made and not stored yet
  tls,        \* ListenerState::tls of each listener, 0 = empty
  before      \* tls when the reload under way began (history)

lifeVars == <<phase, closing, result, started, stop, failure, failLog, worker,
              latch, reactors, stopper>>
tlsVars == <<chainFile, keyFile, index, chain, key, loaded, tls, before>>
vars == <<unixVars, lifeVars, tlsVars>>

Threads == 1..Workers
TlsListeners == 1..TlsCount
Generations == 0..(MaxRotations + 1)
NoContext == [chain |-> 0, key |-> 0]
Contexts == [chain : Generations, key : Generations]
NoContexts == [l \in TlsListeners |-> NoContext]

Phases == {"new", "unix", "tls", "tcp", "reactors", "unwind", "spawn", "latch",
           "running", "reload", "store", "threw", "join", "release", "ended",
           "destroyed"}

\* Type invariant.
TypeOK ==
  /\ UnixTypeOK
  /\ phase \in Phases
  /\ closing \in {"none", "start", "wait", "destroy"}
  /\ result \in {"none", "returned", "threw", "rethrew"}
  /\ started \in BOOLEAN /\ stop \in BOOLEAN /\ reactors \in BOOLEAN
  /\ failure \in 0..Workers
  /\ failLog \in Seq(Threads) /\ Len(failLog) <= Workers
  /\ worker \in [Threads -> {"none", "spawned", "loop", "done"}]
  /\ latch \in 0..Workers
  /\ stopper \in {"idle", "waking"}
  /\ chainFile \in Generations /\ keyFile \in Generations
  /\ index \in 1..(TlsCount + 1)
  /\ chain \in Generations /\ key \in Generations
  /\ loaded \in [TlsListeners -> Contexts]
  /\ tls \in [TlsListeners -> Contexts]
  /\ before \in [TlsListeners -> Contexts]

NewServer ==
  /\ phase = "new" /\ closing = "none" /\ result = "none"
  /\ started = FALSE /\ stop = FALSE /\ failure = 0 /\ failLog = <<>>
  /\ worker = [w \in Threads |-> "none"] /\ latch = 0
  /\ reactors = FALSE /\ stopper = "idle"
  /\ index = 1 /\ chain = 0 /\ key = 0
  /\ loaded = NoContexts /\ tls = NoContexts /\ before = NoContexts

(* ... and the same of the next state. *)
BecomeNewServer ==
  /\ phase' = "new" /\ closing' = "none" /\ result' = "none"
  /\ started' = FALSE /\ stop' = FALSE /\ failure' = 0 /\ failLog' = <<>>
  /\ worker' = [w \in Threads |-> "none"] /\ latch' = 0
  /\ reactors' = FALSE /\ stopper' = "idle"
  /\ index' = 1 /\ chain' = 0 /\ key' = 0
  /\ loaded' = NoContexts /\ tls' = NoContexts /\ before' = NoContexts

Init ==
  /\ UnixInit
  /\ NewServer
  /\ chainFile = 1 /\ keyFile = 1

-----------------------------------------------------------------------------
(* start(), up to the catch that clears what has been built.               *)

(* validate_server_options() throws before there is a ServerState. *)
RejectOptions ==
  /\ phase = "new" /\ ~started
  /\ result' = "threw"
  /\ UNCHANGED <<unixVars, phase, closing, started, stop, failure, failLog,
                 worker, latch, reactors, stopper, tlsVars>>

(* A fresh ServerState forgets an earlier stop; the allow list may not parse. *)
MakeState ==
  /\ phase = "new" /\ ~started
  /\ stop' = FALSE /\ failure' = 0
  /\ \/ phase' = "new" /\ result' = "threw" /\ UNCHANGED unixVars
     \/ phase' = "unix" /\ result' = "none" /\ BindListener(Self)
  /\ UNCHANGED <<closing, started, failLog, worker, latch, reactors, stopper,
                 tlsVars>>

BindUnix ==
  /\ phase = "unix"
  /\ BindStep(Self)
  /\ UNCHANGED <<lifeVars, tlsVars>>

UnixDone ==
  /\ phase = "unix"
  /\ upc[Self] \in {"serving", "failed"}
  /\ phase' = IF upc[Self] = "failed" THEN "unwind"
              ELSE IF TlsCount = 0 THEN "reactors" ELSE "tls"
  /\ index' = 1
  /\ UNCHANGED <<unixVars, closing, result, started, stop, failure, failLog,
                 worker, latch, reactors, stopper, chainFile, keyFile, chain,
                 key, loaded, tls, before>>

(* TlsContext::create(): reads the chain, reads the key, checks the pair. *)
Creating == phase \in {"tls", "reload"} /\ index \in TlsListeners

UseChain ==
  /\ Creating /\ chain = 0
  /\ chain' = chainFile
  /\ UNCHANGED <<unixVars, lifeVars, chainFile, keyFile, index, key, loaded,
                 tls, before>>

UsePrivateKey ==
  /\ Creating /\ chain # 0 /\ key = 0
  /\ key' = keyFile
  /\ UNCHANGED <<unixVars, lifeVars, chainFile, keyFile, index, chain, loaded,
                 tls, before>>

CheckPrivateKey == chain = key

(* Any call that sets the context up may be refused: options, groups, alpn, *)
(* a file that is missing, the client CA.  start() unwinds; reload_tls()    *)
(* leaves the contexts of the listeners as they were.                       *)
CreateThrows ==
  /\ Creating
  /\ phase' = IF phase = "tls" THEN "unwind" ELSE "running"
  /\ result' = "threw"
  /\ chain' = 0 /\ key' = 0 /\ index' = 1
  /\ loaded' = NoContexts /\ before' = NoContexts
  /\ UNCHANGED <<unixVars, closing, started, stop, failure, failLog, worker,
                 latch, reactors, stopper, chainFile, keyFile, tls>>

Context == [chain |-> chain, key |-> key]

(* Fault: a reload stores each context as soon as it is made. *)
KeepContextStored ==
  /\ tls' = [tls EXCEPT ![index] = Context]
  /\ loaded' = [loaded EXCEPT ![index] = Context]

(* start() stores the context in its listener, reload_tls() keeps it aside. *)
KeepContext ==
  \/ /\ phase = "tls"
     /\ tls' = [tls EXCEPT ![index] = Context]
     /\ UNCHANGED loaded
  \/ /\ phase = "reload"
     /\ loaded' = [loaded EXCEPT ![index] = Context]
     /\ UNCHANGED tls

Create ==
  /\ Creating /\ chain # 0 /\ key # 0
  /\ CheckPrivateKey
  /\ KeepContext
  /\ chain' = 0 /\ key' = 0
  /\ \/ phase = "tls" /\ phase' = "tcp" /\ UNCHANGED index
     \/ phase = "reload" /\ index < TlsCount /\ index' = index + 1
        /\ UNCHANGED phase
     \/ phase = "reload" /\ index = TlsCount /\ phase' = "store" /\ index' = 1
  /\ UNCHANGED <<unixVars, closing, result, started, stop, failure, failLog,
                 worker, latch, reactors, stopper, chainFile, keyFile, before>>

(* bind_tcp_listener() for the sockets of a listener, and the next one. *)
BindTcp ==
  /\ phase = "tcp"
  /\ \/ phase' = "unwind" /\ UNCHANGED index
     \/ /\ index' = index + 1
        /\ phase' = IF index = TlsCount THEN "reactors" ELSE "tls"
  /\ UNCHANGED <<unixVars, closing, result, started, stop, failure, failLog,
                 worker, latch, reactors, stopper, chainFile, keyFile, chain,
                 key, loaded, tls, before>>

(* The reactors are built and take the listeners; then started_ is set. *)
MakeReactors ==
  /\ phase = "reactors"
  /\ \/ /\ phase' = "unwind"
        /\ UNCHANGED <<started, reactors, latch>>
     \/ /\ phase' = "spawn"
        /\ started' = TRUE /\ reactors' = TRUE /\ latch' = Workers
  /\ UNCHANGED <<unixVars, closing, result, stop, failure, failLog, worker,
                 stopper, tlsVars>>

(* Fault: the catch closes the sockets and leaves the path. *)
BeginUnwindClosing ==
  /\ phase = "unwind"
  /\ upc[Self] = "serving"
  /\ Goto(Self, "close")
  /\ UNCHANGED <<path, sock, listening, identity, seen, lifeVars, tlsVars>>

(* catch (...): listeners_.clear() releases the path of a listener that was *)
(* bound; one that failed to bind has nothing to release.                   *)
BeginUnwind ==
  /\ phase = "unwind"
  /\ BeginRelease(Self) \/ Recover(Self)
  /\ UNCHANGED <<lifeVars, tlsVars>>

UnwindRelease ==
  /\ phase = "unwind"
  /\ ReleaseStep(Self)
  /\ UNCHANGED <<lifeVars, tlsVars>>

EndUnwind ==
  /\ phase = "unwind" /\ upc[Self] = "idle"
  /\ phase' = "new" /\ result' = "threw"
  /\ tls' = NoContexts
  /\ UNCHANGED <<unixVars, closing, started, stop, failure, failLog, worker,
                 latch, reactors, stopper, chainFile, keyFile, index, chain,
                 key, loaded, before>>

-----------------------------------------------------------------------------
(* start(), from the first thread on.                                      *)

Spawned == {w \in Threads : worker[w] # "none"}

SpawnWorker ==
  /\ phase = "spawn"
  /\ LET w == Cardinality(Spawned) + 1 IN
       /\ worker' = [worker EXCEPT ![w] = "spawned"]
       /\ phase' = IF w = Workers THEN "latch" ELSE "spawn"
  /\ UNCHANGED <<unixVars, closing, result, started, stop, failure, failLog,
                 latch, reactors, stopper, tlsVars>>

(* A thread cannot be created: those that run are told to stop. *)
SpawnFails ==
  /\ phase = "spawn"
  /\ latch' = latch - (Workers - Cardinality(Spawned))
  /\ stop' = TRUE
  /\ phase' = "threw" /\ result' = "threw"
  /\ UNCHANGED <<unixVars, closing, started, failure, failLog, worker,
                 reactors, stopper, tlsVars>>

LatchWait ==
  /\ phase = "latch" /\ latch = 0
  /\ \/ /\ failure = 0
        /\ phase' = "running" /\ result' = "returned" /\ UNCHANGED closing
     \/ /\ failure # 0
        /\ phase' = "join" /\ closing' = "start" /\ UNCHANGED result
  /\ UNCHANGED <<unixVars, started, stop, failure, failLog, worker, latch,
                 reactors, stopper, tlsVars>>

-----------------------------------------------------------------------------
(* The workers: Reactor::run() and ServerState::fail().                    *)

(* Fault: only a worker that is not told to stop counts the latch down. *)
WorkerReadyUnlessStopped(w) ==
  /\ worker[w] = "spawned"
  /\ worker' = [worker EXCEPT ![w] = "loop"]
  /\ latch' = IF stop THEN latch ELSE latch - 1
  /\ UNCHANGED <<unixVars, phase, closing, result, started, stop, failure,
                 failLog, reactors, stopper, tlsVars>>

WorkerReady(w) ==
  /\ worker[w] = "spawned"
  /\ worker' = [worker EXCEPT ![w] = "loop"]
  /\ latch' = latch - 1
  /\ UNCHANGED <<unixVars, phase, closing, result, started, stop, failure,
                 failLog, reactors, stopper, tlsVars>>

WorkerStops(w) ==
  /\ worker[w] = "loop" /\ stop
  /\ worker' = [worker EXCEPT ![w] = "done"]
  /\ UNCHANGED <<unixVars, phase, closing, result, started, stop, failure,
                 failLog, latch, reactors, stopper, tlsVars>>

(* Fault: the last failure wins. *)
RecordLastFailure(w) == failure' = w

(* fail() keeps the first exception. *)
RecordFailure(w) == failure' = IF failure = 0 THEN w ELSE failure

(* An exception leaves the loop: fail() records it and stops the others. *)
WorkerFails(w) ==
  /\ worker[w] = "loop"
  /\ worker' = [worker EXCEPT ![w] = "done"]
  /\ RecordFailure(w)
  /\ stop' = TRUE
  /\ failLog' = Append(failLog, w)
  /\ UNCHANGED <<unixVars, phase, closing, result, started, latch, reactors,
                 stopper, tlsVars>>

WorkerStep(w) == WorkerReady(w) \/ WorkerStops(w)

-----------------------------------------------------------------------------
(* stop(), wait() and ~Server().                                           *)

(* stop() by another thread: the request, then the loop over reactors_. *)
StopRequest ==
  /\ stopper = "idle"
  /\ phase \in {"running", "reload", "store", "threw", "join"}
  /\ stop' = TRUE
  /\ stopper' = "waking"
  /\ UNCHANGED <<unixVars, phase, closing, result, started, failure, failLog,
                 worker, latch, reactors, tlsVars>>

StopWakes ==
  /\ stopper = "waking"
  /\ stopper' = "idle"
  /\ UNCHANGED <<unixVars, phase, closing, result, started, stop, failure,
                 failLog, worker, latch, reactors, tlsVars>>

Wait ==
  /\ phase \in {"running", "threw"}
  /\ phase' = "join" /\ closing' = "wait" /\ result' = "none"
  /\ UNCHANGED <<unixVars, started, stop, failure, failLog, worker, latch,
                 reactors, stopper, tlsVars>>

(* ~Server() stops, and joins the workers before anything else goes. *)
Destroy ==
  /\ phase \in {"running", "threw"}
  /\ phase' = "join" /\ closing' = "destroy"
  /\ stop' = TRUE /\ result' = "none"
  /\ UNCHANGED <<unixVars, started, failure, failLog, worker, latch, reactors,
                 stopper, tlsVars>>

DestroyIdle ==
  /\ phase \in {"new", "ended"}
  /\ phase' = "destroyed" /\ stop' = TRUE /\ result' = "none"
  /\ UNCHANGED <<unixVars, closing, started, failure, failLog, worker, latch,
                 reactors, stopper, tlsVars>>

(* Fault: the teardown does not wait for the workers. *)
AllJoinedSkipped == TRUE

AllJoined == \A w \in Threads : worker[w] \in {"none", "done"}

Join ==
  /\ phase = "join" /\ AllJoined
  /\ phase' = "release"
  /\ BeginRelease(Self)
  /\ UNCHANGED <<closing, result, started, stop, failure, failLog, worker,
                 latch, reactors, stopper, tlsVars>>

ReleasePath ==
  /\ phase = "release"
  /\ ReleaseLstat(Self) \/ ReleaseUnlink(Self)
  /\ UNCHANGED <<lifeVars, tlsVars>>

(* reactors_.clear(), listeners_.clear(), and the first failure. *)
ClearAll ==
  /\ phase = "release" /\ upc[Self] = "close"
  /\ StopOverlapsWait \/ stopper = "idle"
  /\ CloseListener(Self)
  /\ reactors' = FALSE
  /\ tls' = NoContexts
  /\ phase' = IF closing = "destroy" THEN "destroyed" ELSE "ended"
  /\ result' = IF closing = "destroy" THEN "none"
               ELSE IF failure = 0 THEN "returned" ELSE "rethrew"
  /\ UNCHANGED <<closing, started, stop, failure, failLog, worker, latch,
                 stopper, chainFile, keyFile, index, chain, key, loaded,
                 before>>

(* The application makes another Server. *)
Again ==
  /\ phase = "destroyed" /\ stopper = "idle"
  /\ BecomeNewServer
  /\ UNCHANGED <<unixVars, chainFile, keyFile>>

-----------------------------------------------------------------------------
(* reload_tls() by the owner, between start() and wait().                  *)

ReloadBegin ==
  /\ phase = "running" /\ TlsCount > 0
  /\ phase' = "reload" /\ index' = 1
  /\ loaded' = NoContexts /\ before' = tls
  /\ result' = "none"
  /\ UNCHANGED <<unixVars, closing, started, stop, failure, failLog, worker,
                 latch, reactors, stopper, chainFile, keyFile, chain, key, tls>>

StoreContext ==
  /\ phase = "store"
  /\ tls' = [tls EXCEPT ![index] = loaded[index]]
  /\ loaded' = [loaded EXCEPT ![index] = NoContext]
  /\ \/ index < TlsCount /\ index' = index + 1 /\ UNCHANGED <<phase, result>>
     \/ /\ index = TlsCount /\ index' = 1
        /\ phase' = "running" /\ result' = "returned"
  /\ before' = NoContexts
  /\ UNCHANGED <<unixVars, closing, started, stop, failure, failLog, worker,
                 latch, reactors, stopper, chainFile, keyFile, chain, key>>

(* The operator replaces the chain, and then the key.  The files are only *)
(* read while a context is made: a replacement at another time is the same *)
(* as one at the start of the next.                                        *)
RotateChain ==
  /\ Creating
  /\ chainFile = keyFile /\ chainFile <= MaxRotations
  /\ chainFile' = chainFile + 1
  /\ UNCHANGED <<unixVars, lifeVars, keyFile, index, chain, key, loaded, tls,
                 before>>

RotateKey ==
  /\ Creating
  /\ keyFile < chainFile
  /\ keyFile' = chainFile
  /\ UNCHANGED <<unixVars, lifeVars, chainFile, index, chain, key, loaded, tls,
                 before>>

-----------------------------------------------------------------------------
(* The other processes, crashes, and the whole system.                     *)

Peers == Procs \ {Self}

PeerStep(p) ==
  /\ \/ BindListener(p) \/ BindStep(p) \/ Recover(p)
     \/ BeginRelease(p) \/ ReleaseStep(p) \/ Crash(p)
  /\ UNCHANGED <<lifeVars, tlsVars>>

(* The process of the server dies and is started again. *)
CrashSelf ==
  /\ Crash(Self)
  /\ BecomeNewServer
  /\ UNCHANGED <<chainFile, keyFile>>

OperatorStep == Operator /\ UNCHANGED <<lifeVars, tlsVars>>

OwnerStep ==
  \/ BindUnix \/ UnixDone
  \/ UseChain \/ UsePrivateKey \/ Create \/ BindTcp \/ MakeReactors
  \/ BeginUnwind \/ UnwindRelease \/ EndUnwind
  \/ SpawnWorker \/ LatchWait
  \/ Join \/ ReleasePath \/ ClearAll \/ StoreContext

OwnerChoice ==
  \/ RejectOptions \/ MakeState \/ CreateThrows \/ SpawnFails
  \/ Wait \/ Destroy \/ DestroyIdle \/ Again \/ ReloadBegin

Next ==
  \/ OwnerStep \/ OwnerChoice
  \/ \E w \in Threads : WorkerStep(w) \/ WorkerFails(w)
  \/ StopRequest \/ StopWakes
  \/ RotateChain \/ RotateKey
  \/ \E p \in Peers : PeerStep(p)
  \/ CrashSelf \/ OperatorStep

(* The scheduler runs the owner inside an operation, every worker that has *)
(* something to do, and the thread inside stop().  A pair that does not    *)
(* match makes create() throw, so CreateThrows is what the owner does then. *)
Fairness ==
  /\ WF_vars(OwnerStep \/ (CreateThrows /\ ~CheckPrivateKey))
  /\ \A w \in Threads : WF_vars(WorkerStep(w))
  /\ WF_vars(StopWakes)

Spec == Init /\ [][Next]_vars /\ Fairness

-----------------------------------------------------------------------------
Unlinks(p) ==
  /\ upc[p] \in {"stale_unlink", "undo_unlink", "release_unlink"}
  /\ upc'[p] # upc[p] /\ path' = "none"

\* No server removes from the path the socket of another process that is still
\* open, nor a file: an entry is unlinked by its owner or once its owner is
\* gone (remove_stale_unix_socket, unlink_owned_unix_socket).
NoForeignUnlink ==
  [][\A p \in Procs : Unlinks(p) =>
       /\ path # "file"
       /\ \A q \in Procs \ {p} : sock[q] = "none" \/ sock[q] # path]_vars

\* A live listener is never taken over: the path of a socket that listens is
\* not unlinked by another server ("Reclaims only stale socket paths").
LiveListenerKept ==
  [][\A p \in Procs : Unlinks(p) =>
       \A q \in listening \ {p} : sock[q] # path]_vars

\* A server that ends without a crash, by wait(), by ~Server() or by a start()
\* that throws at any later point, leaves no socket behind at the path; only
\* the failed lstat() right after bind() does.
NoLitter ==
  [][\A p \in Procs :
       /\ sock[p] # "none" /\ sock'[p] = "none"
       /\ upc'[p] \in {"idle", "failed"}
       /\ upc[p] \in {"close", "undo_close"}
       => path' # sock[p]]_vars

\* wait(), or the start() that saw a failure, throws the exception of the
\* worker that failed first, and returns normally only if none failed.
FailureReported ==
  phase = "ended" =>
    IF failLog = <<>> THEN result = "returned"
    ELSE result = "rethrew" /\ failure = Head(failLog)

\* reactors_ is cleared only when no worker runs a reactor and no thread is
\* iterating over it inside stop().
ReactorsOutlived ==
  ~reactors => /\ \A w \in Threads : worker[w] \in {"none", "done"}
               /\ stopper = "idle"

\* A listener never serves a certificate with another one's key, whatever the
\* operator replaces while it is being loaded, and a reload that throws leaves
\* every listener with the context it had.
ReloadSafe ==
  /\ [](\A l \in TlsListeners : tls[l].chain = tls[l].key)
  /\ [][phase = "reload" /\ phase' = "running" => tls' = before]_vars

\* start() returns or throws, and a wait() or ~Server() after a stop ends.
OwnerReturns ==
  /\ phase \in {"unix", "tls", "tcp", "reactors", "unwind", "spawn", "latch"}
       ~> phase \in {"new", "running", "threw", "ended", "destroyed"}
  /\ (phase = "join" /\ stop) ~> phase \in {"ended", "destroyed", "new"}
=============================================================================
