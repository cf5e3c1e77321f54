---------------------------- MODULE ServerProofs ----------------------------
(***************************************************************************)
(* Proofs about ServerLifecycle and the Unix-domain path it shares, for    *)
(* any number of workers, TLS listeners, processes and inodes.             *)
(***************************************************************************)
EXTENDS ServerLifecycle, FiniteSetTheorems, SequenceTheorems, TLAPS

(* Where the owner is before the reactors exist, while they exist, and     *)
(* after they have been cleared.                                           *)
Building == {"new", "unix", "tls", "tcp", "reactors", "unwind"}
Living == {"spawn", "latch", "running", "reload", "store", "threw", "join",
           "release"}
Over == {"ended", "destroyed"}

Fresh == {w \in Threads : worker[w] = "spawned"}
Done == {w \in Threads : worker[w] = "done"}

(* What belongs to a phase: the teardown is the only way out of Living, and *)
(* it waits for every worker.                                               *)
Phased ==
  /\ phase \in Building => /\ ~started /\ ~reactors /\ failLog = <<>>
                           /\ worker = [w \in Threads |-> "none"]
                           /\ stopper = "idle"
  /\ phase \in Living => reactors
  /\ phase \in Over => ~reactors
  /\ phase \in {"release"} \cup Over => AllJoined
  /\ phase \in Over /\ ~StopOverlapsWait => stopper = "idle"

(* The first failure is the one that is kept, and the one that is reported. *)
Recorded ==
  /\ failure = IF failLog = <<>> THEN 0 ELSE Head(failLog)
  /\ phase = "ended" => result = IF failure = 0 THEN "returned" ELSE "rethrew"

(* The workers that have not counted the latch down, and those that failed, *)
(* as numbers.                                                              *)
Latched ==
  /\ latch = Cardinality(Fresh)
             + IF phase = "spawn" THEN Workers - Cardinality(Spawned) ELSE 0
  /\ phase = "spawn" => \E k \in 0..(Workers - 1) : Spawned = 1..k
  /\ Len(failLog) <= Cardinality(Done)

(* Every pair that was ever kept matches; a reload has touched no listener. *)
Paired ==
  /\ \A l \in TlsListeners : /\ tls[l].chain = tls[l].key
                             /\ loaded[l].chain = loaded[l].key
  /\ phase = "reload" => before = tls
  /\ phase \in {"tls", "tcp", "reload", "store"} => index \in TlsListeners

(* The socket of a process, by where the process is. *)
Socketless == {"idle", "bind", "stale_lstat", "probe", "recheck",
               "stale_unlink", "rebind", "failed"}
Serving == {"serving"} \cup Releasing

Held(p) ==
  /\ IF upc[p] \in Socketless THEN sock[p] = "none" ELSE sock[p] \in Inodes
  /\ p \in listening <=> upc[p] \in Serving
  /\ upc[p] \notin Socketless \cup {"inspect"} => identity[p] = sock[p]
  /\ upc[p] \in {"inspect", "release_unlink", "undo_unlink"} => path = sock[p]
  /\ upc[p] \in {"recheck", "stale_unlink"} =>
       path = "none" \/ \A q \in Procs : sock[q] # path
  /\ upc[p] = "stale_unlink" => path # "file"
  /\ upc[p] \in {"close", "undo_close"} => path # sock[p]

(* Two processes never hold the same socket, and only one is starting.     *)
OneStarts == \A p, q \in Procs : upc[p] \in Binding /\ upc[q] \in Binding => p = q
OwnSockets == \A p, q \in Procs : sock[p] = sock[q] => p = q \/ sock[p] = "none"

(* With one start at a time, an entry that is about to be unlinked is the   *)
(* process's own, or nobody's.                                              *)
Shared == OneStarts /\ OwnSockets /\ \A p \in Procs : Held(p)

Inv == TypeOK /\ Phased /\ Recorded /\ Latched /\ Paired

-----------------------------------------------------------------------------
(* The path: what every step of the system is to UnixListener *)

UnixStep(p) ==
  \/ BindListener(p) \/ BindStep(p) \/ Recover(p)
  \/ BeginRelease(p) \/ ReleaseStep(p) \/ Crash(p)

UnixNext == (\E p \in Procs : UnixStep(p)) \/ Operator \/ UNCHANGED unixVars

(* Whatever the owner, the workers, the peers and the operator do is a      *)
(* system call of one process on the path, or leaves the path alone.        *)
LEMMA OnPath ==
  ASSUME [Next]_vars
  PROVE  UnixNext
<1>0. Self \in Procs
  BY ServerAssumption
<1>1. ASSUME OwnerStep
      PROVE  UnixNext
  <2>1. CASE BindUnix
    BY <1>0, <2>1 DEF BindUnix, UnixNext, UnixStep
  <2>2. CASE BeginUnwind
    BY <1>0, <2>2 DEF BeginUnwind, UnixNext, UnixStep
  <2>3. CASE UnwindRelease
    BY <1>0, <2>3 DEF UnwindRelease, UnixNext, UnixStep
  <2>4. CASE Join
    BY <1>0, <2>4 DEF Join, UnixNext, UnixStep
  <2>5. CASE ReleasePath
    BY <1>0, <2>5 DEF ReleasePath, ReleaseStep, UnixNext, UnixStep
  <2>6. CASE ClearAll
    BY <1>0, <2>6 DEF ClearAll, ReleaseStep, UnixNext, UnixStep
  <2>7. CASE UnixDone \/ UseChain \/ UsePrivateKey \/ Create \/ BindTcp
             \/ MakeReactors \/ EndUnwind \/ SpawnWorker \/ LatchWait
             \/ StoreContext
    <3>1. UNCHANGED unixVars
      BY <2>7, Zenon DEF UnixDone, UseChain, UsePrivateKey, Create, BindTcp, MakeReactors,
                  EndUnwind, SpawnWorker, LatchWait, StoreContext
    <3> QED
      BY <3>1 DEF UnixNext
  <2> QED
    BY <1>1, <2>1, <2>2, <2>3, <2>4, <2>5, <2>6, <2>7 DEF OwnerStep
<1>2. ASSUME OwnerChoice
      PROVE  UnixNext
  <2>1. CASE MakeState
    BY <1>0, <2>1 DEF MakeState, UnixNext, UnixStep
  <2>2. CASE ~MakeState
    <3>1. UNCHANGED unixVars
      BY <1>2, <2>2, Zenon DEF OwnerChoice, RejectOptions, CreateThrows, SpawnFails,
           Wait, Destroy, DestroyIdle, Again, ReloadBegin
    <3> QED
      BY <3>1 DEF UnixNext
  <2> QED
    BY <2>1, <2>2
<1>3. ASSUME NEW w \in Threads, WorkerStep(w) \/ WorkerFails(w)
      PROVE  UnixNext
  <2>1. UNCHANGED unixVars
    BY <1>3, Zenon DEF WorkerStep, WorkerReady, WorkerStops, WorkerFails
  <2> QED
    BY <2>1 DEF UnixNext
<1>4. ASSUME StopRequest \/ StopWakes \/ RotateChain \/ RotateKey
      PROVE  UnixNext
  <2>1. UNCHANGED unixVars
    BY <1>4, Zenon DEF StopRequest, StopWakes, RotateChain, RotateKey
  <2> QED
    BY <2>1 DEF UnixNext
<1>5. ASSUME NEW p \in Peers, PeerStep(p)
      PROVE  UnixNext
  BY <1>5 DEF PeerStep, Peers, UnixNext, UnixStep
<1>6. CASE CrashSelf
  BY <1>0, <1>6 DEF CrashSelf, UnixNext, UnixStep
<1>7. CASE OperatorStep
  BY <1>7 DEF OperatorStep, UnixNext
<1>8. CASE UNCHANGED vars
  BY <1>8 DEF vars, UnixNext
<1> QED
  BY <1>1, <1>2, <1>3, <1>4, <1>5, <1>6, <1>7, <1>8 DEF Next

(* The values of the shared path, whatever the processes do. *)
LEMMA UnixTyped ==
  ASSUME UnixTypeOK, UnixNext
  PROVE  UnixTypeOK'
<1>1. ASSUME NEW p \in Procs, UnixStep(p)
      PROVE  UnixTypeOK'
  <2>0. ASSUME NEW x \in UPoints, Goto(p, x)
        PROVE  upc' \in [Procs -> UPoints]
    BY <2>0 DEF Goto, UnixTypeOK
  <2>1. ASSUME ThrowClosing(p)
        PROVE  UnixTypeOK'
    BY <2>0, <2>1 DEF ThrowClosing, UnixTypeOK, UPoints
  <2>2. ASSUME NEW from, NEW taken \in UPoints, Bind(p, from, taken)
        PROVE  UnixTypeOK'
    BY <2>0, <2>2 DEF Bind, UnixTypeOK, UPoints, Binding, FreeInodes
  <2>3. ASSUME NEW from, NEW next \in UPoints, UnlinkPath(p, from, next)
        PROVE  UnixTypeOK'
    BY <2>0, <2>3 DEF UnlinkPath, UnixTypeOK
  <2>4. ASSUME NEW from, NEW m \in UPoints, NEW o \in UPoints,
               OwnedLstat(p, from, m, o)
        PROVE  UnixTypeOK'
    BY <2>0, <2>4 DEF OwnedLstat, UnixTypeOK
  <2>5. CASE BindListener(p) \/ BeginRelease(p) \/ Recover(p) \/ Crash(p)
             \/ CloseListener(p)
    BY <2>0, <2>5 DEF BindListener, BeginRelease, Recover, Crash, CloseListener,
         UnixTypeOK, UPoints, Binding, Releasing
  <2>6. CASE BindStep(p)
    <3>1. CASE FirstBind(p) \/ SecondBind(p)
      BY <2>2, <3>1 DEF FirstBind, SecondBind, UPoints, Binding
    <3>2. CASE CallFails(p)
      BY <2>1, <3>2 DEF CallFails
    <3>3. CASE StaleLstat(p) \/ Probe(p) \/ Recheck(p)
      BY <2>0, <3>3 DEF StaleLstat, Probe, Recheck, UnixTypeOK, UPoints, Binding
    <3>4. CASE StaleUnlink(p) \/ UndoUnlink(p)
      BY <2>3, <3>4 DEF StaleUnlink, UndoUnlink, UPoints, Binding
    <3>5. CASE UndoLstat(p)
      BY <2>4, <3>5 DEF UndoLstat, UPoints, Binding
    <3>6. CASE Inspect(p)
      BY <2>0, <2>1, <3>6 DEF Inspect, UnixTypeOK, UPoints, Binding
    <3>7. CASE Chmod(p) \/ Listen(p) \/ UndoClose(p)
      BY <2>0, <3>7 DEF Chmod, Listen, UndoClose, UnixTypeOK, UPoints, Binding
    <3> QED
      BY <2>6, <3>1, <3>2, <3>3, <3>4, <3>5, <3>6, <3>7 DEF BindStep
  <2>7. CASE ReleaseStep(p)
    BY <2>3, <2>4, <2>5, <2>7
       DEF ReleaseStep, ReleaseLstat, ReleaseUnlink, UPoints, Releasing
  <2> QED
    BY <1>1, <2>5, <2>6, <2>7 DEF UnixStep
<1>2. CASE Operator
  BY <1>2 DEF Operator, UnixTypeOK
<1>3. CASE UNCHANGED unixVars
  BY <1>3 DEF unixVars, UnixTypeOK
<1> QED
  BY <1>1, <1>2, <1>3 DEF UnixNext

(* The checks and the unlink of a path stay in step, one start at a time:  *)
(* the inductive invariant of the shared path.                             *)
LEMMA SharedKept ==
  ASSUME MaxStarting = 1, UnixTypeOK, Shared, UnixNext
  PROVE  Shared'
<1>0. UnixTypeOK'
  BY UnixTyped
<1>n. "none" \notin Inodes /\ "file" \notin Inodes
  BY UnixAssumption
<1>s. Shared <=> OneStarts /\ OwnSockets /\ \A p \in Procs : Held(p)
  BY DEF Shared
<1>t. Shared' <=> OneStarts' /\ OwnSockets' /\ \A p \in Procs : Held(p)'
  BY DEF Shared
<1>1. ASSUME NEW p \in Procs, UnixStep(p)
      PROVE  Shared'
  <2>0. ASSUME NEW x, Goto(p, x)
        PROVE  upc'[p] = x /\ \A q \in Procs : q # p => upc'[q] = upc[q]
    BY <2>0 DEF Goto, UnixTypeOK
  <2>1. CASE BindListener(p)
    <3>1. {q \in Procs : upc[q] \in Binding} = {}
      <4>1. IsFiniteSet({q \in Procs : upc[q] \in Binding})
        BY UnixAssumption, FS_Subset
      <4>2. Cardinality({q \in Procs : upc[q] \in Binding}) < 1
        BY <2>1 DEF BindListener
      <4> QED
        BY <4>1, <4>2, FS_EmptySet, FS_CardinalityType
    <3>2. upc[p] = "idle" /\ upc'[p] = "bind"
          /\ \A q \in Procs : q # p => upc'[q] = upc[q]
      BY <2>0, <2>1 DEF BindListener
    <3>3. UNCHANGED <<path, sock, listening, identity, seen>>
      BY <2>1 DEF BindListener
    <3>4. OneStarts'
      BY <3>1, <3>2 DEF OneStarts
    <3>5. OwnSockets'
      BY <1>s, <3>3 DEF OwnSockets
    <3>6. \A q \in Procs : Held(q)'
      BY <1>s, <3>2, <3>3 DEF Held, Socketless, Serving, Releasing
    <3> QED
      BY <1>t, <3>4, <3>5, <3>6
  <2>2. ASSUME ThrowClosing(p), upc[p] \in Binding,
               upc[p] \notin {"chmod", "listen", "undo_lstat", "undo_unlink", "undo_close"}
        PROVE  Shared'
    <3>1. upc'[p] = "failed" /\ \A q \in Procs : q # p => upc'[q] = upc[q]
      BY <2>0, <2>2 DEF ThrowClosing
    <3>2. sock'[p] = "none" /\ \A q \in Procs : q # p => sock'[q] = sock[q]
      BY <2>2 DEF ThrowClosing, UnixTypeOK
    <3>3. UNCHANGED <<path, listening, identity, seen>>
      BY <2>2 DEF ThrowClosing
    <3>4. OneStarts'
      BY <1>s, <3>1 DEF OneStarts, Binding
    <3>5. OwnSockets'
      BY <1>s, <3>2 DEF OwnSockets
    <3>6. \A q \in Procs : Held(q)'
      BY <1>s, <1>n, <2>2, <3>1, <3>2, <3>3 DEF Held, Socketless, Serving, Releasing, Binding
    <3> QED
      BY <1>t, <3>4, <3>5, <3>6
  <2>3. ASSUME NEW from \in Socketless, from \in Binding,
               NEW taken \in Socketless, taken \in Binding \cup {"failed"},
               taken \notin {"recheck", "stale_unlink"}, Bind(p, from, taken)
        PROVE  Shared'
    <3>0. UNCHANGED <<listening, identity, seen>> /\ upc[p] = from
      BY <2>3 DEF Bind
    <3>1. CASE path # "none"
      <4>1. UNCHANGED <<path, sock>> /\ upc'[p] = taken
            /\ \A q \in Procs : q # p => upc'[q] = upc[q]
        BY <2>0, <2>3, <3>1 DEF Bind
      <4>2. OneStarts'
        BY <1>s, <2>3, <3>0, <4>1 DEF OneStarts
      <4>3. OwnSockets'
        BY <1>s, <4>1 DEF OwnSockets
      <4>4. \A q \in Procs : Held(q)'
        BY <1>s, <2>3, <3>0, <4>1 DEF Held, Socketless, Serving, Releasing, Binding
      <4> QED
        BY <1>t, <4>2, <4>3, <4>4
    <3>2. CASE path = "none"
      <4>0. PICK i \in FreeInodes : path' = i /\ sock' = [sock EXCEPT ![p] = i]
        BY <2>3, <3>2 DEF Bind
      <4>1. path' = i /\ sock'[p] = i /\ i \in Inodes /\ \A q \in Procs : sock[q] # i
        BY <4>0 DEF UnixTypeOK, FreeInodes
      <4>2. \A q \in Procs : q # p => sock'[q] = sock[q]
        BY <4>0 DEF UnixTypeOK
      <4>3. upc'[p] = "inspect" /\ \A q \in Procs : q # p => upc'[q] = upc[q]
        BY <2>0, <2>3, <3>2 DEF Bind
      <4>4. OneStarts'
        BY <1>s, <2>3, <3>0, <4>3 DEF OneStarts
      <4>5. OwnSockets'
        BY <1>s, <4>1, <4>2 DEF OwnSockets
      <4>6. Held(p)'
        BY <1>s, <1>n, <2>3, <3>0, <4>1, <4>3 DEF Held, Socketless, Serving, Releasing, Binding
      <4>7. ASSUME NEW q \in Procs, q # p
            PROVE  Held(q)'
        <5>1. Held(q) /\ upc[q] \notin Binding
          BY <1>s, <2>3, <3>0, <4>7 DEF OneStarts
        <5>2. upc'[q] = upc[q] /\ sock'[q] = sock[q] /\ identity'[q] = identity[q]
          BY <3>0, <4>2, <4>3, <4>7
        <5>3. upc[q] # "release_unlink"
          BY <1>n, <3>2, <5>1 DEF Held, Socketless
        <5> QED
          BY <1>n, <3>0, <4>1, <5>1, <5>2, <5>3 DEF Held, Socketless, Serving, Releasing, Binding
      <4> QED
        BY <1>t, <4>4, <4>5, <4>6, <4>7
    <3> QED
      BY <3>1, <3>2

  <2>4. ASSUME NEW x, Goto(p, x), UNCHANGED <<path, sock, listening, identity>>,
               x \in Binding => upc[p] \in Binding, Held(p)'
        PROVE  Shared'
    <3>1. upc'[p] = x /\ \A q \in Procs : q # p => upc'[q] = upc[q]
      BY <2>0, <2>4
    <3>2. OneStarts'
      BY <1>s, <2>4, <3>1 DEF OneStarts
    <3>3. OwnSockets'
      BY <1>s, <2>4 DEF OwnSockets
    <3>4. \A q \in Procs : q # p => Held(q)'
      BY <1>s, <2>4, <3>1 DEF Held
    <3> QED
      BY <1>t, <2>4, <3>2, <3>3, <3>4
  <2>5. CASE StaleLstat(p) \/ Probe(p) \/ Recheck(p)
    <3>0. /\ UNCHANGED <<path, sock, listening, identity>>
          /\ upc[p] \in {"stale_lstat", "probe", "recheck"}
          /\ sock[p] = "none" /\ p \notin listening /\ upc[p] \in Binding
      BY <1>s, <2>5 DEF StaleLstat, Probe, Recheck, Held, Socketless, Binding, Serving, Releasing
    <3>1. PICK x : /\ Goto(p, x)
                   /\ x \in {"rebind", "failed", "probe", "recheck", "stale_unlink"}
                   /\ x = "recheck" => upc[p] = "probe" /\ path # "none" /\ ~HasListener
                   /\ x = "stale_unlink" =>
                        upc[p] = "recheck" /\ path # "none" /\ path = seen[p]
      BY <2>5 DEF StaleLstat, Probe, Recheck
    <3>2. upc'[p] = x
      BY <2>0, <3>1
    <3>3. ASSUME x = "recheck", NEW q \in Procs, sock[q] = path
          PROVE  FALSE
      <4>1. q \notin listening /\ sock[q] # "none"
        BY <3>1, <3>3 DEF HasListener
      <4>2. upc[q] \notin Socketless /\ upc[q] \notin Serving
        BY <1>s, <4>1 DEF Held
      <4>3. upc[q] \in Binding
        BY <4>2 DEF UnixTypeOK, UPoints, Serving, Releasing, Binding, Socketless
      <4>4. q = p
        BY <1>s, <3>0, <4>3 DEF OneStarts
      <4> QED
        BY <3>0, <4>1, <4>4
    <3>4. x = "stale_unlink" => path # "file" /\ \A q \in Procs : sock[q] # path
      BY <1>s, <1>n, <3>1 DEF Held, UnixTypeOK
    <3>5. Held(p)'
      BY <3>0, <3>1, <3>2, <3>3, <3>4 DEF Held, Socketless, Serving, Releasing
    <3> QED
      BY <2>4, <3>0, <3>1, <3>5
  <2>6. CASE Chmod(p)
    <3>0. /\ UNCHANGED <<path, sock, listening, identity>> /\ upc[p] = "chmod"
          /\ sock[p] \in Inodes /\ identity[p] = sock[p] /\ p \notin listening
      BY <1>s, <2>6 DEF Chmod, Held, Socketless, Serving, Releasing
    <3>1. PICK x \in {"listen", "undo_lstat"} : Goto(p, x)
      BY <2>6 DEF Chmod
    <3>2. Held(p)'
      BY <2>0, <3>0, <3>1 DEF Held, Socketless, Serving, Releasing
    <3> QED
      BY <2>4, <3>0, <3>1, <3>2 DEF Binding
  <2>7. ASSUME NEW from, NEW m, NEW o, OwnedLstat(p, from, m, o),
               \/ from = "undo_lstat" /\ m = "undo_unlink" /\ o = "undo_close"
               \/ from = "release_lstat" /\ m = "release_unlink" /\ o = "close"
        PROVE  Shared'
    <3>0. /\ UNCHANGED <<path, sock, listening, identity>> /\ upc[p] = from
          /\ sock[p] \in Inodes /\ identity[p] = sock[p]
          /\ p \in listening <=> from = "release_lstat"
      BY <1>s, <2>7 DEF OwnedLstat, Held, Socketless, Serving, Releasing
    <3>1. CASE path = identity[p]
      <4>1. Goto(p, m)
        BY <2>7, <3>1 DEF OwnedLstat
      <4>2. Held(p)'
        BY <2>0, <2>7, <3>0, <3>1, <4>1 DEF Held, Socketless, Serving, Releasing
      <4> QED
        BY <2>4, <2>7, <3>0, <4>1, <4>2 DEF Binding
    <3>2. CASE path # identity[p]
      <4>1. Goto(p, o)
        BY <2>7, <3>2 DEF OwnedLstat
      <4>2. Held(p)'
        BY <2>0, <2>7, <3>0, <3>2, <4>1 DEF Held, Socketless, Serving, Releasing
      <4> QED
        BY <2>4, <2>7, <3>0, <4>1, <4>2 DEF Binding
    <3> QED
      BY <3>1, <3>2
  <2>8. CASE BeginRelease(p) \/ Recover(p)
    <3>0. /\ UNCHANGED <<path, sock, listening, identity>>
          /\ \/ upc[p] = "serving" /\ Goto(p, "release_lstat")
             \/ upc[p] = "failed" /\ Goto(p, "idle")
      BY <2>8 DEF BeginRelease, Recover
    <3>1. Held(p)'
      BY <1>s, <2>0, <3>0 DEF Held, Socketless, Serving, Releasing
    <3> QED
      BY <2>4, <3>0, <3>1 DEF Binding
  <2>9. CASE Inspect(p)
    <3>1. CASE path \notin Inodes
      BY <2>2, <2>9, <3>1 DEF Inspect, Binding
    <3>2. CASE path \in Inodes
      <4>0. /\ UNCHANGED <<path, sock, listening>> /\ upc[p] = "inspect"
            /\ Goto(p, "chmod") /\ path = sock[p] /\ p \notin listening
            /\ identity'[p] = path
            /\ \A q \in Procs : q # p => identity'[q] = identity[q]
        BY <1>s, <2>9, <3>2 DEF Inspect, UnixTypeOK, Held, Serving, Releasing
      <4>1. upc'[p] = "chmod" /\ \A q \in Procs : q # p => upc'[q] = upc[q]
        BY <2>0, <4>0
      <4>2. OneStarts'
        BY <1>s, <4>0, <4>1 DEF OneStarts, Binding
      <4>3. OwnSockets'
        BY <1>s, <4>0 DEF OwnSockets
      <4>4. \A q \in Procs : q # p => Held(q)'
        BY <1>s, <4>0, <4>1 DEF Held
      <4>5. Held(p)'
        BY <3>2, <4>0, <4>1 DEF Held, Socketless, Serving, Releasing
      <4> QED
        BY <1>t, <4>2, <4>3, <4>4, <4>5
    <3> QED
      BY <3>1, <3>2
  <2>10. CASE Listen(p)
    <3>1. CASE UNCHANGED listening /\ Goto(p, "undo_lstat")
      <4>0. UNCHANGED <<path, sock, identity>> /\ upc[p] = "listen"
        BY <2>10 DEF Listen
      <4>1. Held(p)'
        BY <1>s, <2>0, <3>1, <4>0 DEF Held, Socketless, Serving, Releasing
      <4> QED
        BY <2>4, <3>1, <4>0, <4>1 DEF Binding
    <3>2. CASE listening' = listening \cup {p} /\ Goto(p, "serving")
      <4>0. UNCHANGED <<path, sock, identity>> /\ upc[p] = "listen"
        BY <2>10 DEF Listen
      <4>1. upc'[p] = "serving" /\ \A q \in Procs : q # p => upc'[q] = upc[q]
        BY <2>0, <3>2
      <4>2. OneStarts'
        BY <1>s, <4>1 DEF OneStarts, Binding
      <4>3. OwnSockets'
        BY <1>s, <4>0 DEF OwnSockets
      <4>4. \A q \in Procs : q # p => Held(q)'
        BY <1>s, <3>2, <4>0, <4>1 DEF Held
      <4>5. Held(p)'
        BY <1>s, <3>2, <4>0, <4>1 DEF Held, Socketless, Serving, Releasing
      <4> QED
        BY <1>t, <4>2, <4>3, <4>4, <4>5
    <3> QED
      BY <2>10, <3>1, <3>2 DEF Listen

  <2>11. ASSUME NEW x \in {"failed", "idle"}, Goto(p, x), UNCHANGED path,
                sock' = [sock EXCEPT ![p] = "none"],
                identity' = [identity EXCEPT ![p] = "none"],
                listening' = listening \ {p}
         PROVE  Shared'
    <3>1. upc'[p] = x /\ \A q \in Procs : q # p => upc'[q] = upc[q]
      BY <2>0, <2>11
    <3>2. /\ sock'[p] = "none"
          /\ \A q \in Procs : q # p => sock'[q] = sock[q] /\ identity'[q] = identity[q]
      BY <2>11 DEF UnixTypeOK
    <3>3. OneStarts'
      BY <1>s, <2>11, <3>1 DEF OneStarts, Binding
    <3>4. OwnSockets'
      BY <1>s, <3>2 DEF OwnSockets
    <3>5. Held(p)'
      BY <2>11, <3>1, <3>2 DEF Held, Socketless, Serving, Releasing
    <3>6. \A q \in Procs : q # p => Held(q)'
      BY <1>s, <2>11, <3>1, <3>2 DEF Held
    <3> QED
      BY <1>t, <3>3, <3>4, <3>5, <3>6
  <2>12. CASE UndoClose(p) \/ CloseListener(p) \/ Crash(p)
    <3>1. CASE UndoClose(p)
      <4>1. p \notin listening
        BY <1>s, <3>1 DEF UndoClose, Held, Serving, Releasing
      <4>2. listening' = listening \ {p}
        BY <3>1, <4>1 DEF UndoClose
      <4> QED
        BY <2>11, <3>1, <4>2 DEF UndoClose
    <3>2. CASE CloseListener(p) \/ Crash(p)
      BY <2>11, <3>2 DEF CloseListener, Crash
    <3> QED
      BY <2>12, <3>1, <3>2
  <2>13. ASSUME NEW from, NEW next, UnlinkPath(p, from, next),
                \/ from = "stale_unlink" /\ next = "rebind"
                \/ from = "undo_unlink" /\ next = "undo_close"
                \/ from = "release_unlink" /\ next = "close"
         PROVE  Shared'
    <3>0. /\ UNCHANGED <<sock, listening, identity>> /\ path' = "none"
          /\ upc[p] = from
      BY <2>13 DEF UnlinkPath
    <3>1. upc'[p] = next /\ \A q \in Procs : q # p => upc'[q] = upc[q]
      BY <2>0, <2>13 DEF UnlinkPath
    <3>2. OneStarts'
      BY <1>s, <2>13, <3>0, <3>1 DEF OneStarts, Binding
    <3>3. OwnSockets'
      BY <1>s, <3>0 DEF OwnSockets
    <3>4. Held(p)'
      BY <1>s, <1>n, <2>13, <3>0, <3>1 DEF Held, Socketless, Serving, Releasing
    <3>5. ASSUME NEW q \in Procs, q # p
          PROVE  Held(q)'
      <4>1. ASSUME upc[q] \in {"inspect", "release_unlink", "undo_unlink"}
            PROVE  FALSE
        <5>1. path = sock[q] /\ sock[q] \in Inodes
          BY <1>s, <4>1 DEF Held, Socketless
        <5>2. CASE from = "stale_unlink"
          BY <1>s, <1>n, <2>13, <3>0, <5>1, <5>2 DEF Held
        <5>3. CASE from # "stale_unlink"
          <6>1. path = sock[p]
            BY <1>s, <2>13, <3>0, <5>3 DEF Held
          <6> QED
            BY <1>s, <1>n, <3>5, <5>1, <6>1 DEF OwnSockets
        <5> QED
          BY <5>2, <5>3
      <4>2. Held(q) /\ upc'[q] = upc[q]
        BY <1>s, <3>1, <3>5
      <4> QED
        BY <1>n, <3>0, <4>1, <4>2 DEF Held, Socketless
    <3> QED
      BY <1>t, <3>2, <3>3, <3>4, <3>5
  <2>14. CASE BindStep(p)
    <3>1. CASE FirstBind(p) \/ SecondBind(p)
      BY <2>3, <3>1 DEF FirstBind, SecondBind, Socketless, Binding
    <3>2. CASE CallFails(p)
      BY <2>2, <3>2 DEF CallFails, Binding
    <3>3. CASE StaleUnlink(p) \/ UndoUnlink(p)
      BY <2>13, <3>3 DEF StaleUnlink, UndoUnlink
    <3>4. CASE UndoLstat(p)
      BY <2>7, <3>4 DEF UndoLstat
    <3> QED
      BY <2>14, <3>1, <3>2, <3>3, <3>4, <2>5, <2>6, <2>9, <2>10, <2>12 DEF BindStep
  <2>15. CASE ReleaseStep(p)
    BY <2>7, <2>12, <2>13, <2>15 DEF ReleaseStep, ReleaseLstat, ReleaseUnlink
  <2> QED
    BY <1>1, <2>1, <2>8, <2>12, <2>14, <2>15 DEF UnixStep
<1>2. CASE Operator
  <2>1. /\ UNCHANGED <<sock, listening, identity, upc>>
        /\ path' \in {"none", "file"}
        /\ \A p \in Procs : upc[p] \notin Binding \cup Releasing
    BY <1>2 DEF Operator
  <2>2. OneStarts' /\ OwnSockets'
    BY <1>s, <2>1 DEF OneStarts, OwnSockets
  <2>3. \A p \in Procs : Held(p)'
    BY <1>s, <1>n, <2>1 DEF Held, Binding, Releasing
  <2> QED
    BY <1>t, <2>2, <2>3
<1>3. CASE UNCHANGED unixVars
  <2>1. UNCHANGED <<path, sock, listening, identity, seen, upc>>
    BY <1>3 DEF unixVars
  <2> QED
    BY <1>s, <1>t, <2>1 DEF OneStarts, OwnSockets, Held
<1> QED
  BY <1>1, <1>2, <1>3 DEF UnixNext

-----------------------------------------------------------------------------
(* The owner and the workers *)

(* A server that has just been constructed, or whose process has just been *)
(* started again.                                                          *)
LEMMA NewTyped ==
  ASSUME NewServer
  PROVE  /\ phase \in Phases /\ closing = "none" /\ result = "none"
         /\ worker \in [Threads -> {"none", "spawned", "loop", "done"}]
         /\ loaded \in [TlsListeners -> Contexts] /\ tls \in [TlsListeners -> Contexts]
         /\ before \in [TlsListeners -> Contexts]
         /\ index \in 1..(TlsCount + 1) /\ chain \in Generations /\ key \in Generations
         /\ failLog \in Seq(Threads) /\ Len(failLog) = 0
         /\ latch \in 0..Workers /\ failure \in 0..Workers
<1>1. /\ Workers \in Nat /\ TlsCount \in Nat /\ MaxRotations \in Nat
  BY ServerAssumption
<1>2. NoContexts \in [TlsListeners -> Contexts]
  BY <1>1 DEF NoContexts, NoContext, Contexts, Generations
<1>3. <<>> \in Seq(Threads) /\ Len(<<>>) = 0
  BY EmptySeq
<1> QED
  BY <1>1, <1>2, <1>3 DEF NewServer, Phases, Generations

(* How many workers are in a state, while one of them moves. *)
LEMMA Counts ==
  /\ IsFiniteSet(Fresh) /\ Cardinality(Fresh) \in Nat
  /\ IsFiniteSet(Spawned) /\ Cardinality(Spawned) \in 0..Workers
  /\ IsFiniteSet(Done) /\ Cardinality(Done) \in 0..Workers
  /\ Cardinality(Fresh) <= Cardinality(Spawned)
<1>1. Workers \in Nat
  BY ServerAssumption
<1>2. IsFiniteSet(Threads) /\ Cardinality(Threads) = Workers
  BY <1>1, FS_Interval DEF Threads
<1>3. /\ Fresh \subseteq Spawned /\ Spawned \subseteq Threads
      /\ Done \subseteq Threads /\ Fresh \subseteq Threads
  BY DEF Fresh, Spawned, Done
<1>4. /\ IsFiniteSet(Spawned) /\ Cardinality(Spawned) <= Workers
      /\ IsFiniteSet(Done) /\ Cardinality(Done) <= Workers
      /\ IsFiniteSet(Fresh)
  BY <1>2, <1>3, FS_Subset
<1>5. Cardinality(Fresh) <= Cardinality(Spawned)
  BY <1>3, <1>4, FS_Subset
<1> QED
  BY <1>1, <1>2, <1>4, <1>5, FS_CardinalityType

(* SpawnWorker creates the thread after those that exist already. *)
LEMMA Spawning ==
  ASSUME Latched, SpawnWorker
  PROVE  \E w \in Threads :
           /\ worker[w] = "none" /\ worker' = [worker EXCEPT ![w] = "spawned"]
           /\ Spawned = 1..(w - 1) /\ Cardinality(Spawned) = w - 1
           /\ phase' = IF w = Workers THEN "latch" ELSE "spawn"
<1>0. Workers \in Nat
  BY ServerAssumption
<1>1. PICK k \in 0..(Workers - 1) : Spawned = 1..k
  BY DEF Latched, SpawnWorker
<1>2. Cardinality(Spawned) = k
  BY <1>0, <1>1, FS_Interval
<1>3. k + 1 \in Threads /\ k + 1 \notin Spawned /\ (k + 1) - 1 = k
  BY <1>0, <1>1 DEF Threads
<1>4. worker[k + 1] = "none"
  BY <1>3 DEF Spawned
<1>5. worker' = [worker EXCEPT ![k + 1] = "spawned"]
      /\ phase' = IF k + 1 = Workers THEN "latch" ELSE "spawn"
  BY <1>2 DEF SpawnWorker
<1> QED
  BY <1>1, <1>2, <1>3, <1>4, <1>5

LifeTyped ==
  /\ phase \in Phases
  /\ closing \in {"none", "start", "wait", "destroy"}
  /\ result \in {"none", "returned", "threw", "rethrew"}
  /\ started \in BOOLEAN /\ stop \in BOOLEAN /\ reactors \in BOOLEAN
  /\ failure \in 0..Workers
  /\ failLog \in Seq(Threads) /\ Len(failLog) <= Workers
  /\ worker \in [Threads -> {"none", "spawned", "loop", "done"}]
  /\ latch \in 0..Workers
  /\ stopper \in {"idle", "waking"}

LifeInv == LifeTyped /\ Phased /\ Recorded /\ Latched

(* A step of the owner inside start(), or between start() and the end of   *)
(* wait(), that leaves the workers alone.                                  *)
LEMMA OwnerMoves ==
  ASSUME LifeInv, UNCHANGED <<started, failure, failLog, worker, latch, reactors, stopper>>,
         closing' \in {"none", "start", "wait", "destroy"},
         result' \in {"none", "returned", "threw", "rethrew"}, stop' \in BOOLEAN,
         \/ phase \in Building /\ phase' \in Building
         \/ /\ phase \in Living \ {"spawn", "release"}
            /\ phase' \in Living \ {"spawn", "release"}
  PROVE  LifeInv'
<1>1. phase' \in Phases /\ phase # "spawn" /\ phase' # "spawn"
  BY DEF Building, Living, Phases
<1>2. LifeTyped'
  BY <1>1 DEF LifeInv, LifeTyped
<1>3. Phased'
  BY DEF LifeInv, Phased, Building, Living, Over, AllJoined
<1>4. Recorded'
  BY DEF LifeInv, Recorded, Building, Living
<1>5. Fresh' = Fresh /\ Spawned' = Spawned /\ Done' = Done
  BY DEF Fresh, Spawned, Done
<1>6. Latched'
  BY <1>1, <1>5 DEF LifeInv, Latched
<1> QED
  BY <1>2, <1>3, <1>4, <1>6 DEF LifeInv

(* A step that is not one of the owner's or of a worker's. *)
LEMMA LifeAlone ==
  ASSUME LifeInv, UNCHANGED lifeVars
  PROVE  LifeInv'
<1>1. UNCHANGED <<phase, closing, result, started, stop, failure, failLog, worker,
                  latch, reactors, stopper>>
  BY DEF lifeVars
<1>2. LifeTyped'
  BY <1>1 DEF LifeInv, LifeTyped
<1>3. Phased' /\ Recorded'
  BY <1>1 DEF LifeInv, Phased, Recorded, AllJoined
<1>5. Fresh' = Fresh /\ Spawned' = Spawned /\ Done' = Done
  BY <1>1 DEF Fresh, Spawned, Done
<1>6. Latched'
  BY <1>1, <1>5 DEF LifeInv, Latched
<1> QED
  BY <1>2, <1>3, <1>6 DEF LifeInv

(* A new server. *)
LEMMA LifeStarts ==
  ASSUME NewServer
  PROVE  LifeInv
<1>0. Workers \in Nat /\ Len(failLog) <= Workers
  BY NewTyped, ServerAssumption
<1>1. LifeTyped
  <2>1. /\ closing = "none" /\ result = "none" /\ started = FALSE /\ stop = FALSE
        /\ reactors = FALSE /\ stopper = "idle"
    BY DEF NewServer
  <2> QED
    BY <1>0, <2>1, NewTyped DEF LifeTyped
<1>2. Phased
  BY DEF NewServer, Phased, Building, Living, Over
<1>3. Recorded
  BY DEF NewServer, Recorded
<1>4. Fresh = {} /\ Done = {}
  BY DEF NewServer, Fresh, Done
<1>5. Latched
  BY <1>4, FS_EmptySet, NewTyped DEF NewServer, Latched
<1> QED
  BY <1>1, <1>2, <1>3, <1>5 DEF LifeInv

(* start(), wait(), ~Server() and reload_tls(). *)
LEMMA OwnerLives ==
  ASSUME LifeInv, OwnerStep \/ OwnerChoice
  PROVE  LifeInv'
<1>0. LifeTyped /\ Phased /\ Recorded /\ Latched
  BY DEF LifeInv
<1>w. Workers \in Nat \ {0}
  BY ServerAssumption
<1>1. CASE BindUnix \/ UseChain \/ UsePrivateKey \/ BeginUnwind \/ UnwindRelease
           \/ ReleasePath
  <2>1. UNCHANGED lifeVars
    BY <1>1, Zenon DEF BindUnix, UseChain, UsePrivateKey, BeginUnwind, UnwindRelease,
                ReleasePath
  <2> QED
    BY <2>1, LifeAlone
<1>2. CASE UnixDone \/ BindTcp \/ EndUnwind \/ RejectOptions
  BY <1>0, <1>2, OwnerMoves
     DEF UnixDone, BindTcp, EndUnwind, RejectOptions, LifeTyped, Building, tlsVars
<1>3. CASE MakeState
  <2>1. failure = 0
    BY <1>0, <1>3 DEF MakeState, Phased, Recorded, Building
  <2> QED
    BY <1>0, <1>3, <2>1, OwnerMoves DEF MakeState, LifeTyped, Building
<1>4. CASE Create \/ CreateThrows
  BY <1>0, <1>4, OwnerMoves DEF Create, CreateThrows, Creating, LifeTyped, Building, Living
<1>5. CASE LatchWait \/ Wait \/ Destroy \/ ReloadBegin \/ StoreContext
  BY <1>0, <1>5, OwnerMoves
     DEF LatchWait, Wait, Destroy, ReloadBegin, StoreContext, LifeTyped, Living
<1>6. CASE MakeReactors
  <2>1. CASE phase' = "unwind" /\ UNCHANGED <<started, reactors, latch>>
    BY <1>0, <1>6, <2>1, OwnerMoves DEF MakeReactors, LifeTyped, Building
  <2>2. CASE phase' = "spawn" /\ started' = TRUE /\ reactors' = TRUE /\ latch' = Workers
    <3>0. /\ UNCHANGED <<closing, result, stop, failure, failLog, worker, stopper>>
          /\ phase = "reactors"
      BY <1>6 DEF MakeReactors
    <3>1. LifeTyped'
      BY <1>0, <1>w, <2>2, <3>0 DEF LifeTyped, Phases
    <3>2. Phased'
      BY <1>0, <2>2, <3>0 DEF Phased, Building, Living, Over
    <3>3. Recorded'
      BY <1>0, <2>2, <3>0 DEF Recorded
    <3>4. worker = [w \in Threads |-> "none"]
      BY <1>0, <3>0 DEF Phased, Building
    <3>5. Fresh' = {} /\ Spawned' = {} /\ Spawned' = 1..0 /\ Done' = Done
      BY <3>0, <3>4 DEF Fresh, Spawned, Done
    <3>6. Latched'
      BY <1>0, <1>w, <2>2, <3>0, <3>5, FS_EmptySet DEF Latched
    <3> QED
      BY <3>1, <3>2, <3>3, <3>6 DEF LifeInv
  <2> QED
    BY <1>6, <2>1, <2>2 DEF MakeReactors

<1>7. CASE SpawnWorker
  <2>0. /\ UNCHANGED <<closing, result, started, stop, failure, failLog, latch, reactors,
                       stopper>>
        /\ phase = "spawn"
    BY <1>7 DEF SpawnWorker
  <2>1. PICK w \in Threads :
           /\ worker[w] = "none" /\ worker' = [worker EXCEPT ![w] = "spawned"]
           /\ Spawned = 1..(w - 1) /\ Cardinality(Spawned) = w - 1
           /\ phase' = IF w = Workers THEN "latch" ELSE "spawn"
    BY <1>0, <1>7, Spawning
  <2>2. w \in 1..Workers
    BY DEF Threads
  <2>3. LifeTyped'
    BY <1>0, <2>0, <2>1 DEF LifeTyped, Phases
  <2>4. Phased' /\ Recorded'
    BY <1>0, <2>0, <2>1 DEF Phased, Recorded, Building, Living, Over
  <2>5. /\ Fresh' = Fresh \cup {w} /\ w \notin Fresh /\ Done' = Done
        /\ Spawned' = Spawned \cup {w} /\ w \notin Spawned
    BY <1>0, <2>1 DEF LifeTyped, Fresh, Spawned, Done
  <2>6. /\ Cardinality(Fresh') = Cardinality(Fresh) + 1
        /\ Cardinality(Spawned') = w
    <3>1. Cardinality(Fresh') = Cardinality(Fresh) + 1
      BY <2>5, Counts, FS_AddElement
    <3>2. Cardinality(Spawned') = Cardinality(Spawned) + 1
      BY <2>5, Counts, FS_AddElement
    <3> QED
      BY <2>1, <2>2, <3>1, <3>2
  <2>7. Spawned' = 1..w
    BY <1>w, <2>1, <2>2, <2>5
  <2>8. Latched'
    <3>1. latch = Cardinality(Fresh) + (Workers - (w - 1)) /\ Cardinality(Fresh) \in Nat
      BY <1>0, <2>0, <2>1, Counts DEF Latched
    <3>2. CASE w = Workers
      BY <1>0, <1>w, <2>0, <2>1, <2>2, <2>5, <2>6, <3>1, <3>2 DEF Latched
    <3>3. CASE w # Workers
      <4>1. w \in 0..(Workers - 1)
        BY <1>w, <2>2, <3>3
      <4>2. phase' = "spawn"
        BY <2>1, <3>3
      <4>3. latch' = Cardinality(Fresh') + (Workers - Cardinality(Spawned'))
        BY <1>w, <2>0, <2>2, <2>6, <3>1
      <4>4. Len(failLog)' <= Cardinality(Done)'
        BY <1>0, <2>0, <2>5 DEF Latched
      <4> QED
        BY <2>7, <4>1, <4>2, <4>3, <4>4 DEF Latched
    <3> QED
      BY <3>2, <3>3
  <2> QED
    BY <2>3, <2>4, <2>8 DEF LifeInv
<1>8. CASE SpawnFails
  <2>0. /\ UNCHANGED <<closing, started, failure, failLog, worker, reactors, stopper>>
        /\ phase = "spawn" /\ phase' = "threw" /\ result' = "threw" /\ stop' = TRUE
        /\ latch' = latch - (Workers - Cardinality(Spawned))
    BY <1>8 DEF SpawnFails
  <2>1. latch = Cardinality(Fresh) + (Workers - Cardinality(Spawned))
    BY <1>0, <2>0 DEF Latched
  <2>2. latch' = Cardinality(Fresh) /\ Cardinality(Fresh) \in 0..Workers
    BY <1>w, <2>0, <2>1, Counts
  <2>3. Fresh' = Fresh /\ Done' = Done
    BY <2>0 DEF Fresh, Done
  <2>4. LifeTyped'
    BY <1>0, <2>0, <2>2 DEF LifeTyped, Phases
  <2>5. Phased' /\ Recorded'
    BY <1>0, <2>0 DEF Phased, Recorded, Building, Living, Over
  <2>6. Latched'
    BY <1>0, <2>0, <2>2, <2>3 DEF Latched
  <2> QED
    BY <2>4, <2>5, <2>6 DEF LifeInv
<1>9. CASE Join \/ ClearAll \/ DestroyIdle
  <2>0. /\ UNCHANGED <<closing, started, failure, failLog, worker, latch, stopper>>
        /\ phase # "spawn" /\ phase' # "spawn"
    BY <1>9 DEF Join, ClearAll, DestroyIdle
  <2>1. LifeTyped'
    BY <1>0, <1>9 DEF Join, ClearAll, DestroyIdle, LifeTyped, Phases
  <2>2. Fresh' = Fresh /\ Done' = Done
    BY <2>0 DEF Fresh, Done
  <2>3. Latched'
    BY <1>0, <2>0, <2>2 DEF Latched
  <2>4. Phased'
    <3>1. CASE Join
      BY <1>0, <2>0, <3>1 DEF Join, Phased, Building, Living, Over, AllJoined
    <3>2. CASE ClearAll
      BY <1>0, <2>0, <3>2 DEF ClearAll, Phased, Building, Living, Over, AllJoined
    <3>3. CASE DestroyIdle
      BY <1>0, <2>0, <3>3 DEF DestroyIdle, Phased, Building, Living, Over, AllJoined
    <3> QED
      BY <1>9, <3>1, <3>2, <3>3
  <2>5. Recorded'
    BY <1>0, <1>9, <2>0 DEF Join, ClearAll, DestroyIdle, Recorded
  <2> QED
    BY <2>1, <2>3, <2>4, <2>5 DEF LifeInv
<1>10. CASE Again
  <2>1. NewServer'
    BY <1>10 DEF Again, BecomeNewServer, NewServer
  <2> QED
    BY <2>1, LifeStarts, PTL
<1> QED
  BY <1>1, <1>2, <1>3, <1>4, <1>5, <1>6, <1>7, <1>8, <1>9, <1>10 DEF OwnerStep, OwnerChoice

(* Reactor::run(), fail() and stop(). *)
LEMMA WorkersLive ==
  ASSUME LifeInv, StopRequest \/ StopWakes
                  \/ \E w \in Threads : WorkerStep(w) \/ WorkerFails(w)
  PROVE  LifeInv'
<1>0. LifeTyped /\ Phased /\ Recorded /\ Latched
  BY DEF LifeInv
<1>w. Workers \in Nat \ {0}
  BY ServerAssumption
<1>1. CASE StopRequest \/ StopWakes
  <2>0. UNCHANGED <<phase, closing, result, started, failure, failLog, worker, latch, reactors>>
    BY <1>1 DEF StopRequest, StopWakes
  <2>1. LifeTyped'
    BY <1>0, <1>1 DEF StopRequest, StopWakes, LifeTyped
  <2>2. Phased'
    BY <1>0, <1>1, <2>0
       DEF StopRequest, StopWakes, Phased, Building, Living, Over, AllJoined
  <2>3. Fresh' = Fresh /\ Spawned' = Spawned /\ Done' = Done
    BY <2>0 DEF Fresh, Spawned, Done
  <2>4. Recorded' /\ Latched'
    BY <1>0, <2>0, <2>3 DEF Recorded, Latched
  <2> QED
    BY <2>1, <2>2, <2>4 DEF LifeInv
<1>2. ASSUME NEW w \in Threads, NEW x \in {"loop", "done"},
             worker[w] \in {"spawned", "loop"}, worker' = [worker EXCEPT ![w] = x],
             UNCHANGED <<phase, result, started, reactors, stopper>>,
             phase \in Building => failLog' = failLog
      PROVE  Phased' /\ Spawned' = Spawned
  <2>1. phase \notin Building \cup {"release"} \cup Over
    BY <1>0, <1>2 DEF Phased, AllJoined
  <2>2. Phased'
    BY <1>0, <1>2, <2>1 DEF Phased, Building, Living, Over
  <2>3. Spawned' = Spawned
    BY <1>0, <1>2 DEF LifeTyped, Spawned
  <2> QED
    BY <2>2, <2>3
<1>3. ASSUME NEW w \in Threads, WorkerReady(w)
      PROVE  LifeInv'
  <2>0. /\ UNCHANGED <<phase, closing, result, started, stop, failure, failLog, reactors, stopper>>
        /\ worker[w] = "spawned" /\ worker' = [worker EXCEPT ![w] = "loop"]
        /\ latch' = latch - 1
    BY <1>3 DEF WorkerReady
  <2>1. Fresh' = Fresh \ {w} /\ w \in Fresh /\ Done' = Done
    BY <1>0, <2>0 DEF LifeTyped, Fresh, Done
  <2>2. Cardinality(Fresh') = Cardinality(Fresh) - 1
    BY <2>1, Counts, FS_RemoveElement
  <2>3. Phased' /\ Spawned' = Spawned
    BY <1>2, <2>0
  <2>4. latch >= 1
    <3>1. Cardinality(Fresh) >= 1
      BY <2>1, Counts, FS_EmptySet
    <3> QED
      BY <1>0, <1>w, <3>1, Counts DEF Latched, LifeTyped
  <2>5. LifeTyped'
    BY <1>0, <1>w, <2>0, <2>4 DEF LifeTyped
  <2>6. Recorded' /\ Latched'
    BY <1>0, <1>w, <2>0, <2>1, <2>2, <2>3, Counts DEF Recorded, Latched, LifeTyped
  <2> QED
    BY <2>3, <2>5, <2>6 DEF LifeInv
<1>4. ASSUME NEW w \in Threads, WorkerStops(w) \/ WorkerFails(w)
      PROVE  LifeInv'
  <2>0. /\ UNCHANGED <<phase, closing, result, started, reactors, stopper, latch>>
        /\ worker[w] = "loop" /\ worker' = [worker EXCEPT ![w] = "done"]
        /\ stop' \in BOOLEAN
    BY <1>0, <1>4 DEF WorkerStops, WorkerFails, LifeTyped
  <2>1. Fresh' = Fresh /\ Done' = Done \cup {w} /\ w \notin Done
    BY <1>0, <2>0 DEF LifeTyped, Fresh, Done
  <2>2. Cardinality(Done') = Cardinality(Done) + 1
    BY <2>1, Counts, FS_AddElement
  <2>3. phase \notin Building \cup {"release"} \cup Over
    BY <1>0, <2>0 DEF Phased, AllJoined
  <2>4. Phased' /\ Spawned' = Spawned
    BY <1>2, <2>0, <2>3
  <2>5. /\ failLog' \in Seq(Threads)
        /\ Len(failLog') <= Cardinality(Done')
        /\ failure' = IF failLog' = <<>> THEN 0 ELSE Head(failLog')
        /\ failure' \in 0..Workers
    <3>1. CASE WorkerStops(w)
      BY <1>0, <2>2, <3>1, Counts DEF WorkerStops, LifeTyped, Latched, Recorded
    <3>2. CASE WorkerFails(w)
      <4>1. failLog' = Append(failLog, w) /\ failLog \in Seq(Threads)
            /\ Len(failLog) \in Nat /\ Len(failLog) <= Cardinality(Done)
            /\ failure' = IF failure = 0 THEN w ELSE failure
        BY <1>0, <3>2 DEF WorkerFails, RecordFailure, LifeTyped, Latched
      <4>2. /\ failLog' \in Seq(Threads) /\ failLog' # <<>>
            /\ Len(failLog') = Len(failLog) + 1
        BY <4>1, AppendProperties
      <4>3. w \in 1..Workers
        BY DEF Threads
      <4>4. CASE failLog = <<>>
        <5>1. Head(failLog') = w
          BY <4>1, <4>4
        <5> QED
          BY <1>0, <2>2, <4>1, <4>2, <4>3, <4>4, <5>1, Counts DEF Recorded
      <4>5. CASE failLog # <<>>
        <5>1. Head(failLog') = Head(failLog) /\ Head(failLog) \in Threads
          BY <4>1, <4>5, HeadTailProperties
        <5>2. failure = Head(failLog) /\ failure # 0
          BY <1>0, <4>5, <5>1 DEF Recorded, Threads
        <5> QED
          BY <2>2, <4>1, <4>2, <5>1, <5>2, Counts DEF Threads
      <4> QED
        BY <4>4, <4>5
    <3> QED
      BY <1>4, <3>1, <3>2
  <2>6. Len(failLog') <= Workers
    <3>1. Len(failLog') \in Nat
      BY <2>5, LenProperties
    <3>2. Cardinality(Done)' \in 0..Workers
      <4>1. Done' \subseteq Threads /\ IsFiniteSet(Threads) /\ Cardinality(Threads) = Workers
        BY <1>w, FS_Interval DEF Done, Threads
      <4>2. IsFiniteSet(Done') /\ Cardinality(Done') <= Workers
        BY <4>1, FS_Subset
      <4> QED
        BY <1>w, <4>2, FS_CardinalityType
    <3> QED
      BY <1>w, <2>5, <3>1, <3>2
  <2>7. LifeTyped'
    BY <1>0, <2>0, <2>5, <2>6 DEF LifeTyped
  <2>8. Recorded'
    BY <2>0, <2>3, <2>5 DEF Recorded, Over
  <2>9. Latched'
    BY <1>0, <2>0, <2>1, <2>4, <2>5 DEF Latched
  <2> QED
    BY <2>4, <2>7, <2>8, <2>9 DEF LifeInv
<1> QED
  BY <1>1, <1>3, <1>4 DEF WorkerStep

-----------------------------------------------------------------------------
(* The contexts of the TLS listeners *)

TlsTyped ==
  /\ chainFile \in Generations /\ keyFile \in Generations
  /\ index \in 1..(TlsCount + 1)
  /\ chain \in Generations /\ key \in Generations
  /\ loaded \in [TlsListeners -> Contexts]
  /\ tls \in [TlsListeners -> Contexts]
  /\ before \in [TlsListeners -> Contexts]

TlsInv == TlsTyped /\ Paired

(* No listener has a context: what a new server and a cleared one share. *)
LEMMA NoPairs ==
  /\ NoContexts \in [TlsListeners -> Contexts]
  /\ \A l \in TlsListeners : NoContexts[l].chain = NoContexts[l].key
<1>1. NoContext \in Contexts /\ NoContext.chain = NoContext.key
  BY ServerAssumption DEF NoContext, Contexts, Generations
<1> QED
  BY <1>1 DEF NoContexts

(* A step that leaves the contexts alone, and begins neither a start nor a *)
(* reload.                                                                 *)
LEMMA TlsAlone ==
  ASSUME TlsInv, UNCHANGED tlsVars,
         phase' \in {"tls", "tcp", "reload", "store"} => phase' = phase
  PROVE  TlsInv'
<1>1. UNCHANGED <<chainFile, keyFile, index, chain, key, loaded, tls, before>>
  BY DEF tlsVars
<1> QED
  BY <1>1 DEF TlsInv, TlsTyped, Paired

(* TlsContext::create(), the binding of the listeners and reload_tls(). *)
LEMMA TlsMoves ==
  ASSUME TlsInv, UnixDone \/ UseChain \/ UsePrivateKey \/ Create \/ BindTcp \/ EndUnwind
                 \/ ClearAll \/ StoreContext \/ CreateThrows \/ ReloadBegin
                 \/ RotateChain \/ RotateKey
  PROVE  TlsInv'
<1>0. TlsTyped /\ Paired
  BY DEF TlsInv
<1>n. TlsCount \in Nat /\ MaxRotations \in Nat
  BY ServerAssumption
<1>1. CASE UnixDone
  <2>1. phase' = "tls" => TlsCount # 0
    BY <1>1 DEF UnixDone
  <2>2. phase' \in {"unwind", "reactors", "tls"}
    BY <1>1 DEF UnixDone
  <2>3. UNCHANGED <<chainFile, keyFile, chain, key, loaded, tls, before>> /\ index' = 1
    BY <1>1 DEF UnixDone
  <2> QED
    BY <1>0, <1>n, <2>1, <2>2, <2>3 DEF TlsInv, TlsTyped, Paired, TlsListeners
<1>2. CASE UseChain \/ UsePrivateKey \/ RotateChain \/ RotateKey
  <2>1. UNCHANGED <<index, loaded, tls, before, phase>>
    BY <1>2 DEF UseChain, UsePrivateKey, RotateChain, RotateKey, lifeVars
  <2>2. Paired'
    BY <1>0, <2>1 DEF Paired
  <2>3. /\ chain' \in Generations /\ key' \in Generations
        /\ chainFile' \in Generations /\ keyFile' \in Generations
    BY <1>0, <1>n, <1>2
       DEF UseChain, UsePrivateKey, RotateChain, RotateKey, TlsTyped, Generations
  <2> QED
    BY <1>0, <2>1, <2>2, <2>3 DEF TlsInv, TlsTyped
<1>3. CASE Create
  <2>0. /\ UNCHANGED <<chainFile, keyFile, before>> /\ chain' = 0 /\ key' = 0
        /\ index \in TlsListeners /\ phase \in {"tls", "reload"}
        /\ chain = key /\ chain \in Generations
    BY <1>0, <1>3 DEF Create, Creating, CheckPrivateKey, TlsTyped
  <2>1. Context \in Contexts /\ Context.chain = Context.key
    BY <1>0, <2>0 DEF Context, Contexts, TlsTyped
  <2> HIDE DEF Context
  <2>2. /\ phase = "tls" => tls' = [tls EXCEPT ![index] = Context] /\ loaded' = loaded
        /\ phase = "reload" => loaded' = [loaded EXCEPT ![index] = Context] /\ tls' = tls
    BY <1>3, <2>0 DEF Create, KeepContext
  <2>3. /\ index' \in TlsListeners
        /\ phase' = "reload" => phase = "reload"
    BY <1>3, <1>n, <2>0 DEF Create, TlsListeners
  <2>4. index' \in 1..(TlsCount + 1) /\ 0 \in Generations
    BY <1>n, <2>3 DEF TlsListeners, Generations
  <2>5. /\ loaded \in [TlsListeners -> Contexts] /\ tls \in [TlsListeners -> Contexts]
        /\ \A l \in TlsListeners : /\ tls[l].chain = tls[l].key
                                   /\ loaded[l].chain = loaded[l].key
        /\ phase = "reload" => before = tls
    BY <1>0 DEF TlsTyped, Paired
  <2>6. CASE phase = "tls"
    <3>1. tls' \in [TlsListeners -> Contexts] /\ loaded' \in [TlsListeners -> Contexts]
      BY <2>0, <2>1, <2>2, <2>5, <2>6
    <3>2. \A l \in TlsListeners : tls'[l] = IF l = index THEN Context ELSE tls[l]
      BY <2>0, <2>2, <2>5, <2>6
    <3>3. \A l \in TlsListeners : /\ tls'[l].chain = tls'[l].key
                                  /\ loaded'[l].chain = loaded'[l].key
      BY <2>1, <2>2, <2>5, <2>6, <3>2
    <3> QED
      BY <1>0, <2>0, <2>3, <2>4, <2>6, <3>1, <3>3 DEF TlsInv, TlsTyped, Paired
  <2>7. CASE phase = "reload"
    <3>1. tls' \in [TlsListeners -> Contexts] /\ loaded' \in [TlsListeners -> Contexts]
      BY <2>0, <2>1, <2>2, <2>5, <2>7
    <3>2. \A l \in TlsListeners : loaded'[l] = IF l = index THEN Context ELSE loaded[l]
      BY <2>0, <2>2, <2>5, <2>7
    <3>3. \A l \in TlsListeners : /\ tls'[l].chain = tls'[l].key
                                  /\ loaded'[l].chain = loaded'[l].key
      BY <2>1, <2>2, <2>5, <2>7, <3>2
    <3>4. before' = tls'
      BY <2>0, <2>2, <2>5, <2>7
    <3> QED
      BY <1>0, <2>0, <2>3, <2>4, <3>1, <3>3, <3>4 DEF TlsInv, TlsTyped, Paired
  <2> QED
    BY <2>0, <2>6, <2>7
<1>4. CASE BindTcp
  <2>0. UNCHANGED <<chainFile, keyFile, chain, key, loaded, tls, before>>
    BY <1>4 DEF BindTcp
  <2>1. index \in TlsListeners
    BY <1>0, <1>4 DEF BindTcp, Paired
  <2>2. /\ phase' \in {"unwind", "reactors", "tls"} /\ index' \in {index, index + 1}
        /\ phase' = "tls" => index' = index + 1 /\ index # TlsCount
    BY <1>4 DEF BindTcp
  <2>3. /\ index' \in 1..(TlsCount + 1)
        /\ phase' = "tls" => index' \in TlsListeners
    BY <1>n, <2>1, <2>2 DEF TlsListeners
  <2> QED
    BY <1>0, <2>0, <2>2, <2>3 DEF TlsInv, TlsTyped, Paired
<1>5. CASE EndUnwind \/ ClearAll
  <2>0. /\ UNCHANGED <<chainFile, keyFile, index, chain, key, loaded, before>>
        /\ tls' = NoContexts /\ phase' \in {"new", "ended", "destroyed"}
    BY <1>5 DEF EndUnwind, ClearAll
  <2> QED
    BY <1>0, <2>0, NoPairs DEF TlsInv, TlsTyped, Paired
<1>6. CASE CreateThrows
  <2>0. /\ UNCHANGED <<chainFile, keyFile, tls>> /\ index' = 1 /\ chain' = 0 /\ key' = 0
        /\ loaded' = NoContexts /\ before' = NoContexts
        /\ phase' \in {"unwind", "running"}
    BY <1>6 DEF CreateThrows
  <2>1. 0 \in Generations /\ 1 \in 1..(TlsCount + 1)
    BY <1>n DEF Generations
  <2> QED
    BY <1>0, <2>0, <2>1, NoPairs DEF TlsInv, TlsTyped, Paired
<1>7. CASE ReloadBegin
  <2>0. /\ UNCHANGED <<chainFile, keyFile, chain, key, tls>> /\ index' = 1
        /\ loaded' = NoContexts /\ before' = tls /\ TlsCount > 0 /\ phase' = "reload"
    BY <1>7 DEF ReloadBegin
  <2>1. 1 \in TlsListeners /\ 1 \in 1..(TlsCount + 1)
    BY <1>n, <2>0 DEF TlsListeners
  <2> QED
    BY <1>0, <2>0, <2>1, NoPairs DEF TlsInv, TlsTyped, Paired
<1>8. CASE StoreContext
  <2>0. /\ UNCHANGED <<chainFile, keyFile, chain, key>> /\ before' = NoContexts
        /\ tls' = [tls EXCEPT ![index] = loaded[index]]
        /\ loaded' = [loaded EXCEPT ![index] = NoContext]
        /\ phase = "store" /\ index \in TlsListeners
        /\ \/ index < TlsCount /\ index' = index + 1 /\ phase' = phase
           \/ index' = 1 /\ phase' = "running"
    BY <1>0, <1>8 DEF StoreContext, Paired
  <2>1. /\ index' \in 1..(TlsCount + 1)
        /\ phase' = "store" => index' \in TlsListeners
        /\ phase' \in {"store", "running"}
    BY <1>n, <2>0 DEF TlsListeners
  <2>2. NoContext \in Contexts /\ NoContext.chain = NoContext.key
    BY <1>n DEF NoContext, Contexts, Generations
  <2>3. /\ loaded \in [TlsListeners -> Contexts] /\ tls \in [TlsListeners -> Contexts]
        /\ \A l \in TlsListeners : /\ tls[l].chain = tls[l].key
                                   /\ loaded[l].chain = loaded[l].key
    BY <1>0 DEF TlsTyped, Paired
  <2> HIDE DEF NoContext
  <2>4. tls' \in [TlsListeners -> Contexts] /\ loaded' \in [TlsListeners -> Contexts]
    BY <2>0, <2>2, <2>3
  <2>5. \A l \in TlsListeners : /\ tls'[l] = IF l = index THEN loaded[l] ELSE tls[l]
                                /\ loaded'[l] = IF l = index THEN NoContext ELSE loaded[l]
    BY <2>0, <2>3
  <2>6. \A l \in TlsListeners : /\ tls'[l].chain = tls'[l].key
                                /\ loaded'[l].chain = loaded'[l].key
    BY <2>2, <2>3, <2>5
  <2> QED
    BY <1>0, <2>0, <2>1, <2>4, <2>6, NoPairs DEF TlsInv, TlsTyped, Paired
<1> QED
  BY <1>1, <1>2, <1>3, <1>4, <1>5, <1>6, <1>7, <1>8

-----------------------------------------------------------------------------
(* Invariance *)

(* The three parts of the inductive invariant, each proved on its own. *)
LEMMA Parts == Inv <=> UnixTypeOK /\ LifeInv /\ TlsInv
BY DEF Inv, TypeOK, LifeInv, LifeTyped, TlsInv, TlsTyped

(* The same of a new server's contexts. *)
LEMMA TlsStarts ==
  ASSUME NewServer, chainFile \in Generations, keyFile \in Generations
  PROVE  TlsInv
<1>1. /\ phase = "new" /\ tls = NoContexts /\ loaded = NoContexts /\ before = NoContexts
  BY DEF NewServer
<1>2. index \in 1..(TlsCount + 1) /\ chain \in Generations /\ key \in Generations
  BY NewTyped
<1> QED
  BY <1>1, <1>2, NoPairs DEF TlsInv, TlsTyped, Paired

(* The initial states satisfy the inductive invariant. *)
LEMMA Initially ==
  ASSUME Init
  PROVE  Inv /\ Shared
<1>1. UnixInit /\ NewServer /\ chainFile \in Generations /\ keyFile \in Generations
  BY ServerAssumption DEF Init, Generations
<1>2. UnixTypeOK
  BY <1>1 DEF UnixInit, UnixTypeOK, UPoints
<1>3. LifeInv /\ TlsInv
  BY <1>1, LifeStarts, TlsStarts
<1>4. \A p \in Procs : upc[p] = "idle" /\ sock[p] = "none" /\ p \notin listening
  BY <1>1 DEF UnixInit
<1>5. Shared
  BY <1>4 DEF Shared, OneStarts, OwnSockets, Held, Binding, Socketless, Serving, Releasing
<1> QED
  BY <1>2, <1>3, <1>5, Parts

(* Every step keeps the inductive invariant. *)
LEMMA Stepping ==
  ASSUME Inv, [Next]_vars
  PROVE  Inv'
<1>0. UnixTypeOK /\ LifeInv /\ TlsInv
  BY Parts
<1>1. UnixTypeOK'
  BY <1>0, OnPath, UnixTyped
<1>2. ASSUME BecomeNewServer, UNCHANGED <<chainFile, keyFile>>
      PROVE  LifeInv' /\ TlsInv'
  <2>1. NewServer' /\ (chainFile \in Generations)' /\ (keyFile \in Generations)'
    BY <1>0, <1>2 DEF BecomeNewServer, NewServer, TlsInv, TlsTyped
  <2>2. LifeInv'
    BY <2>1, LifeStarts, PTL
  <2>3. TlsInv'
    BY <2>1, TlsStarts, PTL
  <2> QED
    BY <2>2, <2>3
<1>3. LifeInv'
  <2>1. CASE OwnerStep \/ OwnerChoice
    BY <1>0, <2>1, OwnerLives
  <2>2. CASE StopRequest \/ StopWakes \/ \E w \in Threads : WorkerStep(w) \/ WorkerFails(w)
    BY <1>0, <2>2, WorkersLive
  <2>3. CASE RotateChain \/ RotateKey \/ (\E p \in Peers : PeerStep(p)) \/ OperatorStep
             \/ UNCHANGED vars
    <3>1. UNCHANGED lifeVars
      BY <2>3, Zenon DEF RotateChain, RotateKey, PeerStep, OperatorStep, vars
    <3> QED
      BY <1>0, <3>1, LifeAlone
  <2>4. CASE CrashSelf
    BY <1>2, <2>4 DEF CrashSelf
  <2> QED
    BY <2>1, <2>2, <2>3, <2>4 DEF Next
<1>4. TlsInv'
  <2>1. CASE UnixDone \/ UseChain \/ UsePrivateKey \/ Create \/ BindTcp \/ EndUnwind
             \/ ClearAll \/ StoreContext \/ CreateThrows \/ ReloadBegin
             \/ RotateChain \/ RotateKey
    BY <1>0, <2>1, TlsMoves
  <2>2. CASE BindUnix \/ MakeReactors \/ BeginUnwind \/ UnwindRelease \/ SpawnWorker
             \/ LatchWait \/ Join \/ ReleasePath
    <3>1. UNCHANGED tlsVars
      BY <2>2, Zenon DEF BindUnix, MakeReactors, BeginUnwind, UnwindRelease, SpawnWorker,
                  LatchWait, Join, ReleasePath
    <3>2. phase' \in {"tls", "tcp", "reload", "store"} => phase' = phase
      BY <2>2 DEF BindUnix, MakeReactors, BeginUnwind, UnwindRelease, SpawnWorker,
                  LatchWait, Join, ReleasePath, lifeVars
    <3> QED
      BY <1>0, <3>1, <3>2, TlsAlone
  <2>3. CASE RejectOptions \/ MakeState \/ SpawnFails \/ Wait \/ Destroy \/ DestroyIdle
    <3>1. UNCHANGED tlsVars
      BY <2>3, Zenon DEF RejectOptions, MakeState, SpawnFails, Wait, Destroy, DestroyIdle
    <3>2. phase' \in {"tls", "tcp", "reload", "store"} => phase' = phase
      BY <2>3 DEF RejectOptions, MakeState, SpawnFails, Wait, Destroy, DestroyIdle
    <3> QED
      BY <1>0, <3>1, <3>2, TlsAlone
  <2>4. CASE StopRequest \/ StopWakes \/ (\E w \in Threads : WorkerStep(w) \/ WorkerFails(w))
             \/ (\E p \in Peers : PeerStep(p)) \/ OperatorStep \/ UNCHANGED vars
    <3>1. UNCHANGED tlsVars /\ UNCHANGED phase
      BY <2>4, Zenon DEF StopRequest, StopWakes, WorkerStep, WorkerReady, WorkerStops, WorkerFails,
                  PeerStep, OperatorStep, vars, lifeVars
    <3> QED
      BY <1>0, <3>1, TlsAlone
  <2>5. CASE Again \/ CrashSelf
    BY <1>2, <2>5 DEF Again, CrashSelf
  <2> QED
    BY <2>1, <2>2, <2>3, <2>4, <2>5 DEF Next, OwnerStep, OwnerChoice
<1> QED
  <2>1. (UnixTypeOK /\ LifeInv /\ TlsInv)' => Inv'
    BY Parts, PTL
  <2> QED
    BY <1>1, <1>3, <1>4, <2>1

(* The inductive invariant holds in every reachable state of a server, for *)
(* any number of workers, listeners, processes and file replacements.      *)
THEOREM Invariance == Spec => []Inv
<1>1. Init => Inv
  BY Initially
<1>2. Inv /\ [Next]_vars => Inv'
  BY Stepping
<1> QED
  BY <1>1, <1>2, PTL DEF Spec

(* Type correctness of a Server, its workers, its TLS contexts and the path *)
(* of its Unix-domain listener.                                             *)
THEOREM Typed == Spec => []TypeOK
<1>1. Inv => TypeOK
  BY DEF Inv
<1> QED
  BY <1>1, Invariance, PTL

(* wait(), or a start() that saw a failure, throws the exception of the    *)
(* worker that failed first, and returns only if none did: fail() keeps    *)
(* the first exception, and nobody fails once the workers are joined.      *)
THEOREM FirstFailureReported == Spec => []FailureReported
<1>1. Inv => FailureReported
  <2> SUFFICES ASSUME Inv, phase = "ended"
               PROVE  IF failLog = <<>> THEN result = "returned"
                      ELSE result = "rethrew" /\ failure = Head(failLog)
    BY DEF FailureReported
  <2>1. /\ failure = IF failLog = <<>> THEN 0 ELSE Head(failLog)
        /\ result = IF failure = 0 THEN "returned" ELSE "rethrew"
    BY DEF Inv, Recorded
  <2>2. failLog # <<>> => Head(failLog) \in Threads
    BY HeadTailProperties DEF Inv, TypeOK
  <2>3. failLog # <<>> => Head(failLog) # 0
    BY <2>2, ServerAssumption DEF Threads
  <2> QED
    BY <2>1, <2>3
<1> QED
  BY <1>1, Invariance, PTL

(* As long as no call of stop() is still iterating when wait() clears      *)
(* reactors_, the reactors outlive the workers that run them and the       *)
(* threads that wake them.                                                 *)
THEOREM ReactorsOutliveUse ==
  ASSUME ~StopOverlapsWait
  PROVE  Spec => []ReactorsOutlived
<1>1. Inv => ReactorsOutlived
  <2> SUFFICES ASSUME Inv, ~reactors
               PROVE  (\A w \in Threads : worker[w] \in {"none", "done"}) /\ stopper = "idle"
    BY DEF ReactorsOutlived
  <2>1. phase \in Building \cup Over
    BY DEF Inv, TypeOK, Phases, Phased, Building, Living, Over
  <2> QED
    BY <2>1 DEF Inv, Phased, AllJoined
<1> QED
  BY <1>1, Invariance, PTL

(* No listener ever serves a certificate with another one's key, and a     *)
(* reload_tls() that throws leaves every listener with the context it had. *)
THEOREM ReloadIsSafe == Spec => ReloadSafe
<1>1. Inv => \A l \in TlsListeners : tls[l].chain = tls[l].key
  BY DEF Inv, Paired
<1>2. Inv /\ [Next]_vars => [phase = "reload" /\ phase' = "running" => tls' = before]_vars
  <2> SUFFICES ASSUME Inv, Next, phase = "reload", phase' = "running"
               PROVE  tls' = before
    OBVIOUS
  <2>1. before = tls
    BY DEF Inv, Paired
  <2>2. ~(Create \/ CreateThrows) => FALSE
    <3>1. CASE OwnerStep /\ ~Create
      BY <3>1 DEF OwnerStep, BindUnix, UnixDone, UseChain, UsePrivateKey, BindTcp,
           MakeReactors, BeginUnwind, UnwindRelease, EndUnwind, SpawnWorker, LatchWait,
           Join, ReleasePath, ClearAll, StoreContext, lifeVars
    <3>2. CASE OwnerChoice /\ ~CreateThrows
      BY <3>2 DEF OwnerChoice, RejectOptions, MakeState, SpawnFails, Wait, Destroy,
           DestroyIdle, Again, ReloadBegin
    <3>3. CASE CrashSelf
      BY <3>3 DEF CrashSelf, BecomeNewServer
    <3>4. CASE StopRequest \/ StopWakes \/ (\E w \in Threads : WorkerStep(w) \/ WorkerFails(w))
               \/ (\E p \in Peers : PeerStep(p)) \/ OperatorStep \/ RotateChain \/ RotateKey
      <4>1. UNCHANGED phase
        BY <3>4, Zenon DEF StopRequest, StopWakes, WorkerStep, WorkerReady, WorkerStops,
                    WorkerFails, PeerStep, OperatorStep, RotateChain, RotateKey, lifeVars
      <4> QED
        BY <4>1
    <3> QED
      BY <3>1, <3>2, <3>3, <3>4 DEF Next
  <2>3. ~Create
    BY DEF Create
  <2> QED
    BY <2>1, <2>2, <2>3 DEF CreateThrows
<1> QED
  BY <1>1, <1>2, Invariance, PTL DEF Spec, ReloadSafe

(* With one process at a time inside bind_unix_listener(), the stale check *)
(* and its unlink are about the same entry.                                *)
THEOREM PathShared ==
  ASSUME MaxStarting = 1
  PROVE  Spec => []Shared
<1>1. Init => Shared
  BY Initially
<1>2. Inv /\ Shared /\ [Next]_vars => Shared'
  BY OnPath, SharedKept DEF Inv, TypeOK
<1> QED
  BY <1>1, <1>2, Invariance, PTL DEF Spec

(* An entry that is unlinked is the process's own socket, or no open       *)
(* socket's at all.                                                        *)
LEMMA Unlinking ==
  ASSUME Shared, NEW p \in Procs, Unlinks(p)
  PROVE  /\ path # "file"
         /\ \A q \in Procs \ {p} : sock[q] = "none" \/ sock[q] # path
<1>0. OwnSockets /\ Held(p) /\ "file" \notin Inodes
  BY UnixAssumption DEF Shared
<1>1. CASE upc[p] = "stale_unlink"
  BY <1>0, <1>1 DEF Held
<1>2. CASE upc[p] \in {"undo_unlink", "release_unlink"}
  <2>1. path = sock[p] /\ sock[p] \in Inodes
    BY <1>0, <1>2 DEF Held, Socketless
  <2> QED
    BY <1>0, <2>1 DEF OwnSockets
<1> QED
  BY <1>1, <1>2 DEF Unlinks

(* remove_stale_unix_socket() and unlink_owned_unix_socket() never remove  *)
(* a file, nor the socket of another process that is still open.           *)
THEOREM OnlyOwnUnlinked ==
  ASSUME MaxStarting = 1
  PROVE  Spec => NoForeignUnlink
<1>1. Shared => \A p \in Procs : Unlinks(p) =>
                  /\ path # "file"
                  /\ \A q \in Procs \ {p} : sock[q] = "none" \/ sock[q] # path
  BY Unlinking
<1> QED
  BY <1>1, PathShared, PTL DEF NoForeignUnlink

(* The path of a socket that listens is not taken over: "Reclaims only     *)
(* stale socket paths" holds for starts that do not overlap.               *)
THEOREM LiveListenersKept ==
  ASSUME MaxStarting = 1
  PROVE  Spec => LiveListenerKept
<1>1. Inv /\ Shared => \A p \in Procs : Unlinks(p) =>
                         \A q \in listening \ {p} : sock[q] # path
  <2> SUFFICES ASSUME Inv, Shared, NEW p \in Procs, Unlinks(p), NEW q \in listening \ {p}
               PROVE  sock[q] # path
    OBVIOUS
  <2>1. q \in Procs
    BY DEF Inv, TypeOK, UnixTypeOK
  <2>2. sock[q] \in Inodes
    BY <2>1 DEF Shared, Held, Socketless, Serving, Releasing
  <2> QED
    BY <2>1, <2>2, Unlinking, UnixAssumption
<1> QED
  BY <1>1, PathShared, Invariance, PTL DEF LiveListenerKept

(* A socket that is closed in good order is no longer at the path: the     *)
(* entry was unlinked, or belongs to somebody else by then.                *)
THEOREM NothingLeft ==
  ASSUME MaxStarting = 1
  PROVE  Spec => NoLitter
<1> DEFINE Ends(p) == /\ sock[p] # "none" /\ sock'[p] = "none"
                      /\ upc'[p] \in {"idle", "failed"}
                      /\ upc[p] \in {"close", "undo_close"}
<1>1. Inv /\ Shared /\ [Next]_vars =>
        \A p \in Procs : Ends(p) => path' # sock[p]
  <2> SUFFICES ASSUME Inv, Shared, [Next]_vars, NEW p \in Procs, Ends(p)
               PROVE  path' # sock[p]
    OBVIOUS
  <2>0. UnixNext /\ UnixTypeOK
    BY OnPath DEF Inv, TypeOK
  <2>1. path # sock[p]
    BY DEF Shared, Held
  <2>2. ~UNCHANGED sock
    OBVIOUS
  <2>3. PICK q \in Procs : UnixStep(q)
    BY <2>0, <2>2 DEF UnixNext, Operator, unixVars
  <2>4. ASSUME NEW r, sock' = [sock EXCEPT ![q] = r]
        PROVE  q = p /\ r = "none"
    BY <2>0, <2>4 DEF UnixTypeOK
  <2>5. path' = path
    <3>1. CASE ThrowClosing(q) \/ UndoClose(q) \/ CloseListener(q) \/ Crash(q)
      BY <3>1 DEF ThrowClosing, UndoClose, CloseListener, Crash
    <3>2. ASSUME NEW from \in Binding \ {"undo_close"}, NEW to, Bind(q, from, to)
          PROVE  FALSE
      <4>1. PICK i : sock' = [sock EXCEPT ![q] = i]
        BY <2>2, <3>2 DEF Bind
      <4>2. q = p
        BY <2>4, <4>1
      <4> QED
        BY <3>2, <4>2 DEF Bind, Binding
    <3>3. CASE BindStep(q)
      BY <2>2, <3>1, <3>2, <3>3
         DEF BindStep, FirstBind, SecondBind, Binding, CallFails, StaleLstat, Probe, Recheck,
             StaleUnlink, Inspect, Chmod, Listen, UndoLstat, UndoUnlink, OwnedLstat, UnlinkPath
    <3>4. CASE ReleaseStep(q)
      BY <2>2, <3>1, <3>4 DEF ReleaseStep, ReleaseLstat, ReleaseUnlink, OwnedLstat, UnlinkPath
    <3> QED
      BY <2>2, <2>3, <3>1, <3>3, <3>4 DEF UnixStep, BindListener, Recover, BeginRelease
  <2> QED
    BY <2>1, <2>5
<1> QED
  BY <1>1, PathShared, Invariance, PTL DEF NoLitter, Spec
=============================================================================
