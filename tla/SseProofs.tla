----------------------------- MODULE SseProofs -----------------------------
(***************************************************************************)
(* The safety properties of module SseChannel for any number of            *)
(* subscribers, application threads and events, and for every queue limit. *)
(***************************************************************************)
EXTENDS SseChannel, SequenceFacts, FiniteSetTheorems, TLAPS

In(s, q) == \E i \in 1..Len(q) : q[i] = s
Distinct(q) == \A i, j \in 1..Len(q) : q[i] = q[j] => i = j

(* Only the holder of the channel's mutex is inside publish() or           *)
(* close_all(), and a notifier is in use only between a subscriber's mutex *)
(* and the call.                                                           *)
Locked ==
  /\ \A t \in Callers : cpc[t] # "idle" => lock = t
  /\ \A t \in Callers : IF cpc[t] = "notify" THEN target[t] \in Subs
                                             ELSE target[t] = Nobody
  /\ IF pump = "notify" THEN beat \in Subs ELSE beat = Nobody

(* The list of the channel. *)
Listed ==
  /\ Distinct(subscribers) /\ Len(subscribers) <= MaxSubscribers
  /\ \A i \in 1..Len(subscribers) : phase[subscribers[i]] # "none"
  /\ \A s \in Subs : Alive(s) => In(s, subscribers)

(* What a walk over the list has left: a close has everyone that lives     *)
(* ahead of it.                                                            *)
Walked ==
  \A t \in Callers : cpc[t] # "idle" =>
    /\ Distinct(todo[t])
    /\ \A i \in 1..Len(todo[t]) : phase[todo[t][i]] # "none"
    /\ op[t] = "close" => \A s \in Subs : Alive(s) => In(s, todo[t])
    /\ op[t] = "publish" => frame[t].id = published

(* A subscriber has a notifier exactly while a stream is attached to it,   *)
(* and a parked stream with something to send has a wakeup on its way.     *)
Noticed ==
  /\ \A s \in Subs : notifier[s] <=> phase[s] \in Attached
  /\ ParkedIsWoken

(* The byte count is that of the queue, no frame is newer than what was    *)
(* published, and a subscriber that overflows too often is closed.         *)
Counted ==
  /\ BudgetExact
  /\ \A s \in Subs : \A k \in 1..Len(queue[s]) : queue[s][k].id <= published
  /\ \A t \in Callers : frame[t].id <= published
  /\ \A s \in Subs : ~closed[s] => overflows[s] < MaxOverflows
  /\ \A s \in Subs : phase[s] = "none" => queue[s] = <<>> /\ overflows[s] = 0

(* A queue is at most one hint or heartbeat, at its front, and then the    *)
(* newest events in their order.                                           *)
Hinted(q) == q # <<>> /\ q[1].id = 0
Held(q) == IF Hinted(q) THEN Len(q) - 1 ELSE Len(q)

Ordered ==
  \A s \in Subs : Alive(s) =>
    /\ \A k \in 1..Len(queue[s]) :
         \/ k = 1 /\ queue[s][k].id = 0
         \/ queue[s][k].id = Offered(s) - Len(queue[s]) + k
    /\ Offered(s) - Held(queue[s]) >= last[s]
    /\ overflows[s] = 0 => Offered(s) - Held(queue[s]) = last[s]
    /\ overflows[s] > 0 => Held(queue[s]) > 0

Inv ==
  /\ TypeOK /\ Locked /\ Listed /\ Walked /\ Noticed /\ Counted /\ Ordered

-----------------------------------------------------------------------------
(* What the recursive functions compute *)

(* Bytes is computed by adding the size of one frame after the other. *)
LEMMA BytesRun ==
  ASSUME NEW q \in Seq(Frames)
  PROVE  \E f \in [0..Len(q) -> Nat] :
           /\ f[0] = 0
           /\ \A n \in 1..Len(q) : f[n] = f[n - 1] + q[n].size
           /\ Bytes(q) = f[Len(q)]
<1> DEFINE N == Len(q)
           size == [n \in 1..N |-> q[n].size]
           step == [n \in 1..N |-> [x \in Nat |-> x + size[n]]]
           Sums(g) ==
             g = [n \in 0..N |-> IF n = 0 THEN 0 ELSE g[n - 1] + q[n].size]
           b == CHOOSE g : Sums(g)
<1>1. N \in Nat /\ \A n \in 1..N : q[n] \in Frames
  BY LenProperties, ElementOfSeq
<1>2. Bytes(q) = b[N]
  BY DEF Bytes
<1> HIDE DEF N
<1>3. size \in [1..N -> Nat] /\ \A n \in 1..N : size[n] = q[n].size
  BY <1>1 DEF Frames
<1> HIDE DEF size
<1>4. /\ step \in [1..N -> [Nat -> Nat]]
      /\ \A n \in 1..N, x \in Nat : step[n][x] = x + size[n]
  BY <1>3
<1> HIDE DEF step
<1>5. PICK f \in [0..N -> Nat] :
        f[0] = 0 /\ \A n \in 1..N : f[n] = step[n][f[n - 1]]
  <2>1. step \in Steps(Nat, N)
    BY <1>4 DEF Steps
  <2>2. \E f : Iterates(f, Nat, 0, N, step)
    BY <1>1, <2>1, Iterate
  <2> QED
    BY <2>2 DEF Iterates
<1>6. \A n \in 1..N : f[n] = f[n - 1] + q[n].size
  <2> SUFFICES ASSUME NEW n \in 1..N
               PROVE  f[n] = f[n - 1] + q[n].size
    OBVIOUS
  <2>1. f[n - 1] \in Nat
    BY <1>1, <1>5
  <2> QED
    BY <1>3, <1>4, <1>5, <2>1
<1>7. Sums(f)
  BY <1>1, <1>5, <1>6
<1>8. Sums(b)
  <2> HIDE DEF Sums
  <2> QED
    BY <1>7, Zenon
<1> HIDE DEF b
<1>9. b[0] = 0 /\ \A n \in 1..N : b[n] = b[n - 1] + q[n].size
  BY <1>1, <1>8
<1> HIDE DEF Sums
<1> DEFINE S == {n \in 0..N : b[n] = f[n]}
<1>10. 0 \in S
  BY <1>1, <1>5, <1>9
<1>11. \A n \in 0..(N - 1) : n \in S => n + 1 \in S
  <2> SUFFICES ASSUME NEW n \in 0..(N - 1), b[n] = f[n]
               PROVE  n + 1 \in S
    OBVIOUS
  <2>1. n + 1 \in 1..N /\ n + 1 \in 0..N /\ (n + 1) - 1 = n
    BY <1>1
  <2>2. b[n + 1] = b[(n + 1) - 1] + q[n + 1].size
        /\ f[n + 1] = f[(n + 1) - 1] + q[n + 1].size
    BY <1>6, <1>9, <2>1
  <2> QED
    BY <2>1, <2>2
<1> HIDE DEF S
<1>12. \A n \in 0..N : n \in S
  BY <1>1, <1>10, <1>11, UpTo
<1>13. b[N] = f[N]
  BY <1>1, <1>12 DEF S
<1> QED
  BY <1>2, <1>5, <1>6, <1>13 DEF N

Keeps(f, T, S, q) ==
  /\ f \in [0..Len(q) -> Seq(T)]
  /\ f[0] = <<>>
  /\ \A n \in 1..Len(q) :
       f[n] = IF q[n] \in S THEN Append(f[n - 1], q[n]) ELSE f[n - 1]
  /\ Kept(q, S) = f[Len(q)]

(* Kept is computed by looking at one element after the other. *)
LEMMA KeptRun ==
  ASSUME NEW T, NEW S, NEW q \in Seq(T)
  PROVE  \E f : Keeps(f, T, S, q)
<1> DEFINE N == Len(q)
           one(n, x) == IF q[n] \in S THEN Append(x, q[n]) ELSE x
           step == [n \in 1..N |-> [x \in Seq(T) |-> one(n, x)]]
           Runs(g) == g = [n \in 0..N |-> IF n = 0 THEN <<>> ELSE one(n, g[n - 1])]
           b == CHOOSE g : Runs(g)
<1>1. N \in Nat /\ \A n \in 1..N : q[n] \in T
  BY LenProperties, ElementOfSeq
<1>2. Kept(q, S) = b[N]
  BY DEF Kept
<1> HIDE DEF N
<1>3. \A n \in 1..N, x \in Seq(T) : one(n, x) \in Seq(T)
  BY <1>1, AppendProperties
<1> HIDE DEF one
<1>4. /\ step \in [1..N -> [Seq(T) -> Seq(T)]]
      /\ \A n \in 1..N, x \in Seq(T) : step[n][x] = one(n, x)
  BY <1>1, <1>3
<1> HIDE DEF step
<1>5. PICK f \in [0..N -> Seq(T)] :
        f[0] = <<>> /\ \A n \in 1..N : f[n] = step[n][f[n - 1]]
  <2>1. step \in Steps(Seq(T), N) /\ <<>> \in Seq(T)
    BY <1>4 DEF Steps
  <2>2. \E f : Iterates(f, Seq(T), <<>>, N, step)
    BY <1>1, <2>1, Iterate
  <2> QED
    BY <2>2 DEF Iterates
<1>6. \A n \in 1..N : f[n] = one(n, f[n - 1])
  <2> SUFFICES ASSUME NEW n \in 1..N
               PROVE  f[n] = one(n, f[n - 1])
    OBVIOUS
  <2>1. f[n - 1] \in Seq(T)
    BY <1>1, <1>5
  <2> QED
    BY <1>4, <1>5, <2>1
<1>7. Runs(f)
  BY <1>1, <1>5, <1>6
<1>8. Runs(b)
  <2> HIDE DEF Runs
  <2> QED
    BY <1>7, Zenon
<1> HIDE DEF b
<1>9. b[0] = <<>> /\ \A n \in 1..N : b[n] = one(n, b[n - 1])
  BY <1>1, <1>8
<1> HIDE DEF Runs
<1> DEFINE R == {n \in 0..N : b[n] = f[n]}
<1>10. 0 \in R
  BY <1>1, <1>5, <1>9
<1>11. \A n \in 0..(N - 1) : n \in R => n + 1 \in R
  <2> SUFFICES ASSUME NEW n \in 0..(N - 1), b[n] = f[n]
               PROVE  n + 1 \in R
    OBVIOUS
  <2>1. n + 1 \in 1..N /\ n + 1 \in 0..N /\ (n + 1) - 1 = n
    BY <1>1
  <2>2. b[n + 1] = one(n + 1, b[(n + 1) - 1])
        /\ f[n + 1] = one(n + 1, f[(n + 1) - 1])
    BY <1>6, <1>9, <2>1
  <2> QED
    BY <2>1, <2>2
<1> HIDE DEF R
<1>12. \A n \in 0..N : n \in R
  BY <1>1, <1>10, <1>11, UpTo
<1>13. b[N] = f[N]
  BY <1>1, <1>12 DEF R
<1> QED
  BY <1>2, <1>5, <1>6, <1>13 DEF N, one, Keeps

(* An empty queue holds no bytes. *)
LEMMA BytesEmpty == Bytes(<<>>) = 0
<1>1. <<>> \in Seq(Frames) /\ Len(<<>>) = 0
  OBVIOUS
<1> QED
  BY <1>1, BytesRun

(* A queue of one frame holds its bytes. *)
LEMMA BytesOne ==
  ASSUME NEW x \in Frames
  PROVE  Bytes(<<x>>) = x.size
<1>1. <<x>> \in Seq(Frames) /\ Len(<<x>>) = 1 /\ <<x>>[1] = x /\ x.size \in Nat
  BY DEF Frames
<1>2. PICK f \in [0..Len(<<x>>) -> Nat] :
        /\ f[0] = 0
        /\ \A n \in 1..Len(<<x>>) : f[n] = f[n - 1] + <<x>>[n].size
        /\ Bytes(<<x>>) = f[Len(<<x>>)]
  BY <1>1, BytesRun
<1>3. f[1] = f[0] + x.size
  BY <1>1, <1>2
<1> QED
  BY <1>1, <1>2, <1>3

(* The bytes of two queues, one after the other, are the sum of the bytes *)
(* of both.                                                               *)
LEMMA BytesConcat ==
  ASSUME NEW p \in Seq(Frames), NEW q \in Seq(Frames)
  PROVE  /\ Bytes(p) \in Nat /\ Bytes(q) \in Nat
         /\ Bytes(p \o q) = Bytes(p) + Bytes(q)
<1> DEFINE M == Len(p)
           N == Len(q)
           r == p \o q
<1>1. M \in Nat /\ N \in Nat
  BY LenProperties
<1>2. /\ r \in Seq(Frames) /\ Len(r) = M + N
      /\ \A i \in 1..(M + N) : r[i] = IF i <= M THEN p[i] ELSE q[i - M]
  BY ConcatProperties
<1>3. PICK f \in [0..M -> Nat] :
        /\ f[0] = 0 /\ \A n \in 1..M : f[n] = f[n - 1] + p[n].size
        /\ Bytes(p) = f[M]
  BY BytesRun
<1>4. PICK g \in [0..N -> Nat] :
        /\ g[0] = 0 /\ \A n \in 1..N : g[n] = g[n - 1] + q[n].size
        /\ Bytes(q) = g[N]
  BY BytesRun
<1> HIDE DEF M, N, r
<1>5. PICK h \in [0..(M + N) -> Nat] :
        /\ h[0] = 0 /\ \A n \in 1..(M + N) : h[n] = h[n - 1] + r[n].size
        /\ Bytes(r) = h[M + N]
  <2>1. PICK h \in [0..Len(r) -> Nat] :
          /\ h[0] = 0
          /\ \A n \in 1..Len(r) : h[n] = h[n - 1] + r[n].size
          /\ Bytes(r) = h[Len(r)]
    BY <1>2, BytesRun
  <2> QED
    BY <1>2, <2>1
<1> DEFINE S == {n \in 0..M : h[n] = f[n]}
<1>6. 0 \in S /\ \A n \in 0..(M - 1) : n \in S => n + 1 \in S
  <2>1. 0 \in S
    BY <1>1, <1>3, <1>5
  <2> SUFFICES ASSUME NEW n \in 0..(M - 1), h[n] = f[n]
               PROVE  n + 1 \in S
    BY <2>1
  <2>2. /\ n + 1 \in 1..M /\ n + 1 \in 1..(M + N) /\ (n + 1) - 1 = n
        /\ n + 1 \in 0..M /\ n + 1 <= M
    BY <1>1
  <2>3. r[n + 1] = p[n + 1]
    BY <1>2, <2>2
  <2>4. h[n + 1] = h[(n + 1) - 1] + r[n + 1].size
        /\ f[n + 1] = f[(n + 1) - 1] + p[n + 1].size
    BY <1>3, <1>5, <2>2
  <2> QED
    BY <2>2, <2>3, <2>4
<1> HIDE DEF S
<1>7. h[M] = f[M]
  <2>1. \A n \in 0..M : n \in S
    BY <1>1, <1>6, UpTo
  <2> QED
    BY <1>1, <2>1 DEF S
<1> DEFINE R == {n \in 0..N : h[M + n] = f[M] + g[n]}
<1>8. 0 \in R /\ \A n \in 0..(N - 1) : n \in R => n + 1 \in R
  <2>1. 0 \in R
    <3>1. f[M] \in Nat
      BY <1>1, <1>3
    <3> QED
      BY <1>1, <1>4, <1>7, <3>1
  <2> SUFFICES ASSUME NEW n \in 0..(N - 1), h[M + n] = f[M] + g[n]
               PROVE  n + 1 \in R
    BY <2>1
  <2>2. /\ n + 1 \in 1..N /\ M + n + 1 \in 1..(M + N)
        /\ (n + 1) - 1 = n /\ (M + n + 1) - 1 = M + n
        /\ n + 1 \in 0..N /\ n \in 0..N /\ ~(M + n + 1 <= M) /\ (M + n + 1) - M = n + 1
    BY <1>1
  <2>3. r[M + n + 1] = q[n + 1]
    BY <1>2, <2>2
  <2>4. h[M + n + 1] = h[(M + n + 1) - 1] + r[M + n + 1].size
        /\ g[n + 1] = g[(n + 1) - 1] + q[n + 1].size
    BY <1>4, <1>5, <2>2
  <2>5. q[n + 1].size \in Nat /\ f[M] \in Nat /\ g[n] \in Nat
    <3>1. q[n + 1] \in Frames
      BY <2>2, ElementOfSeq DEF N
    <3>2. q[n + 1].size \in Nat
      BY <3>1 DEF Frames
    <3>3. f[M] \in Nat
      BY <1>1, <1>3
    <3>4. g[n] \in Nat
      BY <1>4, <2>2
    <3> QED
      BY <3>2, <3>3, <3>4
  <2>6. h[M + (n + 1)] = f[M] + g[n + 1]
    <3> DEFINE z == q[n + 1].size
    <3>1. M + (n + 1) = M + n + 1
      BY <1>1
    <3>2. h[M + n + 1] = h[M + n] + z /\ g[n + 1] = g[n] + z
      BY <2>2, <2>3, <2>4
    <3>3. z \in Nat /\ f[M] \in Nat /\ g[n] \in Nat
      BY <2>5
    <3> HIDE DEF z
    <3> QED
      BY <3>1, <3>2, <3>3
  <2> QED
    BY <2>2, <2>6
<1> HIDE DEF R
<1>9. h[M + N] = f[M] + g[N]
  <2>1. \A n \in 0..N : n \in R
    BY <1>1, <1>8, UpTo
  <2> QED
    BY <1>1, <2>1 DEF R
<1>10. f[M] \in Nat /\ g[N] \in Nat
  BY <1>1, <1>3, <1>4
<1> QED
  BY <1>3, <1>4, <1>5, <1>9, <1>10 DEF r

(* What is kept of a list: its elements in S, no more of them than before, *)
(* and still without duplicates.                                           *)
LEMMA Keeping ==
  ASSUME NEW T, NEW S, NEW q \in Seq(T)
  PROVE  /\ Kept(q, S) \in Seq(T) /\ Len(Kept(q, S)) <= Len(q)
         /\ \A x \in T : In(x, Kept(q, S)) <=> In(x, q) /\ x \in S
         /\ Distinct(q) => Distinct(Kept(q, S))
<1> DEFINE N == Len(q)
<1>1. N \in Nat /\ \A n \in 1..N : q[n] \in T
  BY LenProperties, ElementOfSeq
<1>2. PICK f \in [0..N -> Seq(T)] :
        /\ f[0] = <<>>
        /\ \A n \in 1..N :
             f[n] = IF q[n] \in S THEN Append(f[n - 1], q[n]) ELSE f[n - 1]
        /\ Kept(q, S) = f[N]
  <2>1. \E f : Keeps(f, T, S, q)
    BY KeptRun
  <2> QED
    BY <2>1 DEF Keeps
<1> DEFINE Good(n) == /\ Len(f[n]) <= n
                      /\ \A x \in T : In(x, f[n]) <=>
                           x \in S /\ \E j \in 1..n : q[j] = x
                      /\ Distinct(q) => Distinct(f[n])
           R == {n \in 0..N : Good(n)}
<1>3. \A x \in T : In(x, q) <=> \E j \in 1..N : q[j] = x
  BY DEF In
<1>4. Distinct(q) <=> \A i, j \in 1..N : q[i] = q[j] => i = j
  BY DEF Distinct
<1> HIDE DEF N
<1>5. 0 \in R
  <2>1. f[0] = <<>> /\ Len(f[0]) = 0
    BY <1>2
  <2>2. Good(0)
    BY <2>1 DEF In, Distinct
  <2> QED
    BY <1>1, <2>2
<1>6. ASSUME NEW n \in 0..(N - 1), n \in R
      PROVE  n + 1 \in R
  <2>1. n + 1 \in 1..N /\ n + 1 \in 0..N /\ n \in 0..N /\ (n + 1) - 1 = n
    BY <1>1
  <2> DEFINE x == q[n + 1]
             a == f[n]
             b == f[n + 1]
  <2>2. /\ x \in T /\ a \in Seq(T) /\ b \in Seq(T)
        /\ b = IF x \in S THEN Append(a, x) ELSE a
    BY <1>1, <1>2, <2>1
  <2>3. Good(n)
    BY <1>6
  <2>4. \A y : (\E j \in 1..(n + 1) : q[j] = y) <=> (y = x \/ \E j \in 1..n : q[j] = y)
    BY <2>1
  <2>5. CASE x \notin S
    <3>1. b = a
      BY <2>2, <2>5
    <3>2. Good(n + 1)
      BY <2>1, <2>2, <2>3, <2>4, <2>5, <3>1, LenProperties
    <3> QED
      BY <2>1, <3>2
  <2>6. CASE x \in S
    <3>1. b = Append(a, x) /\ Len(a) \in Nat
      BY <2>2, <2>6, LenProperties
    <3>2. /\ Len(b) = Len(a) + 1 /\ b[Len(a) + 1] = x
          /\ \A i \in 1..Len(a) : b[i] = a[i]
      BY <2>2, <3>1, AppendProperties
    <3> HIDE DEF b, a
    <3>3. \A y \in T : In(y, b) <=> (y = x \/ In(y, a))
      <4> SUFFICES ASSUME NEW y \in T
                   PROVE  In(y, b) <=> (y = x \/ In(y, a))
        OBVIOUS
      <4>1. ASSUME In(y, b) PROVE y = x \/ In(y, a)
        BY <3>1, <3>2, <4>1 DEF In
      <4>2. ASSUME y = x PROVE In(y, b)
        <5>1. Len(a) + 1 \in 1..Len(b)
          BY <3>1, <3>2
        <5> QED
          BY <3>2, <4>2, <5>1 DEF In
      <4>3. ASSUME In(y, a) PROVE In(y, b)
        BY <3>1, <3>2, <4>3 DEF In
      <4> QED
        BY <4>1, <4>2, <4>3
    <3>4. Len(b) <= n + 1
      BY <2>3, <3>1, <3>2 DEF a
    <3>5. \A y \in T : In(y, b) <=> y \in S /\ \E j \in 1..(n + 1) : q[j] = y
      BY <2>3, <2>4, <2>6, <3>3 DEF a
    <3>6. ASSUME Distinct(q) PROVE Distinct(b)
      <4>1. ~ \E j \in 1..n : q[j] = x
        <5> SUFFICES ASSUME NEW j \in 1..n, q[j] = x
                     PROVE  FALSE
          OBVIOUS
        <5>1. j \in 1..N /\ j # n + 1
          BY <1>1
        <5>2. \A i, k \in 1..N : q[i] = q[k] => i = k
          BY <1>4, <3>6
        <5> QED
          BY <2>1, <5>1, <5>2
      <4>2. ~In(x, a)
        BY <2>2, <2>3, <4>1 DEF a
      <4>3. Distinct(a)
        BY <2>3, <3>6 DEF a
      <4>4. \A i \in 1..Len(a) : a[i] # x
        BY <4>2 DEF In
      <4> QED
        BY <3>1, <3>2, <4>3, <4>4 DEF Distinct
    <3> QED
      BY <2>1, <3>4, <3>5, <3>6 DEF b
  <2> QED
    BY <2>5, <2>6
<1> HIDE DEF R
<1>7. \A n \in 0..(N - 1) : n \in R => n + 1 \in R
  BY <1>6
<1>8. \A n \in 0..N : n \in R
  BY <1>1, <1>5, <1>7, UpTo
<1>9. N \in R /\ f[N] \in Seq(T)
  BY <1>1, <1>2, <1>8
<1>10. Good(N)
  BY <1>9 DEF R
<1> HIDE DEF Good
<1> QED
  BY <1>2, <1>3, <1>9, <1>10 DEF Good, N

(* When all but the first d elements are in S, the others are what is kept. *)
LEMMA KeptShift ==
  ASSUME NEW T, NEW S, NEW q \in Seq(T), NEW d \in 0..1, d <= Len(q),
         \A i \in 1..Len(q) : q[i] \in S <=> i > d
  PROVE  /\ Len(Kept(q, S)) = Len(q) - d
         /\ \A i \in 1..(Len(q) - d) : Kept(q, S)[i] = q[i + d]
<1> DEFINE N == Len(q)
<1>1. N \in Nat /\ \A n \in 1..N : q[n] \in T
  BY LenProperties, ElementOfSeq
<1>2. PICK f \in [0..N -> Seq(T)] :
        /\ f[0] = <<>>
        /\ \A n \in 1..N :
             f[n] = IF q[n] \in S THEN Append(f[n - 1], q[n]) ELSE f[n - 1]
        /\ Kept(q, S) = f[N]
  <2>1. \E f : Keeps(f, T, S, q)
    BY KeptRun
  <2> QED
    BY <2>1 DEF Keeps
<1> DEFINE Good(n) == /\ Len(f[n]) = IF n < d THEN 0 ELSE n - d
                      /\ \A i \in 1..(n - d) : f[n][i] = q[i + d]
           R == {n \in 0..N : Good(n)}
<1>3. d <= N /\ \A i \in 1..N : q[i] \in S <=> i > d
  OBVIOUS
<1> HIDE DEF N
<1>4. 0 \in R
  <2>1. f[0] = <<>> /\ Len(f[0]) = 0
    BY <1>2
  <2>2. \A i \in 1..(0 - d) : FALSE
    OBVIOUS
  <2> QED
    BY <1>1, <2>1, <2>2
<1>5. ASSUME NEW n \in 0..(N - 1), n \in R
      PROVE  n + 1 \in R
  <2>1. n + 1 \in 1..N /\ n + 1 \in 0..N /\ n \in 0..N /\ (n + 1) - 1 = n
    BY <1>1
  <2> DEFINE x == q[n + 1]
             a == f[n]
             b == f[n + 1]
  <2>2. /\ x \in T /\ a \in Seq(T) /\ b \in Seq(T)
        /\ b = IF x \in S THEN Append(a, x) ELSE a
    BY <1>1, <1>2, <2>1
  <2>3. Good(n)
    BY <1>5
  <2>4. x \in S <=> n + 1 > d
    BY <1>3, <2>1
  <2>5. CASE n + 1 <= d
    <3>1. b = a /\ n = 0 /\ d = 1
      BY <2>2, <2>4, <2>5
    <3>2. Len(a) = 0
      BY <2>3, <3>1
    <3>3. Len(b) = 0 /\ n + 1 = d
      BY <3>1, <3>2
    <3>4. \A i \in 1..(n + 1 - d) : FALSE
      BY <3>1
    <3> HIDE DEF a
    <3>5. Good(n + 1)
      BY <3>1, <3>3, <3>4
    <3> QED
      BY <2>1, <3>5
  <2>6. CASE n + 1 > d
    <3>1. b = Append(a, x) /\ Len(a) \in Nat
      BY <2>2, <2>4, <2>6, LenProperties
    <3>2. /\ Len(b) = Len(a) + 1 /\ b[Len(a) + 1] = x
          /\ \A i \in 1..Len(a) : b[i] = a[i]
      BY <2>2, <3>1, AppendProperties
    <3>3. Len(a) = n - d /\ \A i \in 1..(n - d) : a[i] = q[i + d]
      BY <2>3, <2>6
    <3>4. (n - d) + 1 + d = n + 1 /\ (n + 1) - d = (n - d) + 1
      OBVIOUS
    <3>5. x = q[((n - d) + 1) + d]
      BY <3>4
    <3> HIDE DEF b, a, x
    <3>6. \A i \in 1..((n + 1) - d) : b[i] = q[i + d]
      <4> SUFFICES ASSUME NEW i \in 1..((n + 1) - d)
                   PROVE  b[i] = q[i + d]
        OBVIOUS
      <4>1. CASE i = (n - d) + 1
        BY <3>2, <3>3, <3>5, <4>1
      <4>2. CASE i # (n - d) + 1
        <5>1. i \in 1..(n - d) /\ i \in 1..Len(a)
          BY <3>3, <3>4, <4>2
        <5> QED
          BY <3>2, <3>3, <5>1
      <4> QED
        BY <4>1, <4>2
    <3>7. Len(b) = IF n + 1 < d THEN 0 ELSE (n + 1) - d
      BY <2>6, <3>2, <3>3, <3>4
    <3> QED
      BY <2>1, <3>6, <3>7 DEF b
  <2> QED
    BY <2>5, <2>6
<1> HIDE DEF R
<1>6. \A n \in 0..(N - 1) : n \in R => n + 1 \in R
  BY <1>5
<1>7. \A n \in 0..N : n \in R
  BY <1>1, <1>4, <1>6, UpTo
<1>8. N \in R
  BY <1>1, <1>7
<1>9. Good(N) /\ ~(N < d)
  BY <1>1, <1>3, <1>8 DEF R
<1>10. Len(Kept(q, S)) = N - d /\ \A i \in 1..(N - d) : Kept(q, S)[i] = q[i + d]
  BY <1>2, <1>9
<1> QED
  BY <1>10 DEF N

-----------------------------------------------------------------------------
(* What enqueue() drops *)

(* The loop that drops the oldest frames stops as soon as the new one *)
(* fits, or when nothing is left.                                     *)
LEMMA Dropping ==
  ASSUME NEW s, NEW f, NEW q, q = queue[s], Len(q) \in Nat
  PROVE  LET k == Dropped(s, f)
         IN k \in 0..Len(q) /\ (k = Len(q) \/ Fits(s, k, f))
<1> DEFINE N == Len(q)
           Ok(k) == /\ k = N \/ Fits(s, k, f)
                    /\ \A j \in 0..(k - 1) : ~Fits(s, j, f)
           S == {k \in 0..N : k = N \/ Fits(s, k, f)}
<1>1. S \in SUBSET Nat /\ S # {}
  OBVIOUS
<1>2. PICK m \in S : \A k \in S : m <= k
  BY <1>1, Least
<1>3. m \in 0..N /\ Ok(m)
  <2>1. \A j \in 0..(m - 1) : j \in 0..N /\ ~(m <= j)
    BY <1>2
  <2>2. \A j \in 0..(m - 1) : j \notin S
    BY <1>2, <2>1
  <2> QED
    BY <1>2, <2>1, <2>2
<1>4. Dropped(s, f) = CHOOSE k \in 0..N : Ok(k)
  BY DEF Dropped
<1> HIDE DEF Ok
<1>5. Dropped(s, f) \in 0..N /\ Ok(Dropped(s, f))
  BY <1>3, <1>4, Zenon
<1> QED
  BY <1>5 DEF Ok

(* What push_back_locked makes of the queue and of its size. *)
PushesExactly(s, k, f) ==
  LET q == Append(SubSeq(queue[s], k + 1, Len(queue[s])), f)
      b == queued_bytes[s] - Bytes(SubSeq(queue[s], 1, k)) + f.size
  IN /\ q \in Seq(Frames) /\ b = Bytes(q) /\ b \in 0..MaxQueued
     /\ Len(q) = Len(queue[s]) - k + 1
     /\ q[Len(q)] = f
     /\ \A i \in 1..(Len(queue[s]) - k) : q[i] = queue[s][k + i]

(* Behind what is left of the queue a frame keeps the count of bytes exact *)
(* and in the budget: what is left is what was there without what went.    *)
LEMMA Pushing ==
  ASSUME TypeOK, BudgetExact, NEW s \in Subs, NEW f \in Frames,
         f.size <= MaxQueued,
         NEW k \in 0..Len(queue[s]), k = Len(queue[s]) \/ Fits(s, k, f)
  PROVE  PushesExactly(s, k, f)
<1> DEFINE w == queue[s]
           x == SubSeq(w, 1, k)
           y == SubSeq(w, k + 1, Len(w))
           q == Append(y, f)
           z == f.size
           b == queued_bytes[s] - Bytes(x) + z
<1>1. /\ w \in Seq(Frames) /\ queued_bytes[s] \in 0..MaxQueued
      /\ queued_bytes[s] = Bytes(w) /\ z \in Nat /\ MaxQueued \in Nat /\ z <= MaxQueued
      /\ Len(w) \in Nat /\ k \in 0..Len(w)
  BY SseAssumption, LenProperties DEF TypeOK, BudgetExact, Frames
<1>2. k = Len(w) \/ z <= MaxQueued - (queued_bytes[s] - Bytes(x))
  BY DEF Fits
<1> HIDE DEF w, z
<1>3. /\ x \in Seq(Frames) /\ y \in Seq(Frames) /\ x \o y = w
      /\ Len(y) = Len(w) - k
      /\ \A i \in 1..(Len(w) - k) : y[i] = w[k + i]
  BY <1>1, Cut
<1> HIDE DEF x, y
<1>4. Bytes(x) \in Nat /\ Bytes(y) \in Nat /\ Bytes(w) = Bytes(x) + Bytes(y)
  BY <1>3, BytesConcat
<1>5. k = Len(w) => Bytes(y) = 0
  <2> SUFFICES ASSUME k = Len(w)
               PROVE  Bytes(y) = 0
    OBVIOUS
  <2>1. Len(y) = 0
    BY <1>1, <1>3
  <2>2. y = <<>>
    BY <1>3, <2>1, EmptySeq
  <2> QED
    BY <2>2, BytesEmpty
<1>6. Bytes(y) + z <= MaxQueued
  BY <1>1, <1>2, <1>4, <1>5
<1>7. q \in Seq(Frames) /\ Bytes(q) = Bytes(y) + z
  <2>1. <<f>> \in Seq(Frames) /\ q = y \o <<f>>
    BY <1>3, AppendIsConcat
  <2>2. Bytes(<<f>>) = z
    BY BytesOne DEF z
  <2>3. Bytes(y \o <<f>>) = Bytes(y) + Bytes(<<f>>)
    BY <1>3, <2>1, BytesConcat
  <2>4. q \in Seq(Frames)
    BY <1>3, AppendProperties
  <2> HIDE DEF q
  <2> QED
    BY <2>1, <2>2, <2>3, <2>4
<1>8. /\ Len(q) = Len(y) + 1 /\ q[Len(y) + 1] = f
      /\ \A i \in 1..Len(y) : q[i] = y[i]
  BY <1>3, AppendProperties
<1> HIDE DEF q
<1>9. b = Bytes(q) /\ b \in 0..MaxQueued
  BY <1>1, <1>4, <1>6, <1>7
<1>10. /\ Len(q) = Len(w) - k + 1 /\ q[Len(q)] = f
       /\ \A i \in 1..(Len(w) - k) : q[i] = w[k + i]
  BY <1>1, <1>3, <1>8
<1> HIDE DEF b
<1>11. /\ q \in Seq(Frames) /\ b = Bytes(q) /\ b \in 0..MaxQueued
       /\ Len(q) = Len(w) - k + 1 /\ q[Len(q)] = f
       /\ \A i \in 1..(Len(w) - k) : q[i] = w[k + i]
  BY <1>7, <1>9, <1>10
<1> QED
  BY <1>11 DEF b, q, x, y, w, z, PushesExactly

(* The four fields of a subscriber that enqueue() changes. *)
Sets(s, q, b, c, o) ==
  /\ queue' = [queue EXCEPT ![s] = q]
  /\ queued_bytes' = [queued_bytes EXCEPT ![s] = b]
  /\ closed' = [closed EXCEPT ![s] = c]
  /\ overflows' = [overflows EXCEPT ![s] = o]

(* The new queue q: k frames are gone from the front of w, and f is behind. *)
Pushes(w, q, k, f) ==
  /\ k \in 0..Len(w)
  /\ Len(q) = Len(w) - k + 1
  /\ q[Len(q)] = f
  /\ \A i \in 1..(Len(w) - k) : q[i] = w[k + i]

Exact(q, b, c, o) ==
  /\ q \in Seq(Frames) /\ b = Bytes(q) /\ b \in 0..MaxQueued
  /\ c \in BOOLEAN /\ o \in 0..MaxOverflows
  /\ ~c => o < MaxOverflows

(* enqueue() leaves a closed subscriber alone, closes one and empties its  *)
(* queue, or pushes the frame.                                             *)
EnqueueMakes(s, f, q, b, c, o) ==
  /\ Sets(s, q, b, c, o) /\ Exact(q, b, c, o)
  /\ closed[s] => c /\ q = queue[s]
  /\ ~closed[s] /\ c => q = <<>>
  /\ ~c => /\ ~closed[s]
           /\ \E k : /\ Pushes(queue[s], q, k, f)
                     /\ o = IF k = 0 THEN overflows[s] ELSE overflows[s] + 1

(* push(): what an enqueue does to the queue, to its byte count, to the *)
(* drop count and to the history.                                       *)
LEMMA Enqueuing ==
  ASSUME TypeOK, Counted, NEW s \in Subs, NEW f \in Frames, Enqueue(s, f)
  PROVE  \E q, b, c, o : EnqueueMakes(s, f, q, b, c, o)
<1> DEFINE w == queue[s]
           o0 == overflows[s]
           k == Dropped(s, f)
           Goal(q, b, c, o) ==
             /\ Sets(s, q, b, c, o) /\ Exact(q, b, c, o)
             /\ closed[s] => c /\ q = queue[s]
             /\ ~closed[s] /\ c => q = <<>>
             /\ ~c => /\ ~closed[s]
                      /\ \E j : /\ Pushes(queue[s], q, j, f)
                                /\ o = IF j = 0 THEN overflows[s] ELSE overflows[s] + 1
           push(j) == Append(SubSeq(w, j + 1, Len(w)), f)
           cost(j) == queued_bytes[s] - Bytes(SubSeq(w, 1, j)) + f.size
<1>1. /\ w \in Seq(Frames) /\ Len(w) \in Nat /\ o0 \in 0..MaxOverflows
      /\ queued_bytes[s] \in 0..MaxQueued /\ queued_bytes[s] = Bytes(w)
      /\ closed[s] \in BOOLEAN /\ (~closed[s] => o0 < MaxOverflows)
      /\ MaxOverflows \in Nat /\ f.size \in Nat
      /\ queue \in [Subs -> Seq(Frames)] /\ queued_bytes \in [Subs -> 0..MaxQueued]
      /\ closed \in [Subs -> BOOLEAN] /\ overflows \in [Subs -> 0..MaxOverflows]
      /\ MaxQueued \in Nat
  BY SseAssumption, LenProperties DEF TypeOK, Counted, BudgetExact, Frames
<1>2. k \in 0..Len(w) /\ (k = Len(w) \/ Fits(s, k, f))
  BY <1>1, Dropping
<1>3. <<>> \in Seq(Frames) /\ Bytes(<<>>) = 0 /\ 0 \in 0..MaxQueued
  BY <1>1, BytesEmpty
<1>4. ASSUME NEW j \in 0..Len(w), j = Len(w) \/ Fits(s, j, f), f.size <= MaxQueued,
             NEW o \in 0..MaxOverflows, o < MaxOverflows, ~closed[s],
             o = IF j = 0 THEN o0 ELSE o0 + 1,
             PushBack(s, j, f), UNCHANGED closed,
             overflows' = [overflows EXCEPT ![s] = o]
      PROVE  \E q, b, c, p : Goal(q, b, c, p)
  <2>1. /\ push(j) \in Seq(Frames) /\ cost(j) = Bytes(push(j))
        /\ cost(j) \in 0..MaxQueued
        /\ Pushes(queue[s], push(j), j, f)
    <3>1. BudgetExact
      BY DEF Counted
    <3>2. PushesExactly(s, j, f)
      BY <1>4, <3>1, Pushing
    <3>3. /\ push(j) \in Seq(Frames) /\ cost(j) = Bytes(push(j))
          /\ cost(j) \in 0..MaxQueued
          /\ Len(push(j)) = Len(w) - j + 1
          /\ push(j)[Len(push(j))] = f
          /\ \A i \in 1..(Len(w) - j) : push(j)[i] = w[j + i]
      BY <3>2 DEF PushesExactly
    <3> HIDE DEF push, cost
    <3> QED
      BY <1>4, <3>3 DEF Pushes
  <2>2. /\ queue' = [queue EXCEPT ![s] = push(j)]
        /\ queued_bytes' = [queued_bytes EXCEPT ![s] = cost(j)]
    BY <1>1, <1>4 DEF PushBack
  <2>3. closed' = [closed EXCEPT ![s] = FALSE]
    BY <1>1, <1>4
  <2> HIDE DEF push, cost
  <2>4. Sets(s, push(j), cost(j), FALSE, o)
    BY <1>4, <2>2, <2>3 DEF Sets
  <2>5. Exact(push(j), cost(j), FALSE, o)
    BY <1>4, <2>1 DEF Exact
  <2>6. Goal(push(j), cost(j), FALSE, o)
    BY <1>4, <2>1, <2>4, <2>5
  <2> HIDE DEF Goal
  <2> QED
    BY <2>6
<1>5. ASSUME NEW o \in 0..MaxOverflows, CloseLocked(s), ~closed[s],
             overflows' = [overflows EXCEPT ![s] = o]
      PROVE  \E q, b, c, p : Goal(q, b, c, p)
  <2>1. Sets(s, <<>>, 0, TRUE, o)
    BY <1>5 DEF Sets, CloseLocked
  <2>2. Exact(<<>>, 0, TRUE, o)
    BY <1>3 DEF Exact
  <2>3. Goal(<<>>, 0, TRUE, o)
    BY <1>5, <2>1, <2>2
  <2> HIDE DEF Goal
  <2> QED
    BY <2>3
<1>6. ASSUME closed[s] /\ UNCHANGED <<queue, queued_bytes, closed, overflows>>
      PROVE  \E q, b, c, o : Goal(q, b, c, o)
  <2>1. Sets(s, w, queued_bytes[s], TRUE, o0)
    BY <1>1, <1>6 DEF Sets
  <2>2. Exact(w, queued_bytes[s], TRUE, o0)
    BY <1>1 DEF Exact
  <2>3. Goal(w, queued_bytes[s], TRUE, o0)
    BY <1>6, <2>1, <2>2
  <2> HIDE DEF Goal
  <2> QED
    BY <2>3 DEF Goal
<1>7. ASSUME ~closed[s] /\ CloseLocked(s) /\ UNCHANGED overflows
      PROVE  \E q, b, c, o : Goal(q, b, c, o)
  <2>1. overflows' = [overflows EXCEPT ![s] = o0]
    BY <1>1, <1>7
  <2> HIDE DEF o0
  <2> QED
    BY <1>1, <1>5, <1>7, <2>1
<1>8. ASSUME /\ ~closed[s] /\ f.size <= MaxQueued /\ k = 0
             /\ PushBack(s, 0, f) /\ UNCHANGED <<closed, overflows>>
      PROVE  \E q, b, c, o : Goal(q, b, c, o)
  <2>1. overflows' = [overflows EXCEPT ![s] = o0]
    BY <1>1, <1>8
  <2>2. 0 \in 0..Len(w) /\ (0 = Len(w) \/ Fits(s, 0, f))
    BY <1>2, <1>8
  <2> HIDE DEF o0, k, w, Goal
  <2>3. \E q, b, c, p : Goal(q, b, c, p)
    BY <1>1, <1>4, <1>8, <2>1, <2>2
  <2> QED
    BY <2>3 DEF Goal
<1>9. ASSUME /\ ~closed[s] /\ f.size <= MaxQueued /\ k > 0
             /\ overflows' = [overflows EXCEPT ![s] = o0 + 1]
             /\ IF o0 + 1 >= MaxOverflows
                  THEN CloseLocked(s)
                  ELSE PushBack(s, k, f) /\ UNCHANGED closed
      PROVE  \E q, b, c, o : Goal(q, b, c, o)
  <2>1. o0 + 1 \in 0..MaxOverflows /\ k # 0 /\ k \in 0..Len(w)
    BY <1>1, <1>2, <1>9
  <2>2. CASE o0 + 1 >= MaxOverflows
    <3> HIDE DEF o0, k, w, Goal
    <3>1. \E q, b, c, p : Goal(q, b, c, p)
      BY <1>5, <1>9, <2>1, <2>2
    <3> QED
      BY <3>1 DEF Goal
  <2>3. CASE ~(o0 + 1 >= MaxOverflows)
    <3> HIDE DEF o0, k, w, Goal
    <3> DEFINE o1 == o0 + 1
    <3>1. o1 \in 0..MaxOverflows /\ o1 < MaxOverflows
      BY <1>1, <2>1, <2>3
    <3>2. /\ PushBack(s, k, f) /\ UNCHANGED closed
          /\ overflows' = [overflows EXCEPT ![s] = o1]
      BY <1>9, <2>3
    <3>3. o1 = IF k = 0 THEN o0 ELSE o0 + 1
      BY <2>1
    <3> HIDE DEF o1
    <3>4. \E q, b, c, p : Goal(q, b, c, p)
      BY <1>2, <1>4, <1>9, <3>1, <3>2, <3>3
    <3> QED
      BY <3>4 DEF Goal
  <2> QED
    BY <2>2, <2>3
<1> HIDE DEF Goal
<1>10. \E q, b, c, o : Goal(q, b, c, o)
  BY <1>6, <1>7, <1>8, <1>9 DEF Enqueue
<1> QED
  BY <1>10 DEF Goal, EnqueueMakes

(* A heartbeat into an empty queue. *)
LEMMA Beating ==
  ASSUME TypeOK, Counted, NEW s \in Subs, Heartbeat(s)
  PROVE  \E q, b, c :
           /\ Sets(s, q, b, c, overflows[s]) /\ Exact(q, b, c, overflows[s])
           /\ q = IF c THEN <<>> ELSE <<Small>>
<1>1. /\ queue \in [Subs -> Seq(Frames)] /\ queued_bytes \in [Subs -> 0..MaxQueued]
      /\ closed \in [Subs -> BOOLEAN] /\ overflows \in [Subs -> 0..MaxOverflows]
      /\ queue[s] = <<>> /\ ~closed[s] /\ BudgetExact
      /\ overflows' = [overflows EXCEPT ![s] = overflows[s]]
      /\ overflows[s] < MaxOverflows
  BY DEF TypeOK, Counted, Heartbeat, Alive
<1>2. SmallFrame \in Nat /\ MaxQueued \in Nat
  BY SseAssumption
<1>3. Small \in Frames /\ Small.size = SmallFrame
  BY <1>2 DEF Small, Frames
<1>4. CASE SmallFrame > MaxQueued
  <2>1. Sets(s, <<>>, 0, TRUE, overflows[s])
    BY <1>1, <1>4 DEF Heartbeat, CloseLocked, Sets
  <2>2. Exact(<<>>, 0, TRUE, overflows[s])
    BY <1>1, <1>2, BytesEmpty DEF Exact
  <2> QED
    BY <2>1, <2>2
<1>5. CASE ~(SmallFrame > MaxQueued)
  <2>1. PushBack(s, 0, Small) /\ UNCHANGED closed
    BY <1>5 DEF Heartbeat
  <2>2. queue[s] \in Seq(Frames) /\ Len(queue[s]) = 0
    BY <1>1
  <2> DEFINE x == SubSeq(queue[s], 1, 0)
             y == SubSeq(queue[s], 0 + 1, Len(queue[s]))
  <2>3. x = <<>> /\ y = <<>>
    <3>1. 0 \in 0..Len(queue[s])
      BY <2>2
    <3>2. x \in Seq(Frames) /\ Len(x) = 0 /\ y \in Seq(Frames) /\ Len(y) = 0
      BY <2>2, <3>1, Cut
    <3> HIDE DEF x, y
    <3> QED
      BY <3>2, EmptySeq
  <2>4. /\ queue' = [queue EXCEPT ![s] = Append(y, Small)]
        /\ queued_bytes' = [queued_bytes EXCEPT ![s] = queued_bytes[s] - Bytes(x) + SmallFrame]
    BY <1>1, <1>3, <2>1 DEF PushBack
  <2> HIDE DEF x, y
  <2>5. Append(y, Small) = <<Small>>
    <3>1. Append(<<>>, Small) = <<Small>>
      BY <1>3
    <3> QED
      BY <2>3, <3>1
  <2>6. queued_bytes[s] - Bytes(x) + SmallFrame = SmallFrame
    <3>1. queued_bytes[s] = Bytes(queue[s])
      BY <1>1 DEF BudgetExact
    <3>2. queued_bytes[s] = 0 /\ Bytes(x) = 0
      BY <1>1, <2>3, <3>1, BytesEmpty
    <3> QED
      BY <1>2, <3>2
  <2>7. closed' = [closed EXCEPT ![s] = FALSE]
    BY <1>1, <2>1
  <2>8. Sets(s, <<Small>>, SmallFrame, FALSE, overflows[s])
    BY <1>1, <2>4, <2>5, <2>6, <2>7 DEF Sets
  <2>9. Bytes(<<Small>>) = SmallFrame /\ <<Small>> \in Seq(Frames)
    BY <1>3, BytesOne
  <2>10. Exact(<<Small>>, SmallFrame, FALSE, overflows[s])
    BY <1>1, <1>2, <1>5, <2>9 DEF Exact
  <2> QED
    BY <2>8, <2>10
<1> QED
  BY <1>4, <1>5

(* The number of the last event of a pull is one that was published. *)
LEMMA Pulled ==
  ASSUME TypeOK, Counted, NEW s \in Subs
  PROVE  LET events == Kept(queue[s], Events)
         IN events # <<>> => events[Len(events)].id \in 0..published
<1> DEFINE w == queue[s]
           e == Kept(w, Events)
<1>1. w \in Seq(Frames) /\ published \in Nat
  BY SseAssumption DEF TypeOK
<1>2. \A k \in 1..Len(w) : w[k].id <= published /\ w[k] \in Frames
  BY <1>1, ElementOfSeq DEF Counted
<1> HIDE DEF w
<1>3. /\ e \in Seq(Frames)
      /\ \A x \in Frames : In(x, e) <=> In(x, w) /\ x \in Events
  BY <1>1, Keeping
<1> HIDE DEF e
<1>4. ASSUME e # <<>>
      PROVE  e[Len(e)].id \in 0..published
  <2>1. Len(e) \in 1..Len(e)
    BY <1>3, <1>4, EmptySeq, LenProperties
  <2>2. e[Len(e)] \in Frames /\ In(e[Len(e)], e)
    BY <1>3, <2>1, ElementOfSeq DEF In
  <2>3. In(e[Len(e)], w)
    BY <1>3, <2>2
  <2>4. e[Len(e)].id <= published
    BY <1>2, <2>3 DEF In
  <2>5. e[Len(e)].id \in Nat
    BY <2>2 DEF Frames
  <2> QED
    BY <1>1, <2>4, <2>5
<1> QED
  BY <1>4 DEF e, w

(* prune_dead_locked(): exactly the subscribers that are alive remain *)
(* listed, each once.                                                 *)
LEMMA Pruning ==
  ASSUME TypeOK
  PROVE  /\ Pruned \in Seq(Subs) /\ Len(Pruned) <= Len(subscribers)
         /\ \A s \in Subs : In(s, Pruned) <=> In(s, subscribers) /\ Alive(s)
         /\ Distinct(subscribers) => Distinct(Pruned)
<1> DEFINE S == {s \in Subs : Alive(s)}
<1>1. subscribers \in Seq(Subs)
  BY DEF TypeOK
<1> HIDE DEF S
<1>2. /\ Kept(subscribers, S) \in Seq(Subs)
      /\ Len(Kept(subscribers, S)) <= Len(subscribers)
      /\ \A x \in Subs : In(x, Kept(subscribers, S)) <=> In(x, subscribers) /\ x \in S
      /\ Distinct(subscribers) => Distinct(Kept(subscribers, S))
  BY <1>1, Keeping
<1>3. Pruned = Kept(subscribers, S)
  BY DEF Pruned, S
<1>4. \A x \in Subs : x \in S <=> Alive(x)
  BY DEF S
<1> QED
  BY <1>2, <1>3, <1>4

-----------------------------------------------------------------------------
(* Every step keeps the invariant, one part at a time *)

(* Every step keeps the types. *)
LEMMA TypeKept ==
  ASSUME Inv, Next
  PROVE  TypeOK'
<1> USE SseAssumption
<1>0. TypeOK /\ Locked /\ Counted /\ Walked
  BY DEF Inv
<1>a. Small \in Frames /\ <<Small>> \in Seq(Frames) /\ <<>> \in Seq(Frames)
  BY DEF Small, Frames
<1>b. /\ 0 \in 0..MaxQueued /\ 0 \in 0..MaxOverflows /\ 0 \in 0..Interval
      /\ 0 \in 0..MaxEvents /\ (SmallFrame <= MaxQueued => SmallFrame \in 0..MaxQueued)
  OBVIOUS
<1>c. /\ queue \in [Subs -> Seq(Frames)]
      /\ queued_bytes \in [Subs -> 0..MaxQueued]
      /\ closed \in [Subs -> BOOLEAN] /\ notifier \in [Subs -> BOOLEAN]
      /\ overflows \in [Subs -> 0..MaxOverflows]
      /\ quiet \in [Subs -> 0..Interval]
      /\ phase \in [Subs -> Phases]
      /\ last \in [Subs -> 0..MaxEvents]
  BY <1>0 DEF TypeOK
<1>d. /\ cpc \in [Callers -> {"idle", "each", "notify"}]
      /\ todo \in [Callers -> Seq(Subs)]
      /\ target \in [Callers -> Subs \cup {Nobody}]
  BY <1>0 DEF TypeOK
<1>1. ASSUME NEW s \in Subs, Subscribe(s) PROVE TypeOK'
  <2>1. Append(Pruned, s) \in Seq(Subs)
    <3>1. Pruned \in Seq(Subs)
      BY <1>0, Pruning
    <3> HIDE DEF Pruned
    <3> QED
      BY <3>1, AppendProperties
  <2> QED
    <3>1. /\ queue' \in [Subs -> Seq(Frames)]
          /\ queued_bytes' \in [Subs -> 0..MaxQueued]
      <4>1. CASE RetryHint /\ SmallFrame <= MaxQueued
        <5>1. /\ queue' = [queue EXCEPT ![s] = <<Small>>]
              /\ queued_bytes' = [queued_bytes EXCEPT ![s] = SmallFrame]
          BY <1>1, <4>1 DEF Subscribe
        <5>2. queue' \in [Subs -> Seq(Frames)]
          BY <1>a, <1>c, <5>1
        <5>3. queued_bytes' \in [Subs -> 0..MaxQueued]
          BY <1>b, <1>c, <4>1, <5>1
        <5> QED
          BY <5>2, <5>3
      <4>2. CASE ~(RetryHint /\ SmallFrame <= MaxQueued)
        BY <1>c, <1>1, <4>2 DEF Subscribe
      <4> QED
        BY <4>1, <4>2
    <3>2. /\ phase' \in [Subs -> Phases] /\ last' \in [Subs -> 0..MaxEvents]
          /\ subscribers' \in Seq(Subs)
      BY <1>0, <1>1, <2>1 DEF TypeOK, Subscribe, Phases
    <3> QED
      BY <1>0, <1>1, <3>1, <3>2 DEF TypeOK, Subscribe, caller, pumping
<1>2. ASSUME RefuseSubscriber PROVE TypeOK'
  <2>1. Pruned \in Seq(Subs)
    BY <1>0, Pruning
  <2> QED
    BY <1>0, <1>2, <2>1
       DEF TypeOK, RefuseSubscriber, subscriber, caller, pumping
<1>3. ASSUME NEW s \in Subs, AddToPump(s) PROVE TypeOK'
  BY <1>0, <1>3 DEF TypeOK, AddToPump, subscriber, channel, caller, Phases
<1>4. ASSUME NEW s \in Subs, NotifyPump(s) PROVE TypeOK'
  BY <1>0, <1>4 DEF TypeOK, NotifyPump, subscriber, channel, caller, Phases
<1>5. ASSUME NEW s \in Subs, OnAttached(s) PROVE TypeOK'
  BY <1>0, <1>5 DEF TypeOK, OnAttached, channel, caller, pumping, Phases
<1>6. ASSUME NEW s \in Subs, OnDetached(s) PROVE TypeOK'
  <2>1. /\ phase' \in [Subs -> Phases] /\ queue' \in [Subs -> Seq(Frames)]
        /\ queued_bytes' \in [Subs -> 0..MaxQueued]
        /\ overflows' \in [Subs -> 0..MaxOverflows]
    BY <1>a, <1>b, <1>c, <1>6 DEF OnDetached, Phases
  <2>2. /\ quiet' \in [Subs -> 0..Interval] /\ last' \in [Subs -> 0..MaxEvents]
    BY <1>b, <1>c, <1>6 DEF OnDetached
  <2>3. /\ closed' \in [Subs -> BOOLEAN] /\ notifier' \in [Subs -> BOOLEAN]
        /\ notified' \in [Subs -> BOOLEAN]
    BY <1>0, <1>6 DEF TypeOK, OnDetached
  <2> QED
    BY <1>0, <1>6, <2>1, <2>2, <2>3
       DEF TypeOK, OnDetached, channel, caller, pumping
<1>7. ASSUME NEW s \in Subs, PullWrote(s) PROVE TypeOK'
  <2> DEFINE e == Kept(queue[s], Events)
             l == IF e = <<>> THEN last[s] ELSE e[Len(e)].id
  <2>1. l \in 0..MaxEvents
    <3>1. e # <<>> => e[Len(e)].id \in 0..published
      BY <1>0, Pulled
    <3>2. published \in 0..MaxEvents /\ last[s] \in 0..MaxEvents
      BY <1>0 DEF TypeOK
    <3> HIDE DEF e
    <3> QED
      BY <3>1, <3>2
  <2>2. last' = [last EXCEPT ![s] = l]
    BY <1>7, <1>0 DEF PullWrote, TypeOK
  <2>3. last' \in [Subs -> 0..MaxEvents]
    <3> HIDE DEF l
    <3> QED
      BY <1>0, <2>1, <2>2 DEF TypeOK
  <2> HIDE DEF l
  <2> QED
    <3>1. /\ queue' \in [Subs -> Seq(Frames)]
          /\ queued_bytes' \in [Subs -> 0..MaxQueued]
          /\ overflows' \in [Subs -> 0..MaxOverflows]
      BY <1>a, <1>b, <1>c, <1>7 DEF PullWrote
    <3>2. quiet' \in [Subs -> 0..Interval] /\ phase' \in [Subs -> Phases]
      BY <1>b, <1>c, <1>7 DEF PullWrote, Phases
    <3>3. UNCHANGED <<closed, notifier, notified, channel, caller, pumping>>
      BY <1>7 DEF PullWrote
    <3> QED
      BY <1>0, <2>3, <3>1, <3>2, <3>3 DEF TypeOK, channel, caller, pumping
<1>8. ASSUME NEW s \in Subs, PullIdle(s) PROVE TypeOK'
  BY <1>0, <1>8
     DEF TypeOK, PullIdle, subscriber, channel, caller, pumping, Phases
<1>9. ASSUME NEW s \in Subs, Woken(s) PROVE TypeOK'
  <2>1. PICK ph \in {"driving", "blocked"} : phase' = [phase EXCEPT ![s] = ph]
    BY <1>9 DEF Woken
  <2>2. phase' \in [Subs -> Phases] /\ notified' \in [Subs -> BOOLEAN]
    BY <1>0, <1>9, <2>1 DEF TypeOK, Woken, Phases
  <2> QED
    BY <1>0, <1>9, <2>2
       DEF TypeOK, Woken, subscriber, channel, caller, pumping
<1>10. ASSUME NEW s \in Subs, Writable(s) PROVE TypeOK'
  BY <1>0, <1>10
     DEF TypeOK, Writable, subscriber, channel, caller, pumping, Phases
<1>11. ASSUME NEW t \in Callers, NEW z \in Sizes, BeginPublish(t, z)
       PROVE  TypeOK'
  <2>1. Pruned \in Seq(Subs)
    BY <1>0, Pruning
  <2>2. [id |-> published + 1, size |-> z] \in Frames
    BY <1>0 DEF TypeOK, Frames
  <2>3. published + 1 \in 0..MaxEvents
    BY <1>0, <1>11, SMTT(30) DEF TypeOK, BeginPublish
  <2> QED
    BY <1>0, <1>11, <2>1, <2>2, <2>3
       DEF TypeOK, BeginPublish, Begin, subscriber, pumping
<1>12. ASSUME NEW t \in Callers, BeginCloseAll(t) PROVE TypeOK'
  BY <1>0, <1>12 DEF TypeOK, BeginCloseAll, Begin, subscriber, pumping
<1>13. ASSUME NEW t \in Callers, Shutdown(t) PROVE TypeOK'
  BY <1>0, <1>13 DEF TypeOK, Shutdown, Begin, subscriber, pumping
<1>14. ASSUME NEW t \in Callers, PublishTo(t) PROVE TypeOK'
  <2> DEFINE s == Head(todo[t])
  <2>1. todo[t] \in Seq(Subs) /\ todo[t] # <<>> /\ frame[t] \in Frames
    BY <1>0, <1>14 DEF TypeOK, PublishTo
  <2>2. s \in Subs /\ Tail(todo[t]) \in Seq(Subs)
    BY <2>1, HeadTailProperties
  <2>3. Enqueue(s, frame[t]) /\ Then(t, s, notifier[s] /\ ~closed[s])
    BY <1>14 DEF PublishTo
  <2> HIDE DEF s
  <2>4. PICK q, b, c, o : Sets(s, q, b, c, o) /\ Exact(q, b, c, o)
    <3>1. \E q, b, c, o : EnqueueMakes(s, frame[t], q, b, c, o)
      BY <1>0, <2>1, <2>2, <2>3, Enqueuing
    <3> QED
      BY <3>1 DEF EnqueueMakes
  <2>5. /\ queue' \in [Subs -> Seq(Frames)]
        /\ queued_bytes' \in [Subs -> 0..MaxQueued]
        /\ closed' \in [Subs -> BOOLEAN]
        /\ overflows' \in [Subs -> 0..MaxOverflows]
    BY <1>0, <2>2, <2>4 DEF TypeOK, Sets, Exact
  <2>6. /\ cpc' \in [Callers -> {"idle", "each", "notify"}]
        /\ todo' \in [Callers -> Seq(Subs)]
        /\ target' \in [Callers -> Subs \cup {Nobody}]
    <3>1. CASE notifier[s] /\ ~closed[s]
      BY <1>d, <2>2, <2>3, <3>1 DEF Then
    <3>2. CASE ~(notifier[s] /\ ~closed[s])
      BY <1>0, <2>2, <2>3, <3>2 DEF TypeOK, Then
    <3> QED
      BY <3>1, <3>2
  <2> QED
    BY <1>0, <1>14, <2>5, <2>6 DEF TypeOK, PublishTo, channel, pumping
<1>15. ASSUME NEW t \in Callers, BeginClose(t) PROVE TypeOK'
  <2> DEFINE s == Head(todo[t])
  <2>1. todo[t] \in Seq(Subs) /\ todo[t] # <<>>
    BY <1>0, <1>15 DEF TypeOK, BeginClose
  <2>2. s \in Subs /\ Tail(todo[t]) \in Seq(Subs)
    BY <2>1, HeadTailProperties
  <2>3. closed' = [closed EXCEPT ![s] = TRUE] /\ Then(t, s, notifier[s])
    BY <1>15 DEF BeginClose
  <2> HIDE DEF s
  <2>4. /\ cpc' \in [Callers -> {"idle", "each", "notify"}]
        /\ todo' \in [Callers -> Seq(Subs)]
        /\ target' \in [Callers -> Subs \cup {Nobody}]
    <3>1. CASE notifier[s]
      BY <1>d, <2>2, <2>3, <3>1 DEF Then
    <3>2. CASE ~notifier[s]
      BY <1>0, <2>2, <2>3, <3>2 DEF TypeOK, Then
    <3> QED
      BY <3>1, <3>2
  <2>5. closed' \in [Subs -> BOOLEAN]
    BY <1>0, <2>2, <2>3 DEF TypeOK
  <2> QED
    BY <1>0, <1>15, <2>4, <2>5 DEF TypeOK, BeginClose, channel, pumping
<1>16. ASSUME NEW t \in Callers, CallNotify(t) PROVE TypeOK'
  <2> DEFINE u == phase[target[t]] \in Attached
  <2>1. notified' = [notified EXCEPT ![target[t]] = u] /\ u \in BOOLEAN
    BY <1>16 DEF CallNotify, Notify
  <2> HIDE DEF u
  <2>2. notified' \in [Subs -> BOOLEAN]
    BY <1>0, <2>1 DEF TypeOK
  <2>3. /\ cpc' \in [Callers -> {"idle", "each", "notify"}]
        /\ target' \in [Callers -> Subs \cup {Nobody}]
    BY <1>0, <1>16 DEF TypeOK, CallNotify
  <2> QED
    BY <1>0, <1>16, <2>2, <2>3
       DEF TypeOK, CallNotify, subscriber, channel, pumping
<1>17. ASSUME NEW t \in Callers, End(t) PROVE TypeOK'
  <2>1. /\ cpc' \in [Callers -> {"idle", "each", "notify"}]
        /\ op' \in [Callers -> {"publish", "close"}]
        /\ frame' \in [Callers -> Frames]
    BY <1>0, <1>a, <1>17 DEF TypeOK, End
  <2>2. lock' \in Callers \cup {Nobody} /\ subscribers' \in Seq(Subs)
    BY <1>0, <1>17 DEF TypeOK, End
  <2> QED
    BY <1>0, <1>17, <2>1, <2>2 DEF TypeOK, End, subscriber, pumping
<1>18. ASSUME PumpWait \/ PumpSignalled \/ BeginTick \/ EndTick
       PROVE  TypeOK'
  BY <1>0, <1>18
     DEF TypeOK, PumpWait, PumpSignalled, BeginTick, EndTick, subscriber,
         channel, caller
<1>22. ASSUME PumpNotify PROVE TypeOK'
  <2> DEFINE u == phase[beat] \in Attached
  <2>1. notified' = [notified EXCEPT ![beat] = u] /\ u \in BOOLEAN
    BY <1>22 DEF PumpNotify, Notify
  <2> HIDE DEF u
  <2>2. notified' \in [Subs -> BOOLEAN]
    BY <1>0, <2>1 DEF TypeOK
  <2> QED
    BY <1>0, <1>22, <2>2 DEF TypeOK, PumpNotify, subscriber, channel, caller
<1>19. ASSUME NEW s \in Subs, DropDead(s) PROVE TypeOK'
  BY <1>0, <1>19 DEF TypeOK, DropDead, subscriber, channel, caller
<1>20. ASSUME NEW s \in Subs, NoHeartbeat(s) PROVE TypeOK'
  <2> DEFINE z == IF quiet[s] < Interval THEN quiet[s] + 1 ELSE quiet[s]
  <2>a. quiet[s] \in 0..Interval
    BY <1>0 DEF TypeOK
  <2>b. z \in 0..Interval
    BY <2>a
  <2>c. quiet' = [quiet EXCEPT ![s] = z]
    BY <1>20 DEF NoHeartbeat
  <2>1. quiet' = [quiet EXCEPT ![s] = z] /\ z \in 0..Interval
    BY <2>b, <2>c
  <2> HIDE DEF z
  <2>2. quiet' \in [Subs -> 0..Interval] /\ visit' \subseteq Subs
    BY <1>0, <1>20, <2>1, SMTT(30) DEF TypeOK, NoHeartbeat
  <2> QED
    BY <1>0, <1>20, <2>2 DEF TypeOK, NoHeartbeat, channel, caller
<1>21. ASSUME NEW s \in Subs, Heartbeat(s) PROVE TypeOK'
  <2>1. PICK q, b, c :
          Sets(s, q, b, c, overflows[s]) /\ Exact(q, b, c, overflows[s])
    BY <1>0, <1>21, Beating
  <2>2. /\ queue' \in [Subs -> Seq(Frames)]
        /\ queued_bytes' \in [Subs -> 0..MaxQueued]
        /\ closed' \in [Subs -> BOOLEAN]
    BY <1>0, <2>1 DEF TypeOK, Sets, Exact
  <2> QED
    <3>1. quiet' \in [Subs -> 0..Interval] /\ visit' \subseteq Subs
      BY <1>0, <1>21 DEF TypeOK, Heartbeat
    <3>2. /\ pump' \in {"run", "waiting", "tick", "notify"}
          /\ beat' \in Subs \cup {Nobody}
      BY <1>0, <1>21 DEF TypeOK, Heartbeat
    <3>3. UNCHANGED <<notifier, overflows, last, phase, notified, channel, caller,
                      pumped, signalled>>
      BY <1>21 DEF Heartbeat
    <3> QED
      BY <1>0, <2>2, <3>1, <3>2, <3>3 DEF TypeOK, channel, caller
<1> QED
  BY <1>1, <1>2, <1>3, <1>4, <1>5, <1>6, <1>7, <1>8, <1>9, <1>10, <1>11,
     <1>12, <1>13, <1>14, <1>15, <1>16, <1>17, <1>18, <1>19, <1>20, <1>21,
     <1>22
     DEF Next, Handle, Drive, CallerStep, PumpStep, PullFinished

(* What a connection or the subscription of one does to a subscriber: the  *)
(* callers, the pump's use of a notifier and the mutex are left alone.     *)
Handling(s) ==
  \/ Subscribe(s) \/ AddToPump(s) \/ NotifyPump(s) \/ OnAttached(s)
  \/ OnDetached(s) \/ PullWrote(s) \/ PullIdle(s) \/ Woken(s) \/ Writable(s)

(* What the handler of one stream does leaves the channel, the pump and *)
(* the publishers alone.                                                *)
LEMMA HandlingAlone ==
  ASSUME NEW s \in Subs, Handling(s)
  PROVE  UNCHANGED <<lock, cpc, target, pump, beat, op, todo, frame, published>>
BY DEF Handling, Subscribe, AddToPump, NotifyPump, OnAttached, OnDetached,
       PullWrote, PullIdle, Woken, Writable, subscriber, channel, caller, pumping

(* Every step is one of these. *)
LEMMA Stepping ==
  ASSUME Next
  PROVE  \/ \E s \in Subs : Handling(s)
         \/ RefuseSubscriber
         \/ \E t \in Callers, z \in Sizes : BeginPublish(t, z)
         \/ \E t \in Callers : BeginCloseAll(t) \/ Shutdown(t)
         \/ \E t \in Callers : PublishTo(t) \/ BeginClose(t)
         \/ \E t \in Callers : CallNotify(t) \/ End(t)
         \/ PumpWait \/ PumpSignalled \/ BeginTick \/ EndTick \/ PumpNotify
         \/ \E s \in Subs : DropDead(s) \/ NoHeartbeat(s)
         \/ \E s \in Subs : Heartbeat(s)
BY DEF Next, Handling, Handle, Drive, CallerStep, PumpStep, PullFinished

(* The mutex is free exactly when nobody is inside a call, and its holder  *)
(* is the only one.                                                        *)
LEMMA Alone ==
  ASSUME TypeOK, Locked
  PROVE  /\ lock = Nobody => \A u \in Callers : cpc[u] = "idle"
         /\ \A t, u \in Callers : cpc[t] # "idle" /\ u # t => cpc[u] = "idle"
BY SseAssumption DEF TypeOK, Locked

(* Every step keeps Locked: whoever is inside a critical section holds *)
(* the lock.                                                           *)
LEMMA LockedKept ==
  ASSUME Inv, Next
  PROVE  Locked'
<1> USE SseAssumption
<1>0. TypeOK /\ Locked
  BY DEF Inv
<1>a. /\ lock = Nobody => \A u \in Callers : cpc[u] = "idle"
      /\ \A t, u \in Callers : cpc[t] # "idle" /\ u # t => cpc[u] = "idle"
  BY <1>0, Alone
<1>b. /\ cpc \in [Callers -> {"idle", "each", "notify"}]
      /\ target \in [Callers -> Subs \cup {Nobody}]
      /\ todo \in [Callers -> Seq(Subs)]
  BY <1>0 DEF TypeOK
<1>1. ASSUME NEW s \in Subs, Handling(s) PROVE Locked'
  BY <1>0, <1>1, HandlingAlone DEF Locked
<1>2. ASSUME RefuseSubscriber PROVE Locked'
  BY <1>0, <1>2 DEF Locked, RefuseSubscriber, caller, pumping
<1>3. ASSUME NEW t \in Callers, NEW what, Begin(t, what), UNCHANGED <<target, pumping>>
      PROVE  Locked'
  BY <1>0, <1>a, <1>b, <1>3 DEF Locked, Begin, pumping
<1>4. ASSUME NEW t \in Callers, NEW z \in Sizes, BeginPublish(t, z)
      PROVE  Locked'
  BY <1>3, <1>4 DEF BeginPublish
<1>5. ASSUME NEW t \in Callers, BeginCloseAll(t) \/ Shutdown(t)
      PROVE  Locked'
  BY <1>3, <1>5 DEF BeginCloseAll, Shutdown
<1>6. ASSUME NEW t \in Callers, NEW s \in Subs, NEW copied \in BOOLEAN,
             cpc[t] = "each", Then(t, s, copied), UNCHANGED <<lock, pumping>>
      PROVE  Locked'
  <2>1. CASE copied
    <3>1. cpc' = [cpc EXCEPT ![t] = "notify"] /\ target' = [target EXCEPT ![t] = s]
      BY <1>6, <2>1 DEF Then
    <3> QED
      BY <1>0, <1>b, <1>6, <3>1 DEF Locked, pumping
  <2>2. CASE ~copied
    BY <1>0, <1>6, <2>2 DEF Locked, Then, pumping
  <2> QED
    BY <2>1, <2>2
<1>7. ASSUME NEW t \in Callers, PublishTo(t) \/ BeginClose(t)
      PROVE  Locked'
  <2>1. Head(todo[t]) \in Subs
    <3>1. todo[t] \in Seq(Subs) /\ todo[t] # <<>>
      BY <1>b, <1>7 DEF PublishTo, BeginClose
    <3> QED
      BY <3>1, HeadTailProperties
  <2>2. \E copied \in BOOLEAN : Then(t, Head(todo[t]), copied)
    <3>1. CASE PublishTo(t)
      <4>1. Then(t, Head(todo[t]), notifier[Head(todo[t])] /\ ~closed[Head(todo[t])])
        BY <3>1 DEF PublishTo
      <4> QED
        BY <4>1
    <3>2. CASE BeginClose(t)
      <4>1. Then(t, Head(todo[t]), notifier[Head(todo[t])])
        BY <3>2 DEF BeginClose
      <4>2. notifier[Head(todo[t])] \in BOOLEAN
        BY <1>0, <2>1 DEF TypeOK
      <4> QED
        BY <4>1, <4>2
    <3> QED
      BY <1>7, <3>1, <3>2
  <2>3. cpc[t] = "each" /\ UNCHANGED <<lock, pumping>>
    BY <1>7 DEF PublishTo, BeginClose, channel
  <2> QED
    BY <1>6, <2>1, <2>2, <2>3
<1>8. ASSUME NEW t \in Callers, CallNotify(t) PROVE Locked'
  BY <1>0, <1>b, <1>8 DEF Locked, CallNotify, channel, pumping
<1>9. ASSUME NEW t \in Callers, End(t) PROVE Locked'
  BY <1>0, <1>a, <1>b, <1>9 DEF Locked, End, pumping
<1>10. ASSUME PumpWait \/ PumpSignalled \/ BeginTick \/ EndTick \/ PumpNotify
       PROVE  Locked'
  BY <1>0, <1>10
     DEF Locked, PumpWait, PumpSignalled, BeginTick, EndTick, PumpNotify, channel,
         caller
<1>11. ASSUME NEW s \in Subs, DropDead(s) \/ NoHeartbeat(s) PROVE Locked'
  BY <1>0, <1>11 DEF Locked, DropDead, NoHeartbeat, channel, caller
<1>12. ASSUME NEW s \in Subs, Heartbeat(s) PROVE Locked'
  BY <1>0, <1>12 DEF Locked, Heartbeat, channel, caller
<1> QED
  BY <1>1, <1>2, <1>4, <1>5, <1>7, <1>8, <1>9, <1>10, <1>11, <1>12, Stepping

(* Nobody is opened again, nobody is unsubscribed, and only subscribe()    *)
(* makes a subscriber.                                                     *)
LEMMA OneWay ==
  ASSUME Inv, Next, NEW u \in Subs
  PROVE  /\ closed[u] => closed'[u]
         /\ phase[u] # "none" => phase'[u] # "none"
         /\ phase[u] = "none" /\ phase'[u] # "none" => Subscribe(u)
<1> DEFINE Goal == /\ closed[u] => closed'[u]
                   /\ phase[u] # "none" => phase'[u] # "none"
                   /\ phase[u] = "none" /\ phase'[u] # "none" => Subscribe(u)
<1>0. TypeOK /\ Counted
  BY DEF Inv
<1>a. closed \in [Subs -> BOOLEAN] /\ phase \in [Subs -> Phases]
      /\ todo \in [Callers -> Seq(Subs)]
  BY <1>0 DEF TypeOK
<1>1. ASSUME NEW s \in Subs, Handling(s) PROVE Goal
  <2>1. CASE Subscribe(s)
    BY <1>a, <2>1 DEF Subscribe
  <2>2. CASE AddToPump(s) \/ NotifyPump(s) \/ OnAttached(s)
    BY <1>a, <2>2 DEF AddToPump, NotifyPump, OnAttached, subscriber
  <2>3. CASE OnDetached(s)
    BY <1>a, <2>3 DEF OnDetached, Attached
  <2>4. CASE PullIdle(s) \/ Writable(s)
    BY <1>a, <2>4 DEF PullIdle, Writable, subscriber
  <2>5. CASE PullWrote(s)
    <3>1. PICK ph \in {"driving", "blocked"} : phase' = [phase EXCEPT ![s] = ph]
      BY <2>5 DEF PullWrote
    <3>2. phase[s] = "driving" /\ closed' = closed
      BY <2>5 DEF PullWrote
    <3> QED
      BY <1>a, <3>1, <3>2
  <2>6. CASE Woken(s)
    <3>1. PICK ph \in {"driving", "blocked"} : phase' = [phase EXCEPT ![s] = ph]
      BY <2>6 DEF Woken
    <3>2. phase[s] # "none" /\ closed' = closed
      BY <2>6 DEF Woken, subscriber
    <3> QED
      BY <1>a, <3>1, <3>2
  <2> QED
    BY <1>1, <2>1, <2>2, <2>3, <2>4, <2>5, <2>6 DEF Handling
<1>2. CASE UNCHANGED <<phase, closed>>
  BY <1>2
<1>3. ASSUME NEW s \in Subs, UNCHANGED phase, closed' = [closed EXCEPT ![s] = TRUE]
      PROVE  Goal
  BY <1>a, <1>3
<1>4. ASSUME NEW t \in Callers, PublishTo(t) PROVE Goal
  <2> DEFINE s == Head(todo[t])
  <2>1. s \in Subs /\ frame[t] \in Frames
    <3>1. todo[t] \in Seq(Subs) /\ todo[t] # <<>> /\ frame[t] \in Frames
      BY <1>0, <1>4 DEF TypeOK, PublishTo
    <3> QED
      BY <3>1, HeadTailProperties
  <2>2. Enqueue(s, frame[t]) /\ UNCHANGED phase
    BY <1>4 DEF PublishTo
  <2> HIDE DEF s
  <2>3. \E c \in BOOLEAN : closed' = [closed EXCEPT ![s] = c] /\ (closed[s] => c)
    <3>1. \E q, b, c, o : EnqueueMakes(s, frame[t], q, b, c, o)
      BY <1>0, <2>1, <2>2, Enqueuing
    <3> QED
      BY <3>1 DEF EnqueueMakes, Sets, Exact
  <2> QED
    BY <1>a, <2>1, <2>2, <2>3
<1>5. ASSUME NEW t \in Callers, BeginClose(t) PROVE Goal
  <2>1. todo[t] \in Seq(Subs) /\ todo[t] # <<>>
    BY <1>a, <1>5 DEF BeginClose
  <2>2. Head(todo[t]) \in Subs
    BY <2>1, HeadTailProperties
  <2> QED
    BY <1>3, <1>5, <2>2 DEF BeginClose
<1>6. ASSUME NEW s \in Subs, Heartbeat(s) PROVE Goal
  BY <1>2, <1>3, <1>6 DEF Heartbeat, CloseLocked
<1>7. ASSUME RefuseSubscriber PROVE Goal
  BY <1>2, <1>7 DEF RefuseSubscriber, subscriber
<1>8. ASSUME NEW t \in Callers, NEW z \in Sizes, BeginPublish(t, z)
      PROVE  Goal
  BY <1>2, <1>8 DEF BeginPublish, subscriber
<1>9. ASSUME NEW t \in Callers, BeginCloseAll(t) \/ Shutdown(t)
      PROVE  Goal
  BY <1>2, <1>9 DEF BeginCloseAll, Shutdown, subscriber
<1>10. ASSUME NEW t \in Callers, CallNotify(t) \/ End(t) PROVE Goal
  BY <1>2, <1>10 DEF CallNotify, End, subscriber
<1>11. ASSUME PumpWait \/ PumpSignalled \/ BeginTick \/ EndTick \/ PumpNotify
       PROVE  Goal
  BY <1>2, <1>11
     DEF PumpWait, PumpSignalled, BeginTick, EndTick, PumpNotify, subscriber
<1>12. ASSUME NEW s \in Subs, DropDead(s) \/ NoHeartbeat(s) PROVE Goal
  BY <1>2, <1>12 DEF DropDead, NoHeartbeat, subscriber
<1> HIDE DEF Goal
<1>13. Goal
  BY <1>1, <1>4, <1>5, <1>6, <1>7, <1>8, <1>9, <1>10, <1>11, <1>12, Stepping
<1> QED
  BY <1>13 DEF Goal

(* Every step keeps Listed: the subscriber list has no duplicates and *)
(* misses no live stream.                                             *)
LEMMA ListedKept ==
  ASSUME Inv, Next
  PROVE  Listed'
<1>0. TypeOK /\ Locked /\ Listed /\ Walked
  BY DEF Inv
<1>a. /\ subscribers \in Seq(Subs) /\ Distinct(subscribers)
      /\ Len(subscribers) \in Nat /\ Len(subscribers) <= MaxSubscribers
      /\ \A i \in 1..Len(subscribers) :
           subscribers[i] \in Subs /\ phase[subscribers[i]] # "none"
      /\ \A s \in Subs : Alive(s) => In(s, subscribers)
      /\ MaxSubscribers \in Nat
  BY <1>0, LenProperties, ElementOfSeq, SseAssumption DEF TypeOK, Listed
<1>b. /\ Pruned \in Seq(Subs) /\ Len(Pruned) <= Len(subscribers)
      /\ \A s \in Subs : In(s, Pruned) <=> In(s, subscribers) /\ Alive(s)
      /\ Distinct(Pruned) /\ Len(Pruned) \in Nat
      /\ \A i \in 1..Len(Pruned) : Pruned[i] \in Subs
  BY <1>0, <1>a, Pruning, LenProperties, ElementOfSeq
<1> HIDE DEF Pruned
<1>c. /\ \A u \in Subs : phase[u] # "none" => phase'[u] # "none"
      /\ \A u \in Subs : ~Subscribe(u) => (Alive(u)' => Alive(u))
  <2>1. \A u \in Subs : /\ closed[u] => closed'[u]
                        /\ phase[u] # "none" => phase'[u] # "none"
                        /\ phase[u] = "none" /\ phase'[u] # "none" => Subscribe(u)
    BY OneWay
  <2> QED
    BY <2>1 DEF Alive
<1>1. ASSUME UNCHANGED subscribers, \A u \in Subs : ~Subscribe(u)
      PROVE  Listed'
  BY <1>a, <1>c, <1>1 DEF Listed, In, Distinct
<1>2. ASSUME subscribers' = Pruned, \A u \in Subs : ~Subscribe(u)
      PROVE  Listed'
  <2>1. \A u \in Subs : Alive(u)' => In(u, Pruned)
    BY <1>a, <1>b, <1>c, <1>2
  <2>2. \A i \in 1..Len(Pruned) : phase'[Pruned[i]] # "none"
    <3> SUFFICES ASSUME NEW i \in 1..Len(Pruned)
                 PROVE  phase'[Pruned[i]] # "none"
      OBVIOUS
    <3>1. Pruned[i] \in Subs /\ In(Pruned[i], Pruned)
      BY <1>b DEF In
    <3>2. Alive(Pruned[i])
      BY <1>b, <3>1
    <3> QED
      BY <1>c, <3>1, <3>2 DEF Alive
  <2>3. Len(Pruned) <= MaxSubscribers
    BY <1>a, <1>b
  <2> QED
    BY <1>b, <1>2, <2>1, <2>2, <2>3 DEF Listed, In, Distinct
<1>3. ASSUME NEW s \in Subs, Subscribe(s) PROVE Listed'
  <2> DEFINE l == Append(Pruned, s)
  <2>1. /\ l \in Seq(Subs) /\ Len(l) = Len(Pruned) + 1 /\ l[Len(Pruned) + 1] = s
        /\ \A i \in 1..Len(Pruned) : l[i] = Pruned[i]
    BY <1>b, AppendProperties
  <2>2. subscribers' = l /\ Len(Pruned) < MaxSubscribers
    BY <1>3 DEF Subscribe
  <2> HIDE DEF l
  <2>3. \A i \in 1..Len(Pruned) :
          /\ Pruned[i] \in Subs /\ phase[Pruned[i]] # "none" /\ Pruned[i] # s
    <3> SUFFICES ASSUME NEW i \in 1..Len(Pruned)
                 PROVE  /\ Pruned[i] \in Subs /\ phase[Pruned[i]] # "none"
                        /\ Pruned[i] # s
      OBVIOUS
    <3>1. Pruned[i] \in Subs /\ In(Pruned[i], Pruned)
      BY <1>b DEF In
    <3>2. Alive(Pruned[i])
      BY <1>b, <3>1
    <3> QED
      BY <1>3, <3>1, <3>2 DEF Alive, Subscribe
  <2>4. Distinct(l)
    BY <1>b, <2>1, <2>3 DEF Distinct
  <2>5. phase'[s] # "none"
    BY <1>0, <1>3 DEF Subscribe, TypeOK
  <2>6. \A i \in 1..Len(l) : phase'[l[i]] # "none"
    BY <1>b, <1>c, <2>1, <2>3, <2>5
  <2>7. \A u \in Subs : u # s => (Alive(u)' => Alive(u))
    BY <1>0, <1>3 DEF Subscribe, TypeOK, Alive
  <2>8. \A u \in Subs : Alive(u)' => In(u, l)
    <3> SUFFICES ASSUME NEW u \in Subs, Alive(u)'
                 PROVE  In(u, l)
      OBVIOUS
    <3>1. CASE u = s
      <4>1. Len(Pruned) + 1 \in 1..Len(l)
        BY <1>b, <2>1
      <4> QED
        BY <2>1, <3>1, <4>1 DEF In
    <3>2. CASE u # s
      <4>1. In(u, Pruned)
        BY <1>a, <1>b, <2>7, <3>2
      <4> QED
        BY <1>b, <2>1, <4>1 DEF In
    <3> QED
      BY <3>1, <3>2
  <2>9. Len(l) <= MaxSubscribers
    BY <1>a, <1>b, <2>1, <2>2
  <2> QED
    BY <2>2, <2>4, <2>6, <2>8, <2>9 DEF Listed, In, Distinct
<1>4. ASSUME NEW s \in Subs, Handling(s), ~Subscribe(s) PROVE UNCHANGED subscribers
  BY <1>4
     DEF Handling, AddToPump, NotifyPump, OnAttached, OnDetached, PullWrote,
         PullIdle, Woken, Writable, channel
<1>5. CASE RefuseSubscriber
  BY <1>2, <1>3, <1>5 DEF RefuseSubscriber
<1>6. ASSUME NEW t \in Callers, NEW z \in Sizes, BeginPublish(t, z)
      PROVE  Listed'
  BY <1>2, <1>3, <1>6 DEF BeginPublish
<1>7. ASSUME NEW t \in Callers,
             BeginCloseAll(t) \/ Shutdown(t) \/ PublishTo(t) \/ BeginClose(t)
               \/ CallNotify(t)
      PROVE  UNCHANGED subscribers
  BY <1>7 DEF BeginCloseAll, Shutdown, PublishTo, BeginClose, CallNotify, channel
<1>8. ASSUME NEW t \in Callers, End(t), \A u \in Subs : ~Subscribe(u)
      PROVE  Listed'
  <2>1. CASE op[t] = "close"
    <3>1. todo[t] = <<>> /\ subscribers' = <<>> /\ cpc[t] # "idle"
      BY <1>8, <2>1 DEF End
    <3>2. \A s \in Subs : Alive(s) => In(s, <<>>)
      BY <1>0, <2>1, <3>1 DEF Walked
    <3>3. \A s \in Subs : ~Alive(s)'
      BY <1>c, <1>8, <3>2 DEF In
    <3> QED
      BY <1>a, <3>1, <3>3 DEF Listed, Distinct
  <2>2. CASE op[t] # "close"
    BY <1>1, <1>8, <2>2 DEF End
  <2> QED
    BY <2>1, <2>2
<1>9. ASSUME PumpWait \/ PumpSignalled \/ BeginTick \/ EndTick \/ PumpNotify
      PROVE  UNCHANGED subscribers
  BY <1>9 DEF PumpWait, PumpSignalled, BeginTick, EndTick, PumpNotify, channel
<1>10. ASSUME NEW s \in Subs, DropDead(s) \/ NoHeartbeat(s) \/ Heartbeat(s)
       PROVE  UNCHANGED subscribers
  BY <1>10 DEF DropDead, NoHeartbeat, Heartbeat, channel
<1> QED
  BY <1>1, <1>3, <1>4, <1>5, <1>6, <1>7, <1>8, <1>9, <1>10, Stepping

(* Taking the first element of a sequence without duplicates leaves all *)
(* the others, each once.                                               *)
LEMMA Tailing ==
  ASSUME NEW T, NEW q \in Seq(T), q # <<>>, Distinct(q)
  PROVE  /\ Distinct(Tail(q))
         /\ \A x : In(x, Tail(q)) <=> In(x, q) /\ x # Head(q)
         /\ In(Head(q), q)
         /\ \A i \in 1..Len(Tail(q)) : i + 1 \in 1..Len(q) /\ Tail(q)[i] = q[i + 1]
<1> DEFINE p == Tail(q)
<1>1. Len(q) \in Nat /\ Len(q) # 0
  BY LenProperties, EmptySeq
<1>2. /\ Len(p) = Len(q) - 1
      /\ \A i \in 1..Len(p) : p[i] = q[i + 1]
      /\ Head(q) = q[1]
  BY <1>1, HeadTailProperties
<1> HIDE DEF p
<1>3. \A i \in 1..Len(p) : i + 1 \in 1..Len(q)
  BY <1>1, <1>2
<1>4. Distinct(p)
  BY <1>1, <1>2, <1>3 DEF Distinct
<1>5. ASSUME NEW x
      PROVE  In(x, p) <=> In(x, q) /\ x # Head(q)
  <2>1. ASSUME In(x, p) PROVE In(x, q) /\ x # q[1]
    BY <1>1, <1>2, <1>3, <2>1 DEF In, Distinct
  <2>2. ASSUME In(x, q), x # q[1] PROVE In(x, p)
    <3>1. PICK i \in 1..Len(q) : q[i] = x
      BY <2>2 DEF In
    <3>2. i # 1 /\ i - 1 \in 1..Len(p) /\ (i - 1) + 1 = i
      BY <1>1, <1>2, <2>2, <3>1
    <3>3. p[i - 1] = x
      BY <1>2, <3>1, <3>2
    <3> QED
      BY <3>2, <3>3 DEF In
  <2> QED
    BY <1>2, <2>1, <2>2
<1>6. In(Head(q), q)
  BY <1>1, <1>2 DEF In
<1>7. \A i \in 1..Len(p) : i + 1 \in 1..Len(q) /\ p[i] = q[i + 1]
  BY <1>2, <1>3
<1>8. \A x : In(x, p) <=> In(x, q) /\ x # Head(q)
  BY <1>5
<1>9. Distinct(p) /\ In(Head(q), q)
  BY <1>4, <1>6
<1> QED
  BY <1>7, <1>8, <1>9 DEF p

WalkedBy(t) ==
  /\ Distinct(todo[t])
  /\ \A i \in 1..Len(todo[t]) : phase[todo[t][i]] # "none"
  /\ op[t] = "close" => \A s \in Subs : Alive(s) => In(s, todo[t])
  /\ op[t] = "publish" => frame[t].id = published

(* Every step keeps Walked: what a publish or a heartbeat still has to *)
(* visit is a part of the list.                                        *)
LEMMA WalkedKept ==
  ASSUME Inv, Next
  PROVE  Walked'
<1> USE SseAssumption
<1>0. TypeOK /\ Locked /\ Listed /\ Walked
  BY DEF Inv
<1>a. /\ lock = Nobody => \A u \in Callers : cpc[u] = "idle"
      /\ \A t, u \in Callers : cpc[t] # "idle" /\ u # t => cpc[u] = "idle"
  BY <1>0, Alone
<1>b. /\ cpc \in [Callers -> {"idle", "each", "notify"}]
      /\ op \in [Callers -> {"publish", "close"}]
      /\ todo \in [Callers -> Seq(Subs)]
      /\ frame \in [Callers -> Frames]
      /\ \A t \in Callers : \A i \in 1..Len(todo[t]) : todo[t][i] \in Subs
  BY <1>0, ElementOfSeq DEF TypeOK
<1>c. /\ \A u \in Subs : phase[u] # "none" => phase'[u] # "none"
      /\ \A u \in Subs : ~Subscribe(u) => (Alive(u)' => Alive(u))
  <2>1. \A u \in Subs : /\ closed[u] => closed'[u]
                        /\ phase[u] # "none" => phase'[u] # "none"
                        /\ phase[u] = "none" /\ phase'[u] # "none" => Subscribe(u)
    BY OneWay
  <2> QED
    BY <2>1 DEF Alive
<1>d. Walked' <=> \A t \in Callers : cpc'[t] # "idle" => WalkedBy(t)'
  BY DEF Walked, WalkedBy
<1>e. \A t \in Callers : cpc[t] # "idle" => WalkedBy(t)
  BY <1>0 DEF Walked, WalkedBy
<1>1. ASSUME NEW t \in Callers, UNCHANGED <<todo, op, frame, published>>,
             WalkedBy(t), \A u \in Subs : ~Subscribe(u)
      PROVE  WalkedBy(t)'
  BY <1>b, <1>c, <1>1 DEF WalkedBy, Distinct, In
<1>2. ASSUME UNCHANGED <<todo, op, frame, published>>, \A u \in Subs : ~Subscribe(u),
             \A t \in Callers : cpc'[t] # "idle" => cpc[t] # "idle"
      PROVE  Walked'
  <2> SUFFICES ASSUME NEW t \in Callers, cpc'[t] # "idle"
               PROVE  WalkedBy(t)'
    BY <1>d
  <2>1. WalkedBy(t)
    BY <1>e, <1>2
  <2> QED
    BY <1>1, <1>2, <2>1
<1>3. ASSUME NEW s \in Subs, Subscribe(s) PROVE Walked'
  <2>1. \A u \in Callers : cpc'[u] = "idle"
    BY <1>a, <1>3 DEF Subscribe, caller
  <2> QED
    BY <1>d, <2>1
<1>4. ASSUME NEW s \in Subs, Handling(s) PROVE Walked'
  <2>1. CASE \E u \in Subs : Subscribe(u)
    BY <1>3, <2>1
  <2>2. CASE \A u \in Subs : ~Subscribe(u)
    <3>1. UNCHANGED <<cpc, todo, op, frame, published>>
      BY <1>4, HandlingAlone
    <3> QED
      BY <1>2, <2>2, <3>1
  <2> QED
    BY <2>1, <2>2
<1>5. ASSUME NEW t \in Callers, NEW what, Begin(t, what), WalkedBy(t)'
      PROVE  Walked'
  BY <1>a, <1>b, <1>d, <1>5 DEF Begin
<1>6. ASSUME NEW t \in Callers, NEW z \in Sizes, BeginPublish(t, z)
      PROVE  Walked'
  <2>1. /\ todo'[t] = Pruned /\ op'[t] = "publish" /\ frame'[t].id = published'
    BY <1>b, <1>6 DEF BeginPublish, Begin
  <2>2. /\ Distinct(Pruned) /\ \A s \in Subs : In(s, Pruned) => Alive(s)
        /\ \A i \in 1..Len(Pruned) : Pruned[i] \in Subs
    BY <1>0, Pruning, ElementOfSeq DEF Listed
  <2> HIDE DEF Pruned
  <2>3. \A i \in 1..Len(Pruned) : phase'[Pruned[i]] # "none"
    <3> SUFFICES ASSUME NEW i \in 1..Len(Pruned)
                 PROVE  phase'[Pruned[i]] # "none"
      OBVIOUS
    <3>1. Pruned[i] \in Subs /\ In(Pruned[i], Pruned)
      BY <2>2 DEF In
    <3> QED
      BY <1>c, <2>2, <3>1 DEF Alive
  <2>4. WalkedBy(t)'
    BY <2>1, <2>2, <2>3 DEF WalkedBy, Distinct
  <2> QED
    BY <1>5, <1>6, <2>4 DEF BeginPublish
<1>7. ASSUME NEW t \in Callers, BeginCloseAll(t) \/ Shutdown(t)
      PROVE  Walked'
  <2>1. /\ todo'[t] = subscribers /\ op'[t] = "close" /\ UNCHANGED <<phase, closed>>
        /\ Begin(t, "close")
    BY <1>b, <1>7 DEF BeginCloseAll, Shutdown, Begin, subscriber
  <2>2. WalkedBy(t)'
    BY <1>0, <2>1 DEF WalkedBy, Listed, Distinct, In, Alive
  <2> QED
    BY <1>5, <2>1, <2>2
<1>8. ASSUME NEW t \in Callers, NEW s \in Subs, s = Head(todo[t]),
             cpc[t] = "each", todo[t] # <<>>,
             todo' = [todo EXCEPT ![t] = Tail(todo[t])],
             \A u \in Callers : u # t => cpc'[u] = cpc[u],
             UNCHANGED <<op, frame, published>>, \A u \in Subs : ~Subscribe(u),
             op[t] = "close" => closed'[s]
      PROVE  Walked'
  <2>1. WalkedBy(t) /\ todo[t] \in Seq(Subs)
    BY <1>b, <1>e, <1>8
  <2>2. /\ Distinct(Tail(todo[t]))
        /\ \A x : In(x, Tail(todo[t])) <=> In(x, todo[t]) /\ x # s
        /\ \A i \in 1..Len(Tail(todo[t])) :
             i + 1 \in 1..Len(todo[t]) /\ Tail(todo[t])[i] = todo[t][i + 1]
    BY <1>8, <2>1, Tailing DEF WalkedBy
  <2> DEFINE p == Tail(todo[t])
  <2>3. todo'[t] = p
    BY <1>b, <1>8
  <2>4. \A i \in 1..Len(p) : phase'[p[i]] # "none"
    BY <1>b, <1>c, <2>1, <2>2 DEF WalkedBy
  <2>5. op[t] = "close" => \A u \in Subs : Alive(u)' => In(u, p)
    BY <1>c, <1>8, <2>1, <2>2 DEF WalkedBy, Alive
  <2>6. op[t] = "publish" => frame[t].id = published
    BY <2>1 DEF WalkedBy
  <2>7. Distinct(p)
    BY <2>2
  <2> HIDE DEF p
  <2>8. WalkedBy(t)'
    <3>1. Distinct(todo[t])'
      BY <2>3, <2>7 DEF Distinct
    <3>2. \A i \in 1..Len(todo'[t]) : phase'[todo'[t][i]] # "none"
      BY <2>3, <2>4
    <3>3. op'[t] = "close" => \A u \in Subs : Alive(u)' => In(u, todo[t])'
      BY <1>8, <2>3, <2>5 DEF In
    <3>4. op'[t] = "publish" => frame'[t].id = published'
      BY <1>8, <2>6
    <3> QED
      BY <3>1, <3>2, <3>3, <3>4 DEF WalkedBy
  <2>9. \A u \in Callers : u # t => cpc'[u] = "idle"
    BY <1>a, <1>8
  <2> QED
    BY <1>d, <2>8, <2>9
<1>9. ASSUME NEW t \in Callers, PublishTo(t) \/ BeginClose(t), \A u \in Subs : ~Subscribe(u)
      PROVE  Walked'
  <2> DEFINE s == Head(todo[t])
  <2>1. cpc[t] = "each" /\ todo[t] # <<>> /\ todo[t] \in Seq(Subs)
    BY <1>b, <1>9 DEF PublishTo, BeginClose
  <2>2. s \in Subs
    BY <2>1, HeadTailProperties
  <2>3. todo' = [todo EXCEPT ![t] = Tail(todo[t])]
    BY <1>9 DEF PublishTo, BeginClose, Then
  <2>4. \A u \in Callers : u # t => cpc'[u] = cpc[u]
    BY <1>b, <1>9 DEF PublishTo, BeginClose, Then
  <2>5. UNCHANGED <<op, frame, published>>
    BY <1>9 DEF PublishTo, BeginClose, channel
  <2>6. op[t] = "close" => closed'[s]
    BY <1>0, <1>9, <2>2 DEF PublishTo, BeginClose, TypeOK
  <2> HIDE DEF s
  <2>7. s = Head(todo[t])
    BY DEF s
  <2> QED
    BY <1>8, <1>9, <2>1, <2>2, <2>3, <2>4, <2>5, <2>6, <2>7
<1>10. ASSUME NEW t \in Callers, CallNotify(t), \A u \in Subs : ~Subscribe(u)
       PROVE  Walked'
  <2>1. /\ UNCHANGED <<todo, op, frame, published>>
        /\ \A u \in Callers : cpc'[u] # "idle" => cpc[u] # "idle"
    BY <1>b, <1>10 DEF CallNotify, channel
  <2> QED
    BY <1>2, <1>10, <2>1
<1>11. ASSUME NEW t \in Callers, End(t) PROVE Walked'
  <2>1. \A u \in Callers : cpc'[u] = "idle"
    BY <1>a, <1>b, <1>11 DEF End
  <2> QED
    BY <1>d, <2>1
<1>12. ASSUME RefuseSubscriber \/ PumpWait \/ PumpSignalled \/ BeginTick \/ EndTick
                \/ PumpNotify
       PROVE  UNCHANGED <<cpc, todo, op, frame, published>>
  BY <1>12
     DEF RefuseSubscriber, PumpWait, PumpSignalled, BeginTick, EndTick,
         PumpNotify, channel, caller
<1>13. ASSUME NEW s \in Subs, DropDead(s) \/ NoHeartbeat(s) \/ Heartbeat(s)
       PROVE  UNCHANGED <<cpc, todo, op, frame, published>>
  BY <1>13 DEF DropDead, NoHeartbeat, Heartbeat, channel, caller
<1>14. CASE \E u \in Subs : Subscribe(u)
  BY <1>3, <1>14
<1>15. CASE \A u \in Subs : ~Subscribe(u)
  BY <1>2, <1>4, <1>6, <1>7, <1>9, <1>10, <1>11, <1>12, <1>13, <1>15, Stepping
<1> QED
  BY <1>14, <1>15

NoticedBy(u) ==
  /\ notifier[u] <=> phase[u] \in Attached
  /\ phase[u] = "parked" /\ (queue[u] # <<>> \/ closed[u])
       => notified[u] \/ UsesNotifier(u)

(* Every step keeps Noticed: a parked stream with frames has a *)
(* notification on its way.                                    *)
LEMMA NoticedKept ==
  ASSUME Inv, Next
  PROVE  Noticed'
<1> USE SseAssumption
<1>0. TypeOK /\ Locked /\ Counted
  BY DEF Inv
<1> SUFFICES ASSUME NEW u \in Subs
             PROVE  NoticedBy(u)'
  BY DEF Noticed, NoticedBy, ParkedIsWoken
<1>a. NoticedBy(u)
  BY DEF Inv, Noticed, NoticedBy, ParkedIsWoken
<1>b. /\ queue \in [Subs -> Seq(Frames)] /\ closed \in [Subs -> BOOLEAN]
      /\ notifier \in [Subs -> BOOLEAN] /\ notified \in [Subs -> BOOLEAN]
      /\ phase \in [Subs -> Phases]
      /\ target \in [Callers -> Subs \cup {Nobody}] /\ Nobody \notin Subs
      /\ todo \in [Callers -> Seq(Subs)]
  BY <1>0 DEF TypeOK
<1>1. ASSUME UNCHANGED <<notifier, phase, queue, closed, notified, target, beat>>
      PROVE  NoticedBy(u)'
  BY <1>a, <1>1 DEF NoticedBy, UsesNotifier
<1>2. ASSUME notifier'[u] <=> phase'[u] \in Attached,
             phase'[u] = "parked" =>
               /\ phase[u] = "parked" /\ queue'[u] = queue[u]
               /\ closed'[u] = closed[u] /\ notified'[u] = notified[u],
             UNCHANGED <<target, beat>>
      PROVE  NoticedBy(u)'
  BY <1>a, <1>2 DEF NoticedBy, UsesNotifier
<1>3. ASSUME NEW s \in Subs, Handling(s) PROVE NoticedBy(u)'
  <2>1. UNCHANGED <<target, beat>>
    BY <1>3, HandlingAlone
  <2>2. CASE Subscribe(s)
    <3>1. /\ notifier' = notifier /\ notified' = notified /\ closed' = closed
          /\ phase' = [phase EXCEPT ![s] = "created"] /\ phase[s] = "none"
          /\ u # s => queue'[u] = queue[u]
      BY <1>b, <2>2 DEF Subscribe
    <3> QED
      BY <1>2, <1>a, <1>b, <2>1, <3>1 DEF Attached, NoticedBy
  <2>3. CASE AddToPump(s) \/ NotifyPump(s)
    BY <1>2, <1>a, <1>b, <2>1, <2>3
       DEF AddToPump, NotifyPump, Attached, NoticedBy, subscriber
  <2>4. CASE OnAttached(s)
    BY <1>2, <1>a, <1>b, <2>1, <2>4 DEF OnAttached, Attached, NoticedBy
  <2>5. CASE OnDetached(s)
    BY <1>2, <1>a, <1>b, <2>1, <2>5 DEF OnDetached, Attached, NoticedBy
  <2>6. CASE PullIdle(s)
    BY <1>a, <1>b, <2>1, <2>6
       DEF PullIdle, Attached, NoticedBy, UsesNotifier, subscriber
  <2>7. CASE PullWrote(s)
    <3>1. PICK ph \in {"driving", "blocked"} : phase' = [phase EXCEPT ![s] = ph]
      BY <2>7 DEF PullWrote
    <3>2. /\ phase[s] = "driving" /\ notifier' = notifier /\ notified' = notified
          /\ closed' = closed /\ queue' = [queue EXCEPT ![s] = <<>>]
      BY <2>7 DEF PullWrote
    <3> QED
      BY <1>2, <1>a, <1>b, <2>1, <3>1, <3>2 DEF Attached, NoticedBy
  <2>8. CASE Woken(s)
    <3>1. PICK ph \in {"driving", "blocked"} : phase' = [phase EXCEPT ![s] = ph]
      BY <2>8 DEF Woken
    <3>2. /\ phase[s] \in {"parked", "blocked"} /\ notifier' = notifier
          /\ closed' = closed /\ queue' = queue
          /\ notified' = [notified EXCEPT ![s] = FALSE]
      BY <2>8 DEF Woken, subscriber
    <3> QED
      BY <1>2, <1>a, <1>b, <2>1, <3>1, <3>2 DEF Attached, NoticedBy
  <2>9. CASE Writable(s)
    BY <1>2, <1>a, <1>b, <2>1, <2>9
       DEF Writable, Attached, NoticedBy, subscriber
  <2> QED
    BY <1>3, <2>2, <2>3, <2>4, <2>5, <2>6, <2>7, <2>8, <2>9 DEF Handling
<1>4. ASSUME NEW t \in Callers, NEW s \in Subs, NEW copied \in BOOLEAN,
             cpc[t] = "each", Then(t, s, copied),
             UNCHANGED <<notifier, phase, notified, beat>>,
             u # s => queue'[u] = queue[u] /\ closed'[u] = closed[u],
             u = s => copied \/ ~notifier[s] \/ (queue'[s] = queue[s] /\ closed'[s] = closed[s])
      PROVE  NoticedBy(u)'
  <2>1. target[t] = Nobody
    BY <1>0, <1>4 DEF Locked
  <2>2. UsesNotifier(u) => UsesNotifier(u)'
    <3> SUFFICES ASSUME UsesNotifier(u)
                 PROVE  UsesNotifier(u)'
      OBVIOUS
    <3>1. CASE beat = u
      BY <1>4, <3>1 DEF UsesNotifier
    <3>2. CASE \E v \in Callers : target[v] = u
      <4>1. PICK v \in Callers : target[v] = u
        BY <3>2
      <4>2. v # t
        BY <1>b, <2>1, <4>1
      <4>3. target'[v] = u
        BY <1>b, <1>4, <4>1, <4>2 DEF Then
      <4> QED
        BY <4>3 DEF UsesNotifier
    <3> QED
      BY <3>1, <3>2 DEF UsesNotifier
  <2>3. CASE u = s /\ copied
    <3>1. target'[t] = u
      BY <1>b, <1>4, <2>3 DEF Then
    <3>2. UsesNotifier(u)'
      BY <3>1 DEF UsesNotifier
    <3> QED
      BY <1>a, <1>4, <3>2 DEF NoticedBy
  <2>4. CASE ~(u = s /\ copied)
    BY <1>a, <1>4, <2>2, <2>4 DEF NoticedBy, Attached
  <2> QED
    BY <2>3, <2>4
<1>5. ASSUME NEW t \in Callers, PublishTo(t) PROVE NoticedBy(u)'
  <2> DEFINE s == Head(todo[t])
             copied == notifier[s] /\ ~closed[s]
  <2>1. s \in Subs /\ frame[t] \in Frames
    <3>1. todo[t] \in Seq(Subs) /\ todo[t] # <<>> /\ frame[t] \in Frames
      BY <1>0, <1>5 DEF TypeOK, PublishTo
    <3> QED
      BY <3>1, HeadTailProperties
  <2>2. /\ Enqueue(s, frame[t]) /\ UNCHANGED <<notifier, phase, notified, beat>>
        /\ cpc[t] = "each" /\ Then(t, s, copied)
    BY <1>5 DEF PublishTo, pumping
  <2> HIDE DEF s
  <2>3. \E q, c : /\ queue' = [queue EXCEPT ![s] = q]
                  /\ closed' = [closed EXCEPT ![s] = c]
                  /\ closed[s] => c /\ q = queue[s]
    <3>1. \E q, b, c, o : EnqueueMakes(s, frame[t], q, b, c, o)
      BY <1>0, <2>1, <2>2, Enqueuing
    <3> QED
      BY <3>1 DEF EnqueueMakes, Sets
  <2>4. /\ u # s => queue'[u] = queue[u] /\ closed'[u] = closed[u]
        /\ closed[s] => queue'[s] = queue[s] /\ closed'[s]
    BY <1>b, <2>1, <2>3
  <2>5. copied \in BOOLEAN
    OBVIOUS
  <2>6. copied \/ ~notifier[s] \/ (queue'[s] = queue[s] /\ closed'[s] = closed[s])
    <3>1. closed' \in [Subs -> BOOLEAN]
      BY TypeKept DEF TypeOK
    <3> QED
      BY <1>b, <2>1, <2>4, <3>1
  <2> HIDE DEF copied
  <2> QED
    BY <1>4, <2>1, <2>2, <2>4, <2>5, <2>6
<1>6. ASSUME NEW t \in Callers, BeginClose(t) PROVE NoticedBy(u)'
  <2> DEFINE s == Head(todo[t])
             copied == notifier[s]
  <2>1. s \in Subs
    <3>1. todo[t] \in Seq(Subs) /\ todo[t] # <<>>
      BY <1>b, <1>6 DEF BeginClose
    <3> QED
      BY <3>1, HeadTailProperties
  <2>2. /\ closed' = [closed EXCEPT ![s] = TRUE]
        /\ UNCHANGED <<queue, notifier, phase, notified, beat>>
        /\ cpc[t] = "each" /\ Then(t, s, copied)
    BY <1>6 DEF BeginClose, pumping
  <2> HIDE DEF s
  <2>3. u # s => queue'[u] = queue[u] /\ closed'[u] = closed[u]
    BY <1>b, <2>1, <2>2
  <2>4. copied \in BOOLEAN /\ (copied \/ ~notifier[s])
    BY <1>b, <2>1
  <2> HIDE DEF copied
  <2> QED
    BY <1>4, <2>1, <2>2, <2>3, <2>4
<1>7. ASSUME NEW x \in Subs, Notify(x),
             UNCHANGED <<notifier, phase, queue, closed>>,
             UsesNotifier(u) => u = x \/ UsesNotifier(u)'
      PROVE  NoticedBy(u)'
  <2>1. CASE u = x
    <3>1. notified'[u] <=> phase[u] \in Attached
      BY <1>b, <1>7, <2>1 DEF Notify
    <3>2. phase[u] = "parked" => notified'[u]
      BY <3>1 DEF Attached
    <3> QED
      BY <1>a, <1>7, <3>2 DEF NoticedBy
  <2>2. CASE u # x
    <3>1. notified'[u] = notified[u]
      BY <1>b, <1>7, <2>2 DEF Notify
    <3> QED
      BY <1>a, <1>7, <2>2, <3>1 DEF NoticedBy
  <2> QED
    BY <2>1, <2>2
<1>8. ASSUME NEW t \in Callers, CallNotify(t) PROVE NoticedBy(u)'
  <2>1. target[t] \in Subs
    BY <1>0, <1>8 DEF Locked, CallNotify
  <2>2. UsesNotifier(u) => u = target[t] \/ UsesNotifier(u)'
    BY <1>b, <1>8 DEF UsesNotifier, CallNotify, pumping
  <2> QED
    BY <1>7, <1>8, <2>1, <2>2 DEF CallNotify, subscriber
<1>9. ASSUME PumpNotify PROVE NoticedBy(u)'
  <2>1. beat \in Subs
    BY <1>0, <1>9 DEF Locked, PumpNotify
  <2>2. UsesNotifier(u) => u = beat \/ UsesNotifier(u)'
    BY <1>b, <1>9 DEF UsesNotifier, PumpNotify, caller
  <2> QED
    BY <1>7, <1>9, <2>1, <2>2 DEF PumpNotify, subscriber
<1>10. ASSUME NEW s \in Subs, Heartbeat(s) PROVE NoticedBy(u)'
  <2>1. /\ UNCHANGED <<notifier, phase, notified, target>>
        /\ beat = Nobody /\ (notifier[s] => beat' = s)
        /\ (~notifier[s] => beat' = beat)
    BY <1>0, <1>10 DEF Locked, Heartbeat, caller
  <2>2. PICK q, c : /\ queue' = [queue EXCEPT ![s] = q]
                    /\ closed' = [closed EXCEPT ![s] = c]
    BY <1>0, <1>10, Beating DEF Sets
  <2>3. UsesNotifier(u) => UsesNotifier(u)'
    BY <1>b, <2>1 DEF UsesNotifier
  <2>4. CASE u = s /\ notifier[s]
    <3>1. UsesNotifier(u)'
      BY <2>1, <2>4 DEF UsesNotifier
    <3> QED
      BY <1>a, <2>1, <3>1 DEF NoticedBy
  <2>5. CASE u = s /\ ~notifier[s]
    BY <1>a, <2>1, <2>5 DEF NoticedBy, Attached
  <2>6. CASE u # s
    <3>1. queue'[u] = queue[u] /\ closed'[u] = closed[u]
      BY <1>b, <2>2, <2>6
    <3> QED
      BY <1>a, <2>1, <2>3, <3>1 DEF NoticedBy
  <2> QED
    BY <2>4, <2>5, <2>6
<1>11. ASSUME NEW t \in Callers, NEW z \in Sizes, BeginPublish(t, z)
       PROVE  NoticedBy(u)'
  BY <1>1, <1>11 DEF BeginPublish, subscriber, pumping
<1>12. ASSUME NEW t \in Callers, BeginCloseAll(t) \/ Shutdown(t) \/ End(t)
       PROVE  NoticedBy(u)'
  BY <1>1, <1>12 DEF BeginCloseAll, Shutdown, End, subscriber, pumping
<1>13. ASSUME RefuseSubscriber \/ PumpWait \/ PumpSignalled \/ BeginTick \/ EndTick
       PROVE  NoticedBy(u)'
  BY <1>1, <1>13
     DEF RefuseSubscriber, PumpWait, PumpSignalled, BeginTick, EndTick,
         subscriber, caller, pumping
<1>14. ASSUME NEW s \in Subs, DropDead(s) \/ NoHeartbeat(s) PROVE NoticedBy(u)'
  BY <1>1, <1>14 DEF DropDead, NoHeartbeat, subscriber, caller
<1> QED
  BY <1>3, <1>5, <1>6, <1>8, <1>9, <1>10, <1>11, <1>12, <1>13, <1>14, Stepping

CountedBy(u) ==
  /\ queued_bytes[u] = Bytes(queue[u]) /\ queued_bytes[u] <= MaxQueued
  /\ \A k \in 1..Len(queue[u]) : queue[u][k].id <= published
  /\ ~closed[u] => overflows[u] < MaxOverflows
  /\ phase[u] = "none" => queue[u] = <<>> /\ overflows[u] = 0

(* Every step keeps Counted: the byte counter is the sum of the sizes in *)
(* the queue.                                                            *)
LEMMA CountedKept ==
  ASSUME Inv, Next
  PROVE  Counted'
<1> USE SseAssumption
<1>0. TypeOK /\ Locked /\ Counted /\ Walked
  BY DEF Inv
<1>a. /\ queue \in [Subs -> Seq(Frames)] /\ closed \in [Subs -> BOOLEAN]
      /\ queued_bytes \in [Subs -> 0..MaxQueued]
      /\ overflows \in [Subs -> 0..MaxOverflows]
      /\ phase \in [Subs -> Phases] /\ published \in Nat
      /\ todo \in [Callers -> Seq(Subs)] /\ frame \in [Callers -> Frames]
      /\ MaxOverflows \in Nat /\ MaxOverflows > 0 /\ MaxQueued \in Nat
      /\ SmallFrame \in Nat
  <2>1. MaxOverflows \in Nat \ {0} /\ SmallFrame \in Nat \ {0}
        /\ MaxQueued \in Nat /\ MaxEvents \in Nat
    OBVIOUS
  <2>2. MaxOverflows > 0
    BY <2>1
  <2> QED
    BY <1>0, <2>1, <2>2 DEF TypeOK
<1>b. published' \in Nat /\ published <= published'
  <2>1. CASE UNCHANGED published
    BY <1>a, <2>1
  <2>2. ASSUME NEW t \in Callers, NEW z \in Sizes, BeginPublish(t, z)
        PROVE  published' \in Nat /\ published <= published'
    BY <1>a, <2>2 DEF BeginPublish
  <2>3. ASSUME NEW t \in Callers,
               BeginCloseAll(t) \/ Shutdown(t) \/ PublishTo(t) \/ BeginClose(t)
                 \/ CallNotify(t) \/ End(t)
        PROVE  UNCHANGED published
    BY <2>3 DEF BeginCloseAll, Shutdown, PublishTo, BeginClose, CallNotify, End, channel
  <2>4. ASSUME RefuseSubscriber \/ PumpWait \/ PumpSignalled \/ BeginTick
                 \/ EndTick \/ PumpNotify
        PROVE  UNCHANGED published
    BY <2>4 DEF RefuseSubscriber, PumpWait, PumpSignalled, BeginTick, EndTick,
                PumpNotify, channel
  <2>5. ASSUME NEW s \in Subs, DropDead(s) \/ NoHeartbeat(s) \/ Heartbeat(s)
        PROVE  UNCHANGED published
    BY <2>5 DEF DropDead, NoHeartbeat, Heartbeat, channel
  <2>6. ASSUME NEW s \in Subs, Handling(s) PROVE UNCHANGED published
    BY <2>6, HandlingAlone
  <2> QED
    BY <2>1, <2>2, <2>3, <2>4, <2>5, <2>6, Stepping
<1>c. \A u \in Subs : phase[u] # "none" => phase'[u] # "none"
  BY OneWay
<1>1. ASSUME NEW t \in Callers PROVE frame'[t].id <= published'
  <2>1. frame[t].id \in Nat /\ frame[t].id <= published
    BY <1>0, <1>a DEF Counted, Frames
  <2>2. ASSUME frame'[t] = frame[t] PROVE frame'[t].id <= published'
    BY <1>a, <1>b, <2>1, <2>2
  <2>3. ASSUME NEW v \in Callers, NEW z \in Sizes, BeginPublish(v, z)
        PROVE  frame'[t].id <= published'
    <3>1. CASE v = t
      <4>1. frame'[t].id = published' /\ published' \in Nat
        BY <1>a, <1>b, <2>3, <3>1 DEF BeginPublish
      <4> QED
        BY <4>1
    <3>2. CASE v # t
      BY <1>a, <2>2, <2>3, <3>2 DEF BeginPublish
    <3> QED
      BY <3>1, <3>2
  <2>4. ASSUME NEW v \in Callers, End(v) PROVE frame'[t].id <= published'
    <3>1. CASE v = t
      <4>1. frame'[t].id = 0
        BY <1>a, <2>4, <3>1 DEF End, Small
      <4> QED
        BY <1>b, <4>1
    <3>2. CASE v # t
      BY <1>a, <2>2, <2>4, <3>2 DEF End
    <3> QED
      BY <3>1, <3>2
  <2>5. ASSUME NEW v \in Callers,
               BeginCloseAll(v) \/ Shutdown(v) \/ PublishTo(v) \/ BeginClose(v)
                 \/ CallNotify(v)
        PROVE  frame' = frame
    BY <2>5 DEF BeginCloseAll, Shutdown, PublishTo, BeginClose, CallNotify
  <2>6. ASSUME RefuseSubscriber \/ PumpWait \/ PumpSignalled \/ BeginTick
                 \/ EndTick \/ PumpNotify
        PROVE  frame' = frame
    BY <2>6 DEF RefuseSubscriber, PumpWait, PumpSignalled, BeginTick, EndTick,
                PumpNotify, caller
  <2>7. ASSUME NEW s \in Subs, DropDead(s) \/ NoHeartbeat(s) \/ Heartbeat(s)
        PROVE  frame' = frame
    BY <2>7 DEF DropDead, NoHeartbeat, Heartbeat, caller
  <2>8. ASSUME NEW s \in Subs, Handling(s) PROVE frame' = frame
    BY <2>8, HandlingAlone
  <2> QED
    BY <2>2, <2>3, <2>4, <2>5, <2>6, <2>7, <2>8, Stepping
<1> SUFFICES ASSUME NEW u \in Subs
             PROVE  CountedBy(u)'
  BY <1>1 DEF Counted, CountedBy, BudgetExact
<1>d. CountedBy(u) /\ \A k \in 1..Len(queue[u]) : queue[u][k] \in Frames
  BY <1>0, <1>a, ElementOfSeq DEF Counted, CountedBy, BudgetExact
<1>e. <<>> \in Seq(Frames) /\ Len(<<>>) = 0 /\ Bytes(<<>>) = 0
  BY BytesEmpty
<1>f. /\ Len(<<Small>>) = 1 /\ <<Small>>[1].id = 0
      /\ Bytes(<<Small>>) = SmallFrame
  <2>1. Small \in Frames /\ Small.size = SmallFrame /\ Small.id = 0
    BY <1>a DEF Small, Frames
  <2> QED
    BY <2>1, BytesOne
<1>2. ASSUME /\ queue'[u] = queue[u] /\ queued_bytes'[u] = queued_bytes[u]
             /\ overflows'[u] = overflows[u] /\ (closed[u] => closed'[u])
             /\ (phase'[u] = "none" => phase[u] = "none")
      PROVE  CountedBy(u)'
  <2>1. \A k \in 1..Len(queue[u]) : queue[u][k].id <= published'
    <3> SUFFICES ASSUME NEW k \in 1..Len(queue[u])
                 PROVE  queue[u][k].id <= published'
      OBVIOUS
    <3>1. queue[u][k].id <= published /\ queue[u][k].id \in Nat
      BY <1>d DEF CountedBy, Frames
    <3> QED
      BY <1>a, <1>b, <3>1
  <2> QED
    BY <1>d, <1>2, <2>1 DEF CountedBy
<1>3. ASSUME /\ queue'[u] = <<>> /\ queued_bytes'[u] = 0
             /\ overflows'[u] = 0 \/ closed'[u]
             /\ phase'[u] # "none"
      PROVE  CountedBy(u)'
  BY <1>a, <1>e, <1>3 DEF CountedBy
<1>4. ASSUME /\ queue'[u] = <<Small>> /\ queued_bytes'[u] = SmallFrame
             /\ SmallFrame <= MaxQueued
             /\ ~closed'[u] => overflows'[u] < MaxOverflows
             /\ phase'[u] # "none"
      PROVE  CountedBy(u)'
  <2>1. \A k \in 1..Len(queue'[u]) : queue'[u][k].id <= published'
    BY <1>b, <1>f, <1>4
  <2> QED
    BY <1>a, <1>f, <1>4, <2>1 DEF CountedBy
<1>g. (closed[u] => closed'[u])
      /\ ((\A s \in Subs : ~Subscribe(s)) => (phase'[u] = "none" => phase[u] = "none"))
  BY OneWay
<1>5. ASSUME UNCHANGED <<queue, queued_bytes, overflows>>
      PROVE  CountedBy(u)'
  <2>1. phase'[u] = "none" => phase[u] = "none"
    BY <1>c
  <2> QED
    BY <1>2, <1>5, <1>g, <2>1
<1>6. ASSUME NEW s \in Subs, Subscribe(s) PROVE CountedBy(u)'
  <2>1. CASE u # s
    BY <1>2, <1>a, <1>6, <2>1 DEF Subscribe
  <2>2. CASE u = s
    <3>1. CASE RetryHint /\ SmallFrame <= MaxQueued
      <4>1. /\ queue'[u] = <<Small>> /\ queued_bytes'[u] = SmallFrame
            /\ overflows' = overflows /\ phase'[u] = "created" /\ phase[u] = "none"
        BY <1>a, <1>6, <2>2, <3>1 DEF Subscribe
      <4>2. overflows'[u] < MaxOverflows
        BY <1>a, <1>d, <4>1 DEF CountedBy
      <4> QED
        BY <1>4, <3>1, <4>1, <4>2
    <3>2. CASE ~(RetryHint /\ SmallFrame <= MaxQueued)
      BY <1>5, <1>6, <3>2 DEF Subscribe
    <3> QED
      BY <3>1, <3>2
  <2> QED
    BY <2>1, <2>2
<1>7. ASSUME NEW s \in Subs, OnDetached(s) PROVE CountedBy(u)'
  BY <1>2, <1>3, <1>a, <1>g, <1>7 DEF OnDetached
<1>8. ASSUME NEW s \in Subs, PullWrote(s) PROVE CountedBy(u)'
  <2>1. PICK ph \in {"driving", "blocked"} : phase' = [phase EXCEPT ![s] = ph]
    BY <1>8 DEF PullWrote
  <2>2. /\ queue' = [queue EXCEPT ![s] = <<>>]
        /\ queued_bytes' = [queued_bytes EXCEPT ![s] = 0]
        /\ overflows' = [overflows EXCEPT ![s] = 0]
    BY <1>8 DEF PullWrote
  <2>3. CASE u = s
    BY <1>3, <1>a, <2>1, <2>2, <2>3
  <2>4. CASE u # s
    BY <1>2, <1>a, <1>g, <2>1, <2>2, <2>4
  <2> QED
    BY <2>3, <2>4
<1>9. ASSUME NEW s \in Subs, AddToPump(s) \/ NotifyPump(s) \/ OnAttached(s) \/ PullIdle(s)
                 \/ Woken(s) \/ Writable(s)
      PROVE  CountedBy(u)'
  BY <1>5, <1>9 DEF AddToPump, NotifyPump, OnAttached, PullIdle, Woken, Writable,
                    subscriber
<1>10. ASSUME NEW t \in Callers, PublishTo(t) PROVE CountedBy(u)'
  <2> DEFINE s == Head(todo[t])
             f == frame[t]
  <2>1. todo[t] \in Seq(Subs) /\ todo[t] # <<>> /\ f \in Frames /\ cpc[t] # "idle"
    BY <1>0, <1>10 DEF TypeOK, PublishTo
  <2>2. s \in Subs /\ Head(todo[t]) = todo[t][1] /\ 1 \in 1..Len(todo[t])
    BY <2>1, HeadTailProperties, LenProperties, EmptySeq
  <2>3. phase[s] # "none"
    BY <1>0, <2>1, <2>2 DEF Walked
  <2>4. Enqueue(s, f) /\ UNCHANGED <<phase, published>>
    BY <1>10 DEF PublishTo, channel
  <2>5. f.id <= published
    BY <1>0 DEF Counted
  <2> HIDE DEF s, f
  <2>6. PICK q, b, c, o : EnqueueMakes(s, f, q, b, c, o)
    BY <1>0, <2>1, <2>2, <2>4, Enqueuing
  <2>7. CASE u # s
    BY <1>2, <1>a, <1>g, <2>2, <2>4, <2>6, <2>7 DEF EnqueueMakes, Sets
  <2>8. CASE u = s
    <3>1. /\ queue'[u] = q /\ queued_bytes'[u] = b /\ closed'[u] = c
          /\ overflows'[u] = o
      BY <1>a, <2>2, <2>6, <2>8 DEF EnqueueMakes, Sets
    <3>2. /\ b = Bytes(q) /\ b <= MaxQueued /\ (~c => o < MaxOverflows)
          /\ q \in Seq(Frames)
      BY <1>a, <2>6 DEF EnqueueMakes, Exact
    <3>3. \A k \in 1..Len(q) : q[k].id <= published
      <4>1. CASE closed[s]
        BY <1>d, <2>6, <2>8, <4>1 DEF EnqueueMakes, CountedBy
      <4>2. CASE ~closed[s] /\ c
        BY <1>e, <2>6, <4>2 DEF EnqueueMakes
      <4>3. CASE ~c
        <5>1. PICK k : Pushes(queue[s], q, k, f)
          BY <2>6, <4>3 DEF EnqueueMakes
        <5>2. Len(queue[s]) \in Nat /\ k \in 0..Len(queue[s])
          BY <1>a, <2>2, <5>1, LenProperties DEF Pushes
        <5> SUFFICES ASSUME NEW i \in 1..Len(q)
                     PROVE  q[i].id <= published
          OBVIOUS
        <5>3. CASE i = Len(q)
          BY <2>5, <5>1, <5>3 DEF Pushes
        <5>4. CASE i # Len(q)
          <6>1. i \in 1..(Len(queue[s]) - k) /\ k + i \in 1..Len(queue[s])
            <7> DEFINE n == Len(queue[s])
                       m == Len(q)
            <7>1. m = n - k + 1 /\ n \in Nat /\ k \in 0..n /\ i \in 1..m /\ i # m
              BY <5>1, <5>2, <5>4 DEF Pushes
            <7> HIDE DEF n, m
            <7>2. i \in 1..(n - k) /\ k + i \in 1..n
              BY <7>1
            <7> QED
              BY <7>2 DEF n
          <6>2. q[i] = queue[s][k + i]
            BY <5>1, <6>1 DEF Pushes
          <6> QED
            BY <1>d, <2>8, <6>1, <6>2 DEF CountedBy
        <5> QED
          BY <5>3, <5>4
      <4> QED
        BY <4>1, <4>2, <4>3
    <3> QED
      BY <2>3, <2>4, <2>8, <3>1, <3>2, <3>3 DEF CountedBy
  <2> QED
    BY <2>7, <2>8
<1>11. ASSUME NEW s \in Subs, Heartbeat(s) PROVE CountedBy(u)'
  <2>1. PICK q, b, c :
          /\ Sets(s, q, b, c, overflows[s]) /\ Exact(q, b, c, overflows[s])
          /\ q = IF c THEN <<>> ELSE <<Small>>
    BY <1>0, <1>11, Beating
  <2>2. phase' = phase /\ phase[s] # "none"
    BY <1>11 DEF Heartbeat, Alive
  <2>3. CASE u # s
    BY <1>2, <1>a, <1>g, <2>1, <2>2, <2>3 DEF Sets
  <2>4. CASE u = s
    <3>1. /\ queue'[u] = q /\ queued_bytes'[u] = b /\ closed'[u] = c
          /\ overflows'[u] = overflows[s] /\ b = Bytes(q) /\ b \in 0..MaxQueued
          /\ (~c => overflows[s] < MaxOverflows) /\ c \in BOOLEAN
      BY <1>a, <2>1, <2>4 DEF Sets, Exact
    <3>2. CASE c
      BY <1>3, <1>e, <2>1, <2>2, <2>4, <3>1, <3>2
    <3>3. CASE ~c
      BY <1>4, <1>a, <1>f, <2>1, <2>2, <2>4, <3>1, <3>3
    <3> QED
      BY <3>1, <3>2, <3>3
  <2> QED
    BY <2>3, <2>4
<1>12. ASSUME NEW t \in Callers, NEW z \in Sizes, BeginPublish(t, z)
       PROVE  CountedBy(u)'
  BY <1>5, <1>12 DEF BeginPublish, subscriber
<1>13. ASSUME NEW t \in Callers,
              BeginCloseAll(t) \/ Shutdown(t) \/ BeginClose(t) \/ CallNotify(t) \/ End(t)
       PROVE  CountedBy(u)'
  BY <1>5, <1>13 DEF BeginCloseAll, Shutdown, BeginClose, CallNotify, End, subscriber
<1>14. ASSUME RefuseSubscriber \/ PumpWait \/ PumpSignalled \/ BeginTick
                \/ EndTick \/ PumpNotify
       PROVE  CountedBy(u)'
  BY <1>5, <1>14 DEF RefuseSubscriber, PumpWait, PumpSignalled, BeginTick, EndTick,
                     PumpNotify, subscriber
<1>15. ASSUME NEW s \in Subs, DropDead(s) \/ NoHeartbeat(s) PROVE CountedBy(u)'
  BY <1>5, <1>15 DEF DropDead, NoHeartbeat, subscriber
<1> QED
  BY <1>6, <1>7, <1>8, <1>9, <1>10, <1>11, <1>12, <1>13, <1>14, <1>15, Stepping
     DEF Handling

-----------------------------------------------------------------------------
(* The order of what is queued *)

(* A queue of somebody who has been offered the events up to n, was sent   *)
(* them up to l, and has overflown o times since.                          *)
Neat(q, n, l, o) ==
  /\ \A k \in 1..Len(q) : (k = 1 /\ q[k].id = 0) \/ q[k].id = n - Len(q) + k
  /\ n - Held(q) >= l
  /\ o = 0 => n - Held(q) = l
  /\ o > 0 => Held(q) > 0

(* An empty queue is in order. *)
LEMMA NeatEmpty ==
  ASSUME NEW n \in Int
  PROVE  Neat(<<>>, n, n, 0)
BY DEF Neat, Held, Hinted

(* A queue that holds nothing but a heartbeat is in order. *)
LEMMA NeatSmall ==
  ASSUME NEW n \in Int
  PROVE  Neat(<<Small>>, n, n, 0)
<1>1. Len(<<Small>>) = 1 /\ <<Small>>[1] = Small /\ Small.id = 0 /\ <<Small>> # <<>>
  BY DEF Small
<1>2. Held(<<Small>>) = 0
  BY <1>1 DEF Held, Hinted
<1> QED
  BY <1>1, <1>2 DEF Neat

(* Only the front of a queue can be a hint or a heartbeat. *)
LEMMA Hints ==
  ASSUME NEW w \in Seq(Frames), NEW n \in Int, NEW l \in Nat, NEW o,
         Neat(w, n, l, o)
  PROVE  /\ Held(w) \in Nat /\ Held(w) <= Len(w) /\ Len(w) - 1 <= Held(w)
         /\ \A k \in 1..Len(w) : w[k].id = 0 <=> (k = 1 /\ Hinted(w))
         /\ \A k \in 2..Len(w) : w[k].id = n - Len(w) + k
<1> DEFINE N == Len(w)
           H == Held(w)
<1>1. N \in Nat /\ (w # <<>> <=> N > 0)
  BY LenProperties, EmptySeq
<1>2. H \in Nat /\ H <= N /\ N - 1 <= H /\ (~Hinted(w) => H = N)
  BY <1>1 DEF Held, Hinted
<1>3. /\ \A k \in 1..N : (k = 1 /\ w[k].id = 0) \/ w[k].id = n - N + k
      /\ n - H >= l
  BY DEF Neat
<1> HIDE DEF N, H
<1>4. \A k \in 2..N : k \in 1..N /\ w[k].id = n - N + k /\ n - N + k > 0
  BY <1>1, <1>2, <1>3
<1>5. ASSUME NEW k \in 1..N
      PROVE  w[k].id = 0 <=> (k = 1 /\ Hinted(w))
  <2>1. CASE k = 1
    <3>1. w # <<>>
      BY <1>1, <1>5, <2>1
    <3> QED
      BY <2>1, <3>1 DEF Hinted
  <2>2. CASE k # 1
    <3>1. k \in 2..N
      BY <1>1, <2>2
    <3>2. w[k].id = n - N + k /\ n - N + k > 0
      BY <1>4, <3>1
    <3>3. n - N + k # 0
      BY <1>1, <3>1, <3>2
    <3> QED
      BY <2>2, <3>2, <3>3
  <2> QED
    BY <2>1, <2>2
<1>6. \A k \in 2..N : w[k].id = n - N + k
  BY <1>4
<1> QED
  BY <1>2, <1>5, <1>6 DEF N, H

(* The events of a queue are the newest ones.                              *)
LEMMA EventsOf ==
  ASSUME NEW w \in Seq(Frames), NEW n \in Int, NEW l \in Nat, NEW o,
         Neat(w, n, l, o)
  PROVE  LET e == Kept(w, Events)
         IN /\ Len(e) = Held(w)
            /\ \A k \in 1..Len(e) : e[k].id = n - Len(e) + k
<1> DEFINE N == Len(w)
           H == Held(w)
           d == IF Hinted(w) THEN 1 ELSE 0
           e == Kept(w, Events)
<1>1. N \in Nat /\ (w # <<>> <=> N > 0) /\ \A k \in 1..N : w[k] \in Frames
  BY LenProperties, EmptySeq, ElementOfSeq
<1>2. /\ \A k \in 1..N : w[k].id = 0 <=> (k = 1 /\ Hinted(w))
      /\ \A k \in 2..N : w[k].id = n - N + k
  BY Hints
<1>3. d \in 0..1 /\ d <= N /\ H = N - d /\ (Hinted(w) <=> d = 1)
  BY <1>1 DEF Hinted, Held
<1> HIDE DEF d
<1>4. \A k \in 1..N : w[k] \in Events <=> k > d
  <2> SUFFICES ASSUME NEW k \in 1..N
               PROVE  w[k] \in Events <=> k > d
    OBVIOUS
  <2>1. w[k] \in Events <=> w[k].id # 0
    BY <1>1 DEF Events, Frames
  <2>2. w[k].id = 0 <=> (k = 1 /\ d = 1)
    BY <1>2, <1>3
  <2>3. (k = 1 /\ d = 1) <=> ~(k > d)
    BY <1>1, <1>3
  <2> QED
    BY <2>1, <2>2, <2>3
<1>5. Len(e) = N - d /\ \A i \in 1..(N - d) : e[i] = w[i + d]
  BY <1>3, <1>4, KeptShift
<1> HIDE DEF e
<1>6. \A k \in 1..N : k > d => w[k].id = n - N + k
  <2>1. \A k \in 1..N : (k = 1 /\ w[k].id = 0) \/ w[k].id = n - N + k
    BY DEF Neat
  <2> QED
    BY <1>1, <1>2, <1>3, <2>1
<1>7. ASSUME NEW k \in 1..(N - d)
      PROVE  e[k].id = n - (N - d) + k
  <2>1. k + d \in 1..N /\ k + d > d
    BY <1>1, <1>3
  <2>2. w[k + d].id = n - N + (k + d)
    BY <1>6, <2>1
  <2>3. n - N + (k + d) = n - (N - d) + k
    BY <1>1, <1>3
  <2> QED
    BY <1>5, <2>2, <2>3
<1>8. Len(e) = H /\ \A k \in 1..Len(e) : e[k].id = n - Len(e) + k
  BY <1>3, <1>5, <1>7
<1> QED
  BY <1>8 DEF e, H

(* The next event behind a queue that may lose its front. *)
LEMMA NeatPush ==
  ASSUME NEW w \in Seq(Frames), NEW n \in Int, NEW l \in Nat, NEW o \in Nat,
         Neat(w, n, l, o), n >= 0,
         NEW q \in Seq(Frames), NEW f \in Frames, f.id = n + 1,
         NEW k, Pushes(w, q, k, f),
         NEW p, p = IF k = 0 THEN o ELSE o + 1
  PROVE  /\ Neat(q, n + 1, l, p)
         /\ Held(q) \in 1..(Held(w) + 1) /\ (k = 0 => Held(q) = Held(w) + 1)
<1> DEFINE N == Len(w)
           M == Len(q)
           H == Held(w)
           G == Held(q)
<1>1. /\ N \in Nat /\ M = N - k + 1 /\ M \in Nat /\ k \in 0..N
      /\ \A i \in 1..(N - k) : q[i] = w[k + i]
      /\ q[M] = f
  BY LenProperties DEF Pushes
<1>2. q # <<>> /\ (w # <<>> <=> N > 0)
  BY <1>1, EmptySeq, LenProperties
<1>3. /\ H \in Nat /\ H <= N /\ N - 1 <= H /\ n - H >= l
      /\ \A j \in 1..N : w[j].id = 0 <=> (j = 1 /\ Hinted(w))
      /\ \A j \in 2..N : w[j].id = n - N + j
      /\ \A j \in 1..N : (j = 1 /\ w[j].id = 0) \/ w[j].id = n - N + j
      /\ (o = 0 => n - H = l) /\ (o > 0 => H > 0)
  BY Hints DEF Neat
<1>4. G = IF q[1].id = 0 THEN M - 1 ELSE M
  BY <1>2 DEF Held, Hinted
<1>5. H = IF Hinted(w) THEN N - 1 ELSE N
  BY DEF Held
<1> HIDE DEF N, M, H, G
<1>6. ASSUME \A i \in 1..(M - 1) : (i = 1 /\ q[i].id = 0) \/ q[i].id = (n + 1) - M + i
      PROVE  \A i \in 1..M : (i = 1 /\ q[i].id = 0) \/ q[i].id = (n + 1) - M + i
  <2> SUFFICES ASSUME NEW i \in 1..M
               PROVE  (i = 1 /\ q[i].id = 0) \/ q[i].id = (n + 1) - M + i
    OBVIOUS
  <2>1. CASE i = M
    <3>1. q[i].id = n + 1
      BY <1>1, <2>1
    <3>2. (n + 1) - M + i = n + 1
      BY <1>1, <2>1
    <3> QED
      BY <3>1, <3>2
  <2>2. CASE i # M
    <3>1. i \in 1..(M - 1)
      BY <1>1, <2>2
    <3> QED
      BY <1>6, <3>1
  <2> QED
    BY <2>1, <2>2
<1>7. CASE k = 0
  <2>1. M = N + 1 /\ M - 1 = N /\ p = o
    BY <1>1, <1>7
  <2>2. \A i \in 1..N : q[i] = w[i]
    BY <1>1, <1>7
  <2>3. \A i \in 1..M : (i = 1 /\ q[i].id = 0) \/ q[i].id = (n + 1) - M + i
    <3>1. \A i \in 1..N : (n + 1) - M + i = n - N + i
      BY <1>1, <2>1
    <3>2. \A i \in 1..(M - 1) : (i = 1 /\ q[i].id = 0) \/ q[i].id = (n + 1) - M + i
      BY <1>3, <2>1, <2>2, <3>1
    <3> QED
      BY <1>6, <3>2
  <2>4. G = H + 1
    <3>1. CASE N = 0
      <4>1. q[1].id = n + 1 /\ ~Hinted(w) /\ M = 1
        BY <1>1, <1>2, <2>1, <3>1 DEF Hinted
      <4>2. n + 1 # 0
        OBVIOUS
      <4> QED
        BY <1>4, <1>5, <3>1, <4>1, <4>2
    <3>2. CASE N > 0
      <4>1. q[1] = w[1] /\ (w[1].id = 0 <=> Hinted(w))
        BY <1>1, <1>3, <2>2, <3>2
      <4> QED
        BY <1>1, <1>4, <1>5, <2>1, <4>1
    <3> QED
      BY <1>1, <3>1, <3>2
  <2>5. (n + 1) - G = n - H /\ G > 0 /\ (n + 1) - G >= l
    BY <1>3, <2>4
  <2>6. G \in 1..(H + 1)
    BY <1>3, <2>4
  <2> QED
    BY <1>3, <2>1, <2>3, <2>4, <2>5, <2>6 DEF Neat, M, G, H
<1>8. CASE k # 0
  <2>1. p > 0 /\ p # 0
    BY <1>8
  <2>2. \A i \in 1..(M - 1) : q[i].id = (n + 1) - M + i
    <3> SUFFICES ASSUME NEW i \in 1..(M - 1)
                 PROVE  q[i].id = (n + 1) - M + i
      OBVIOUS
    <3>1. i \in 1..(N - k) /\ k + i \in 2..N
      BY <1>1, <1>8
    <3>2. q[i] = w[k + i] /\ w[k + i].id = n - N + (k + i)
      BY <1>1, <1>3, <3>1
    <3>3. n - N + (k + i) = (n + 1) - M + i
      <4>1. M = N - k + 1 /\ N \in Int /\ k \in Int /\ i \in Int
        BY <1>1
      <4> QED
        BY <4>1
    <3> QED
      BY <3>2, <3>3
  <2>3. \A i \in 1..M : (i = 1 /\ q[i].id = 0) \/ q[i].id = (n + 1) - M + i
    BY <1>6, <2>2
  <2>4. q[1].id # 0
    <3>1. CASE M = 1
      <4>1. q[1].id = n + 1 /\ n + 1 # 0
        BY <1>1, <3>1
      <4> QED
        BY <4>1
    <3>2. CASE M # 1
      <4>1. 1 \in 1..(M - 1)
        BY <1>1, <3>2
      <4>2. q[1].id = (n + 1) - M + 1
        BY <2>2, <4>1
      <4>3. (n + 1) - M + 1 > 0
        BY <1>1, <1>3, <1>8
      <4>4. (n + 1) - M + 1 # 0
        BY <1>1, <4>3
      <4> QED
        BY <4>2, <4>4
    <3> QED
      BY <3>1, <3>2
  <2>5. G = M /\ G > 0 /\ (n + 1) - G >= l
    <3>1. G = M /\ M > 0
      BY <1>1, <1>4, <2>4
    <3>2. (n + 1) - M >= l
      BY <1>1, <1>3, <1>8
    <3> QED
      BY <3>1, <3>2
  <2>6. G \in 1..(H + 1)
    BY <1>1, <1>3, <1>8, <2>5
  <2> QED
    BY <1>8, <2>1, <2>3, <2>5, <2>6 DEF Neat, M, G, H
<1> QED
  BY <1>7, <1>8

(* After a pull the subscriber is up to date. *)
LEMMA NeatPull ==
  ASSUME NEW w \in Seq(Frames), NEW n \in Int, NEW l \in Nat, NEW o \in Nat,
         Neat(w, n, l, o)
  PROVE  LET e == Kept(w, Events)
         IN (IF e = <<>> THEN l ELSE e[Len(e)].id) = n
<1> DEFINE e == Kept(w, Events)
<1>1. /\ Len(e) = Held(w) /\ Held(w) \in Nat
      /\ \A k \in 1..Len(e) : e[k].id = n - Len(e) + k
  BY EventsOf, Hints
<1>2. e \in Seq(Frames)
  BY Keeping
<1> HIDE DEF e
<1>3. CASE e = <<>>
  <2>1. Held(w) = 0
    BY <1>1, <1>3
  <2>2. o = 0
    BY <2>1 DEF Neat
  <2>3. n - Held(w) = l
    BY <2>2 DEF Neat
  <2> QED
    BY <1>3, <2>1, <2>3 DEF e
<1>4. CASE e # <<>>
  <2>1. Len(e) \in 1..Len(e)
    BY <1>1, <1>2, <1>4, EmptySeq
  <2>2. e[Len(e)].id = n - Len(e) + Len(e) /\ Len(e) \in Nat
    BY <1>1, <2>1
  <2>3. e[Len(e)].id = n
    BY <2>2
  <2> QED
    BY <1>4, <2>3 DEF e
<1> QED
  BY <1>3, <1>4

(* Every step keeps Ordered: what is queued are the newest events, in *)
(* order and without a gap.                                           *)
LEMMA OrderedKept ==
  ASSUME Inv, Next
  PROVE  Ordered'
<1> USE SseAssumption
<1>0. TypeOK /\ Locked /\ Listed /\ Walked /\ Counted /\ Ordered
  BY DEF Inv
<1> SUFFICES ASSUME NEW u \in Subs, Alive(u)'
             PROVE  Neat(queue'[u], Offered(u)', last'[u], overflows'[u])
  BY DEF Ordered, Neat, Held, Hinted
<1>a. Alive(u) => Neat(queue[u], Offered(u), last[u], overflows[u])
  BY <1>0 DEF Ordered, Neat
<1>b. /\ queue \in [Subs -> Seq(Frames)] /\ closed \in [Subs -> BOOLEAN]
      /\ overflows \in [Subs -> 0..MaxOverflows]
      /\ phase \in [Subs -> Phases] /\ last \in [Subs -> 0..MaxEvents]
  BY <1>0 DEF TypeOK
<1>c. /\ cpc \in [Callers -> {"idle", "each", "notify"}]
      /\ op \in [Callers -> {"publish", "close"}]
      /\ todo \in [Callers -> Seq(Subs)] /\ frame \in [Callers -> Frames]
      /\ published \in Nat
  <2>1. MaxEvents \in Nat
    OBVIOUS
  <2> QED
    BY <1>0, <2>1, SMTT(30) DEF TypeOK
<1>d. /\ lock = Nobody => \A t \in Callers : cpc[t] = "idle"
      /\ \A t, v \in Callers : cpc[t] # "idle" /\ v # t => cpc[v] = "idle"
  BY <1>0, Alone
<1>e. /\ queue[u] \in Seq(Frames) /\ last[u] \in Nat /\ overflows[u] \in Nat
      /\ Offered(u) \in Int
  BY <1>b, <1>c DEF Offered
<1>f. (\A t \in Callers : cpc[t] = "idle") => Offered(u) = published
  BY DEF Offered
<1>g. (\A t \in Callers : cpc'[t] = "idle") => Offered(u)' = published'
  BY DEF Offered
<1>h. (\A s \in Subs : ~Subscribe(s)) => Alive(u)
  BY OneWay DEF Alive
<1>1. ASSUME Alive(u), Offered(u)' = Offered(u), queue'[u] = queue[u],
             last'[u] = last[u], overflows'[u] = overflows[u]
      PROVE  Neat(queue'[u], Offered(u)', last'[u], overflows'[u])
  BY <1>a, <1>1
<1>2. ASSUME UNCHANGED <<cpc, op, todo, published>>
      PROVE  Offered(u)' = Offered(u)
  BY <1>2 DEF Offered
<1>3. ASSUME NEW s \in Subs, Subscribe(s)
      PROVE  Neat(queue'[u], Offered(u)', last'[u], overflows'[u])
  <2>1. /\ \A t \in Callers : cpc[t] = "idle"
        /\ UNCHANGED <<cpc, op, todo, published>>
    BY <1>d, <1>3 DEF Subscribe, caller
  <2>2. Offered(u)' = Offered(u) /\ Offered(u) = published
    BY <1>2, <1>f, <2>1
  <2>3. CASE u = s
    <3>1. /\ last'[u] = published /\ overflows'[u] = overflows[u]
          /\ phase[u] = "none"
      BY <1>b, <1>3, <2>3 DEF Subscribe
    <3>2. queue[u] = <<>> /\ overflows[u] = 0
      BY <1>0, <3>1 DEF Counted
    <3>3. queue'[u] = <<>> \/ queue'[u] = <<Small>>
      BY <1>b, <1>3, <2>3, <3>2 DEF Subscribe
    <3>4. Neat(<<>>, published, published, 0) /\ Neat(<<Small>>, published, published, 0)
      BY <1>c, NeatEmpty, NeatSmall
    <3> QED
      BY <2>2, <3>1, <3>2, <3>3, <3>4
  <2>4. CASE u # s
    <3>1. /\ last'[u] = last[u] /\ overflows'[u] = overflows[u]
          /\ queue'[u] = queue[u] /\ Alive(u)
      BY <1>b, <1>3, <2>4 DEF Subscribe, Alive
    <3> QED
      BY <1>1, <2>2, <3>1
  <2> QED
    BY <2>3, <2>4
<1>4. ASSUME NEW s \in Subs, Handling(s), \A v \in Subs : ~Subscribe(v)
      PROVE  Neat(queue'[u], Offered(u)', last'[u], overflows'[u])
  <2>1. Offered(u)' = Offered(u) /\ Alive(u)
    <3>1. UNCHANGED <<cpc, op, todo, published>>
      BY <1>4, HandlingAlone
    <3> QED
      BY <1>2, <1>4, <1>h, <3>1
  <2>2. CASE AddToPump(s) \/ NotifyPump(s) \/ OnAttached(s) \/ PullIdle(s)
               \/ Woken(s) \/ Writable(s)
    BY <1>1, <2>1, <2>2
       DEF AddToPump, NotifyPump, OnAttached, PullIdle, Woken, Writable, subscriber
  <2>3. CASE OnDetached(s)
    <3>1. u # s
      BY <1>b, <2>3 DEF OnDetached, Alive
    <3>2. queue'[u] = queue[u] /\ last'[u] = last[u] /\ overflows'[u] = overflows[u]
      BY <1>b, <2>3, <3>1 DEF OnDetached
    <3> QED
      BY <1>1, <2>1, <3>2
  <2>4. CASE PullWrote(s)
    <3> DEFINE e == Kept(queue[s], Events)
               l == IF e = <<>> THEN last[s] ELSE e[Len(e)].id
    <3>1. /\ queue' = [queue EXCEPT ![s] = <<>>]
          /\ overflows' = [overflows EXCEPT ![s] = 0]
          /\ last' = [last EXCEPT ![s] = l]
      BY <1>b, <2>4 DEF PullWrote
    <3>2. CASE u # s
      <4> HIDE DEF l
      <4>1. queue'[u] = queue[u] /\ last'[u] = last[u] /\ overflows'[u] = overflows[u]
        BY <1>b, <3>1, <3>2
      <4> QED
        BY <1>1, <2>1, <4>1
    <3>3. CASE u = s
      <4>1. l = Offered(u)
        BY <1>a, <1>e, <2>1, <3>3, NeatPull
      <4> HIDE DEF l
      <4>2. queue'[u] = <<>> /\ last'[u] = Offered(u) /\ overflows'[u] = 0
        BY <1>b, <3>1, <3>3, <4>1
      <4>3. Neat(<<>>, Offered(u), Offered(u), 0)
        BY <1>e, NeatEmpty
      <4> QED
        BY <2>1, <4>2, <4>3
    <3> QED
      BY <3>2, <3>3
  <2> QED
    BY <1>4, <2>2, <2>3, <2>4 DEF Handling
<1>5. ASSUME NEW t \in Callers, NEW z \in Sizes, BeginPublish(t, z), Alive(u)
      PROVE  Neat(queue'[u], Offered(u)', last'[u], overflows'[u])
  <2>1. /\ \A v \in Callers : cpc[v] = "idle" /\ (v # t => cpc'[v] = "idle")
        /\ cpc'[t] = "each" /\ op'[t] = "publish" /\ todo'[t] = Pruned
        /\ published' = published + 1 /\ UNCHANGED <<queue, last, overflows>>
    BY <1>c, <1>d, <1>5 DEF BeginPublish, Begin, subscriber
  <2>2. In(u, Pruned)
    <3>1. In(u, subscribers)
      BY <1>0, <1>5 DEF Listed
    <3> QED
      BY <1>0, <1>5, <3>1, Pruning
  <2> HIDE DEF Pruned
  <2>3. \E k \in 1..Len(todo'[t]) : todo'[t][k] = u
    BY <2>1, <2>2 DEF In
  <2>4. Offered(u)' = published' - 1
    BY <2>1, <2>3 DEF Offered
  <2>5. Offered(u)' = Offered(u)
    BY <1>c, <1>f, <2>1, <2>4
  <2> QED
    BY <1>1, <1>5, <2>1, <2>5
<1>6. ASSUME NEW t \in Callers, BeginCloseAll(t) \/ Shutdown(t), Alive(u)
      PROVE  Neat(queue'[u], Offered(u)', last'[u], overflows'[u])
  <2>1. /\ \A v \in Callers : cpc[v] = "idle" /\ (v # t => cpc'[v] = "idle")
        /\ op'[t] = "close"
        /\ UNCHANGED <<published, queue, last, overflows>>
    BY <1>c, <1>d, <1>6 DEF BeginCloseAll, Shutdown, Begin, subscriber
  <2>2. Offered(u)' = published'
    BY <2>1 DEF Offered
  <2> QED
    BY <1>1, <1>6, <1>f, <2>1, <2>2
<1>7. ASSUME NEW t \in Callers, PublishTo(t), Alive(u)
      PROVE  Neat(queue'[u], Offered(u)', last'[u], overflows'[u])
  <2> DEFINE s == Head(todo[t])
             f == frame[t]
             p == Tail(todo[t])
  <2>1. /\ todo[t] \in Seq(Subs) /\ todo[t] # <<>> /\ f \in Frames
        /\ cpc[t] = "each" /\ op[t] = "publish"
    BY <1>c, <1>7 DEF PublishTo
  <2>2. s \in Subs
    BY <2>1, HeadTailProperties
  <2>3. Distinct(todo[t]) /\ f.id = published
    BY <1>0, <2>1 DEF Walked
  <2>4. /\ In(u, p) <=> In(u, todo[t]) /\ u # s
        /\ In(s, todo[t])
    BY <2>1, <2>3, Tailing
  <2>5. Enqueue(s, f) /\ UNCHANGED <<op, published, last>>
    BY <1>7 DEF PublishTo, channel
  <2>6. /\ todo'[t] = p
        /\ \A v \in Callers : v # t => cpc'[v] = "idle"
        /\ cpc'[t] # "idle"
    BY <1>c, <1>d, <1>7, <2>1 DEF PublishTo, Then
  <2> HIDE DEF s, f, p
  <2>7. Offered(u) = IF In(u, todo[t]) THEN published - 1 ELSE published
    BY <1>d, <2>1 DEF Offered, In
  <2>8. Offered(u)' = IF In(u, p) THEN published - 1 ELSE published
    BY <2>1, <2>5, <2>6 DEF Offered, In
  <2>9. PICK q, b, c, o : EnqueueMakes(s, f, q, b, c, o)
    BY <1>0, <2>1, <2>2, <2>5, Enqueuing
  <2>10. CASE u # s
    <3>1. queue'[u] = queue[u] /\ overflows'[u] = overflows[u]
      BY <1>b, <2>2, <2>9, <2>10 DEF EnqueueMakes, Sets
    <3>2. Offered(u)' = Offered(u)
      BY <2>4, <2>7, <2>8, <2>10
    <3> QED
      BY <1>1, <1>7, <2>5, <3>1, <3>2
  <2>11. CASE u = s
    <3> DEFINE n == Offered(u)
               w == queue[u]
    <3>1. n = published - 1 /\ Offered(u)' = published /\ n + 1 = published
      BY <1>c, <2>4, <2>7, <2>8, <2>11
    <3>2. /\ queue'[u] = q /\ overflows'[u] = o /\ closed'[u] = c
      BY <1>b, <2>2, <2>9, <2>11 DEF EnqueueMakes, Sets
    <3>3. ~c
      BY <3>2 DEF Alive
    <3>4. PICK k : Pushes(queue[s], q, k, f) /\ o = IF k = 0 THEN overflows[s] ELSE overflows[s] + 1
      BY <2>9, <3>3 DEF EnqueueMakes
    <3>5. /\ Pushes(w, q, k, f)
          /\ o = IF k = 0 THEN overflows[u] ELSE overflows[u] + 1
      BY <2>11, <3>4
    <3>6. q \in Seq(Frames)
      BY <2>9 DEF EnqueueMakes, Exact
    <3>7. /\ w \in Seq(Frames) /\ n \in Int /\ last[u] \in Nat /\ overflows[u] \in Nat
          /\ Neat(w, n, last[u], overflows[u])
      BY <1>a, <1>e, <1>7
    <3> DEFINE l == last[u]
               x == overflows[u]
    <3> HIDE DEF n, w, l, x
    <3>8. Held(w) \in Nat /\ n - Held(w) >= l /\ l \in Nat
      BY <3>7, Hints DEF Neat, l
    <3>9. n >= 0
      BY <3>7, <3>8
    <3>10. f.id = n + 1
      BY <2>3, <3>1
    <3>11. Neat(q, n + 1, l, o)
      <4>1. /\ w \in Seq(Frames) /\ n \in Int /\ l \in Nat /\ x \in Nat
            /\ Neat(w, n, l, x) /\ o = IF k = 0 THEN x ELSE x + 1
            /\ f \in Frames /\ q \in Seq(Frames) /\ Pushes(w, q, k, f)
        BY <2>1, <3>5, <3>6, <3>7 DEF l, x
      <4>2. /\ Neat(q, n + 1, l, o)
            /\ Held(q) \in 1..(Held(w) + 1) /\ (k = 0 => Held(q) = Held(w) + 1)
        BY <3>9, <3>10, <4>1, NeatPush, SMTT(30)
      <4> QED
        BY <4>2
    <3> QED
      BY <2>5, <3>1, <3>2, <3>11 DEF l
  <2> QED
    BY <2>10, <2>11
<1>8. ASSUME NEW t \in Callers, BeginClose(t), Alive(u)
      PROVE  Neat(queue'[u], Offered(u)', last'[u], overflows'[u])
  <2>1. /\ op[t] = "close" /\ cpc[t] # "idle"
        /\ UNCHANGED <<op, published, queue, last, overflows>>
        /\ \A v \in Callers : v # t => cpc'[v] = cpc[v]
    BY <1>c, <1>8 DEF BeginClose, Then, channel
  <2>2. \A v \in Callers : cpc[v] # "idle" => v = t
    BY <1>d, <2>1
  <2>3. Offered(u) = published /\ Offered(u)' = published
    BY <2>1, <2>2 DEF Offered
  <2> QED
    BY <1>1, <1>8, <2>1, <2>3
<1>9. ASSUME NEW t \in Callers, CallNotify(t), Alive(u)
      PROVE  Neat(queue'[u], Offered(u)', last'[u], overflows'[u])
  <2>1. /\ UNCHANGED <<op, todo, published, queue, last, overflows>>
        /\ \A v \in Callers : cpc'[v] # "idle" <=> cpc[v] # "idle"
    BY <1>c, <1>9 DEF CallNotify, subscriber, channel
  <2>2. Offered(u)' = Offered(u)
    BY <2>1 DEF Offered
  <2> QED
    BY <1>1, <1>9, <2>1, <2>2
<1>10. ASSUME NEW t \in Callers, End(t), Alive(u)
       PROVE  Neat(queue'[u], Offered(u)', last'[u], overflows'[u])
  <2>1. /\ cpc[t] # "idle" /\ todo[t] = <<>>
        /\ UNCHANGED <<published, queue, last, overflows>>
    BY <1>10 DEF End, subscriber
  <2>2. \A v \in Callers : cpc'[v] = "idle" /\ (v # t => cpc[v] = "idle")
    BY <1>c, <1>d, <1>10 DEF End
  <2>3. Offered(u)' = published'
    BY <1>g, <2>2
  <2>4. Len(todo[t]) = 0 /\ 1..0 = {}
    BY <2>1
  <2>5. Offered(u) = published
    BY <2>2, <2>4 DEF Offered
  <2> QED
    BY <1>1, <1>10, <2>1, <2>3, <2>5
<1>11. ASSUME RefuseSubscriber \/ PumpWait \/ PumpSignalled \/ BeginTick
                \/ EndTick \/ PumpNotify,
              Alive(u)
       PROVE  Neat(queue'[u], Offered(u)', last'[u], overflows'[u])
  <2>1. UNCHANGED <<cpc, op, todo, published, queue, last, overflows>>
    BY <1>11 DEF RefuseSubscriber, PumpWait, PumpSignalled, BeginTick, EndTick,
                 PumpNotify, subscriber, channel, caller
  <2> QED
    BY <1>1, <1>2, <1>11, <2>1
<1>12. ASSUME NEW s \in Subs, DropDead(s) \/ NoHeartbeat(s), Alive(u)
       PROVE  Neat(queue'[u], Offered(u)', last'[u], overflows'[u])
  <2>1. UNCHANGED <<cpc, op, todo, published, queue, last, overflows>>
    BY <1>12 DEF DropDead, NoHeartbeat, subscriber, channel, caller
  <2> QED
    BY <1>1, <1>2, <1>12, <2>1
<1>13. ASSUME NEW s \in Subs, Heartbeat(s), Alive(u)
       PROVE  Neat(queue'[u], Offered(u)', last'[u], overflows'[u])
  <2>1. UNCHANGED <<cpc, op, todo, published, last, overflows>>
    BY <1>13 DEF Heartbeat, channel, caller
  <2>2. Offered(u)' = Offered(u)
    BY <1>2, <2>1
  <2>3. PICK q, b, c :
          /\ Sets(s, q, b, c, overflows[s])
          /\ q = IF c THEN <<>> ELSE <<Small>>
    BY <1>0, <1>13, Beating
  <2>4. CASE u # s
    <3>1. queue'[u] = queue[u]
      BY <1>b, <2>3, <2>4 DEF Sets
    <3> QED
      BY <1>1, <1>13, <2>1, <2>2, <3>1
  <2>5. CASE u = s
    <3>1. queue'[u] = q /\ closed'[u] = c
      BY <1>b, <2>3, <2>5 DEF Sets
    <3>2. queue'[u] = <<Small>>
      BY <2>3, <3>1 DEF Alive
    <3>3. queue[u] = <<>>
      BY <1>13, <2>5 DEF Heartbeat
    <3>4. Held(queue[u]) = 0
      BY <3>3 DEF Held, Hinted
    <3>5. overflows[u] = 0 /\ Offered(u) = last[u]
      BY <1>a, <1>e, <1>13, <3>4 DEF Neat
    <3>6. Neat(<<Small>>, Offered(u), Offered(u), 0)
      BY <1>e, NeatSmall
    <3> QED
      BY <2>1, <2>2, <3>2, <3>5, <3>6
  <2> QED
    BY <2>4, <2>5
<1>14. CASE \E s \in Subs : Subscribe(s)
  BY <1>3, <1>14
<1>15. CASE \A s \in Subs : ~Subscribe(s)
  <2>1. Alive(u)
    BY <1>h, <1>15
  <2> QED
    BY <1>4, <1>5, <1>6, <1>7, <1>8, <1>9, <1>10, <1>11, <1>12, <1>13, <1>15,
       <2>1, Stepping
<1> QED
  BY <1>14, <1>15

-----------------------------------------------------------------------------
(* The initial states satisfy the inductive invariant. *)
LEMMA Initially == Init => Inv
<1> USE SseAssumption
<1> SUFFICES ASSUME Init
             PROVE  Inv
  OBVIOUS
<1>1. <<>> \in Seq(Frames) /\ <<>> \in Seq(Subs) /\ Small \in Frames /\ Small.id = 0
      /\ Len(<<>>) = 0 /\ Bytes(<<>>) = 0
  BY BytesEmpty DEF Small, Frames
<1>2. /\ 0 \in 0..MaxQueued /\ 0 \in 0..MaxOverflows /\ 0 \in 0..Interval
      /\ 0 \in 0..MaxEvents
  OBVIOUS
<1>3. TypeOK
  <2>1. /\ queue \in [Subs -> Seq(Frames)]
        /\ queued_bytes \in [Subs -> 0..MaxQueued]
        /\ overflows \in [Subs -> 0..MaxOverflows]
        /\ quiet \in [Subs -> 0..Interval] /\ last \in [Subs -> 0..MaxEvents]
        /\ phase \in [Subs -> Phases]
    BY <1>1, <1>2 DEF Init, Phases
  <2>2. /\ closed \in [Subs -> BOOLEAN] /\ notifier \in [Subs -> BOOLEAN]
        /\ notified \in [Subs -> BOOLEAN]
    BY DEF Init
  <2>3. /\ cpc \in [Callers -> {"idle", "each", "notify"}]
        /\ op \in [Callers -> {"publish", "close"}]
        /\ todo \in [Callers -> Seq(Subs)]
        /\ target \in [Callers -> Subs \cup {Nobody}]
        /\ frame \in [Callers -> Frames]
    BY <1>1 DEF Init
  <2> QED
    BY <1>1, <1>2, <2>1, <2>2, <2>3 DEF TypeOK, Init
<1>4. Locked
  BY DEF Locked, Init
<1>5. \A s \in Subs : ~Alive(s)
  BY DEF Alive, Init
<1>6. Listed /\ Walked /\ Ordered
  <2>1. Listed
    BY <1>1, <1>5 DEF Listed, Distinct, Init
  <2>2. Walked
    BY DEF Walked, Init
  <2>3. Ordered
    BY <1>5 DEF Ordered
  <2> QED
    BY <2>1, <2>2, <2>3
<1>7. Noticed
  BY DEF Noticed, ParkedIsWoken, Attached, Init
<1>8. Counted
  <2>1. \A s \in Subs : queue[s] = <<>> /\ queued_bytes[s] = 0 /\ overflows[s] = 0
    BY DEF Init
  <2>2. \A t \in Callers : frame[t].id = 0
    BY <1>1 DEF Init
  <2>3. published = 0 /\ 0 < MaxOverflows /\ 0 <= MaxQueued
    <3>1. MaxOverflows \in Nat \ {0} /\ MaxQueued \in Nat
      OBVIOUS
    <3> QED
      BY <3>1 DEF Init
  <2>4. BudgetExact
    BY <1>1, <2>1, <2>3 DEF BudgetExact
  <2> QED
    BY <1>1, <2>1, <2>2, <2>3, <2>4 DEF Counted
<1> QED
  BY <1>3, <1>4, <1>6, <1>7, <1>8 DEF Inv

(* A step that changes nothing keeps the inductive invariant. *)
LEMMA Stuttering ==
  ASSUME Inv, UNCHANGED vars
  PROVE  Inv'
<1>1. UNCHANGED <<queue, queued_bytes, closed, notifier, overflows, quiet, last>>
  BY DEF vars, subscriber
<1>2. UNCHANGED <<phase, notified, subscribers, accepting, lock, published>>
  BY DEF vars, channel
<1>3. UNCHANGED <<cpc, op, todo, target, frame>>
  BY DEF vars, caller
<1>4. UNCHANGED <<pumped, pump, visit, beat, signalled>>
  BY DEF vars, pumping
<1>5. TypeOK'
  BY <1>1, <1>2, <1>3, <1>4 DEF Inv, TypeOK
<1>6. Locked'
  BY <1>2, <1>3, <1>4 DEF Inv, Locked
<1>7. Listed' /\ Walked'
  BY <1>1, <1>2, <1>3 DEF Inv, Listed, Walked, Distinct, In, Alive
<1>8. Noticed'
  BY <1>1, <1>2, <1>3, <1>4 DEF Inv, Noticed, ParkedIsWoken, UsesNotifier
<1>9. Counted'
  BY <1>1, <1>2, <1>3 DEF Inv, Counted, BudgetExact
<1>10. Ordered'
  <2>1. \A s \in Subs : Offered(s)' = Offered(s) /\ (Alive(s)' <=> Alive(s))
    BY <1>1, <1>2, <1>3 DEF Offered, Alive
  <2> QED
    BY <1>1, <2>1 DEF Inv, Ordered, Held, Hinted
<1> QED
  BY <1>5, <1>6, <1>7, <1>8, <1>9, <1>10 DEF Inv

(* What publish(), close_all(), the pump and the reactors keep between     *)
(* them, for any number of subscribers and application threads.            *)
THEOREM Invariance == Spec => []Inv
<1>1. Inv /\ [Next]_vars => Inv'
  <2> SUFFICES ASSUME Inv, [Next]_vars
               PROVE  Inv'
    OBVIOUS
  <2>1. CASE Next
    BY <2>1, TypeKept, LockedKept, ListedKept, WalkedKept, NoticedKept,
       CountedKept, OrderedKept DEF Inv
  <2>2. CASE UNCHANGED vars
    BY <2>2, Stuttering
  <2> QED
    BY <2>1, <2>2
<1> QED
  BY <1>1, Initially, PTL DEF Spec

(* The variables of the channel, its subscribers, callers and pump stay in *)
(* their types; queued_bytes_ in particular never leaves the budget.       *)
THEOREM Typed == Spec => []TypeOK
<1>1. Inv => TypeOK
  BY DEF Inv
<1> QED
  BY <1>1, Invariance, PTL

(* Every live subscriber is in the list exactly once, and the list is      *)
(* within max_subscribers: publish() and close_all() miss nobody.          *)
THEOREM EveryoneListed == Spec => []LiveAreListed
<1>1. Inv => LiveAreListed
  <2> SUFFICES ASSUME Inv
               PROVE  LiveAreListed
    OBVIOUS
  <2>1. Listed
    BY DEF Inv
  <2>2. ASSUME NEW s \in Subs, Alive(s)
        PROVE  Cardinality({k \in 1..Len(subscribers) : subscribers[k] = s}) = 1
    <3>1. PICK i \in 1..Len(subscribers) : subscribers[i] = s
      BY <2>1, <2>2 DEF Listed, In
    <3>2. {k \in 1..Len(subscribers) : subscribers[k] = s} = {i}
      BY <2>1, <3>1 DEF Listed, Distinct
    <3> QED
      BY <3>2, FS_Singleton
  <2> QED
    BY <2>1, <2>2 DEF LiveAreListed, Listed
<1> QED
  BY <1>1, Invariance, PTL

(* A parked stream with something to send, or that has to end, has a       *)
(* wakeup or somebody who is about to call its notifier: none is lost      *)
(* between a subscriber's mutex and the call.                              *)
THEOREM NoLostWakeup == Spec => []ParkedIsWoken
<1>1. Inv => ParkedIsWoken
  BY DEF Inv, Noticed
<1> QED
  BY <1>1, Invariance, PTL

(* queued_bytes_ is what is queued, whatever was dropped, pulled, closed   *)
(* or beaten, so the subtraction in enqueue() does not wrap around.        *)
THEOREM BytesCounted == Spec => []BudgetExact
<1>1. Inv => BudgetExact
  BY DEF Inv, Counted
<1> QED
  BY <1>1, Invariance, PTL

(* A live subscriber's queue is the newest events in their order without a *)
(* gap, and without an overflow it goes on where the last pull ended.      *)
THEOREM NewestInOrder == Spec => []InOrderNoGap
<1>1. Inv => InOrderNoGap
  <2> SUFFICES ASSUME Inv, NEW s \in Subs, Alive(s)
               PROVE  LET events == Kept(queue[s], Events)
                          before == Offered(s) - Len(events)
                      IN /\ \A k \in 1..Len(events) : events[k].id = before + k
                         /\ before >= last[s]
                         /\ overflows[s] = 0 => before = last[s]
    BY DEF InOrderNoGap
  <2> DEFINE e == Kept(queue[s], Events)
             w == queue[s]
             n == Offered(s)
             l == last[s]
             o == overflows[s]
  <2>1. w \in Seq(Frames) /\ l \in Nat /\ n \in Int
    BY SseAssumption DEF Inv, TypeOK, Offered
  <2>2. Neat(w, n, l, o)
    BY DEF Inv, Ordered, Neat
  <2> HIDE DEF w, n, l, o
  <2>3. Len(e) = Held(w) /\ \A k \in 1..Len(e) : e[k].id = n - Len(e) + k
    BY <2>1, <2>2, EventsOf DEF w
  <2> HIDE DEF e
  <2>4. n - Len(e) >= l /\ (o = 0 => n - Len(e) = l)
    BY <2>2, <2>3 DEF Neat
  <2> QED
    BY <2>3, <2>4 DEF e, n, l, o
<1> QED
  BY <1>1, Invariance, PTL

-----------------------------------------------------------------------------
(* The channel implements EventFeed *)

(* The feed of a subscriber from the fields it depends on. *)
Tip(w, l) ==
  IF Kept(w, Events) = <<>> THEN l ELSE Kept(w, Events)[Len(Kept(w, Events))].id

StateOf(p, c) ==
  IF p = "none" THEN "out" ELSE IF p = "gone" THEN "over"
  ELSE IF c THEN "closing" ELSE "open"

View(p, c, l, from, upto, o) ==
  [state |-> StateOf(p, c), sent |-> l, from |-> from, upto |-> upto,
   skips |-> IF c THEN 0 ELSE o]

FeedFrom(p, w, c, l, o) ==
  View(p, c, l, Tip(w, l) - Len(Kept(w, Events)), Tip(w, l), o)

(* The feed of a subscriber, before and after a step. *)
LEMMA FeedRead ==
  ASSUME NEW s \in Subs
  PROVE  /\ FeedOf(s) = FeedFrom(phase[s], queue[s], closed[s], last[s], overflows[s])
         /\ FeedOf(s)' = FeedFrom(phase'[s], queue'[s], closed'[s], last'[s], overflows'[s])
         /\ Feeds[s] = FeedOf(s)
<1>1. FeedOf(s) = FeedFrom(phase[s], queue[s], closed[s], last[s], overflows[s])
  BY Zenon DEF FeedOf, FeedFrom, View, Tip, StateOf
<1>2. FeedOf(s)' = FeedFrom(phase'[s], queue'[s], closed'[s], last'[s], overflows'[s])
  BY Zenon DEF FeedOf, FeedFrom, View, Tip, StateOf
<1> QED
  BY <1>1, <1>2 DEF Feeds

(* A subscriber that has no events queued. *)
LEMMA FeedIdle ==
  ASSUME NEW p, NEW w \in {<<>>, <<Small>>}, NEW c, NEW l \in Nat, NEW o
  PROVE  FeedFrom(p, w, c, l, o) = View(p, c, l, l, l, o)
<1>1. w \in Seq(Frames) /\ Neat(w, l, l, 0) /\ Held(w) = 0
  <2>1. Small \in Frames /\ Small.id = 0
    BY SseAssumption DEF Small, Frames
  <2>2. Neat(w, l, l, 0)
    BY NeatEmpty, NeatSmall
  <2>3. Held(w) = 0
    BY <2>1 DEF Held, Hinted
  <2>4. <<>> \in Seq(Frames) /\ <<Small>> \in Seq(Frames)
    BY <2>1
  <2>5. w \in Seq(Frames)
    BY <2>4
  <2> QED
    BY <2>2, <2>3, <2>5
<1>2. Len(Kept(w, Events)) = 0 /\ Kept(w, Events) \in Seq(Frames)
  BY <1>1, EventsOf, Keeping
<1> DEFINE e == Kept(w, Events)
<1> HIDE DEF e
<1>3. e = <<>> /\ Len(e) = 0
  BY <1>2, EmptySeq DEF e
<1>4. Tip(w, l) = l /\ Tip(w, l) - Len(e) = l
  BY <1>3 DEF Tip, e
<1> QED
  BY <1>4 DEF FeedFrom, e

(* A live subscriber waits for the events after those that were dropped or *)
(* sent, up to the last one it was offered.                                *)
LEMMA FeedLive ==
  ASSUME NEW p, NEW w \in Seq(Frames), NEW c, NEW n \in Int, NEW l \in Nat, NEW o \in Nat,
         Neat(w, n, l, o)
  PROVE  FeedFrom(p, w, c, l, o) = View(p, c, l, n - Held(w), n, o)
<1>1. Tip(w, l) = n
  BY NeatPull DEF Tip
<1>2. Len(Kept(w, Events)) = Held(w)
  BY EventsOf
<1> QED
  BY <1>1, <1>2 DEF FeedFrom

(* One subscriber's feed changes. *)
LEMMA FeedBecomes ==
  ASSUME NEW s \in Subs, NEW r, FeedOf(s)' = r, published' = published,
         \A u \in Subs : u # s => FeedOf(u)' = FeedOf(u)
  PROVE  Feed!Becomes(s, r)
<1>1. Feeds' = [Feeds EXCEPT ![s] = r]
  BY DEF Feeds
<1> QED
  BY <1>1 DEF Feed!Becomes

(* What a step leaves alone of a subscriber. *)
LEMMA FeedStays ==
  ASSUME NEW s \in Subs, queue'[s] = queue[s], closed'[s] = closed[s],
         last'[s] = last[s], overflows'[s] = overflows[s],
         StateOf(phase'[s], closed[s]) = StateOf(phase[s], closed[s])
  PROVE  FeedOf(s)' = FeedOf(s)
BY FeedRead, Zenon DEF FeedFrom, View

(* A subscriber that is gone is closed, and nobody is closed before it     *)
(* subscribed.                                                             *)
Ended ==
  \A s \in Subs : /\ phase[s] = "gone" => closed[s]
                  /\ phase[s] = "none" => ~closed[s]

(* Only on_detached() ends a phase, and it closes; whoever closes found    *)
(* the subscriber in the list or alive.                                    *)
LEMMA EndedKept ==
  ASSUME Inv, Ended, [Next]_vars
  PROVE  Ended'
<1>0. TypeOK /\ Locked /\ Walked /\ Counted
  BY DEF Inv
<1>a. /\ closed \in [Subs -> BOOLEAN] /\ phase \in [Subs -> Phases]
      /\ todo \in [Callers -> Seq(Subs)]
  BY <1>0 DEF TypeOK
<1>1. ASSUME UNCHANGED <<closed, phase>>
      PROVE  Ended'
  BY <1>1 DEF Ended
<1>2. ASSUME NEW s \in Subs, Handling(s)
      PROVE  Ended'
  <2>1. CASE Subscribe(s)
    BY <1>a, <2>1 DEF Subscribe, Ended
  <2>2. CASE OnDetached(s)
    BY <1>a, <2>2 DEF OnDetached, Ended, Attached
  <2>3. CASE \/ AddToPump(s) \/ NotifyPump(s) \/ OnAttached(s) \/ PullWrote(s)
             \/ PullIdle(s) \/ Woken(s) \/ Writable(s)
    <3>1. /\ closed' = closed
          /\ \E ph \in Phases \ {"none", "gone"} : phase' = [phase EXCEPT ![s] = ph]
      BY <2>3 DEF AddToPump, NotifyPump, OnAttached, PullWrote, PullIdle, Woken,
                  Writable, subscriber, Phases
    <3> QED
      BY <1>a, <3>1 DEF Ended
  <2> QED
    BY <1>2, <2>1, <2>2, <2>3 DEF Handling
<1>3. ASSUME NEW s \in Subs, phase[s] # "none", phase' = phase,
             \E c \in BOOLEAN : (closed[s] => c) /\ closed' = [closed EXCEPT ![s] = c]
      PROVE  Ended'
  BY <1>a, <1>3 DEF Ended
<1>4. ASSUME NEW t \in Callers, PublishTo(t) \/ BeginClose(t)
      PROVE  Ended'
  <2> DEFINE s == Head(todo[t])
  <2>1. /\ todo[t] \in Seq(Subs) /\ todo[t] # <<>> /\ cpc[t] # "idle" /\ phase' = phase
    BY <1>a, <1>4 DEF PublishTo, BeginClose
  <2>2. s \in Subs /\ s = todo[t][1] /\ 1 \in 1..Len(todo[t])
    BY <2>1, HeadTailProperties, EmptySeq
  <2>3. phase[s] # "none"
    BY <1>0, <2>1, <2>2 DEF Walked
  <2>4. CASE PublishTo(t)
    <3>1. Enqueue(s, frame[t]) /\ frame[t] \in Frames
      BY <1>0, <2>4 DEF PublishTo, TypeOK
    <3> HIDE DEF s
    <3>2. PICK q, b, c, o : EnqueueMakes(s, frame[t], q, b, c, o)
      BY <1>0, <2>2, <3>1, Enqueuing
    <3>3. c \in BOOLEAN /\ (closed[s] => c) /\ closed' = [closed EXCEPT ![s] = c]
      BY <3>2 DEF EnqueueMakes, Exact, Sets
    <3> QED
      BY <1>3, <2>1, <2>2, <2>3, <3>3
  <2>5. CASE BeginClose(t)
    <3>1. closed' = [closed EXCEPT ![s] = TRUE]
      BY <2>5 DEF BeginClose
    <3> HIDE DEF s
    <3> QED
      BY <1>3, <2>1, <2>2, <2>3, <3>1
  <2> QED
    BY <1>4, <2>4, <2>5
<1>5. ASSUME NEW s \in Subs, Heartbeat(s)
      PROVE  Ended'
  <2>1. PICK q, b, c :
          Sets(s, q, b, c, overflows[s]) /\ Exact(q, b, c, overflows[s])
    BY <1>0, <1>5, Beating
  <2>2. /\ c \in BOOLEAN /\ closed' = [closed EXCEPT ![s] = c]
        /\ phase[s] # "none" /\ ~closed[s] /\ phase' = phase
    BY <1>5, <2>1 DEF Sets, Exact, Heartbeat, Alive
  <2> QED
    BY <1>3, <2>2
<1>6. CASE Next
  <2>1. ASSUME NEW t \in Callers, NEW z \in Sizes, BeginPublish(t, z)
        PROVE  UNCHANGED <<closed, phase>>
    BY <2>1 DEF BeginPublish, subscriber
  <2>2. ASSUME NEW t \in Callers,
               BeginCloseAll(t) \/ Shutdown(t) \/ CallNotify(t) \/ End(t)
        PROVE  UNCHANGED <<closed, phase>>
    BY <2>2 DEF BeginCloseAll, Shutdown, CallNotify, End, subscriber
  <2>3. ASSUME RefuseSubscriber \/ PumpWait \/ PumpSignalled \/ BeginTick
                 \/ EndTick \/ PumpNotify
        PROVE  UNCHANGED <<closed, phase>>
    BY <2>3 DEF RefuseSubscriber, PumpWait, PumpSignalled, BeginTick, EndTick,
                PumpNotify, subscriber
  <2>4. ASSUME NEW s \in Subs, DropDead(s) \/ NoHeartbeat(s)
        PROVE  UNCHANGED <<closed, phase>>
    BY <2>4 DEF DropDead, NoHeartbeat, subscriber
  <2> QED
    BY <1>1, <1>2, <1>4, <1>5, <1>6, <2>1, <2>2, <2>3, <2>4, Stepping
<1>7. CASE UNCHANGED vars
  BY <1>1, <1>7 DEF vars, subscriber
<1> QED
  BY <1>6, <1>7

(* The types of what a feed is read from. *)
LEMMA FeedTypes ==
  ASSUME Inv
  PROVE  /\ queue \in [Subs -> Seq(Frames)] /\ closed \in [Subs -> BOOLEAN]
         /\ overflows \in [Subs -> 0..MaxOverflows] /\ phase \in [Subs -> Phases]
         /\ last \in [Subs -> 0..MaxEvents] /\ published \in Nat
<1>1. /\ queue \in [Subs -> Seq(Frames)] /\ closed \in [Subs -> BOOLEAN]
      /\ overflows \in [Subs -> 0..MaxOverflows] /\ phase \in [Subs -> Phases]
      /\ last \in [Subs -> 0..MaxEvents] /\ published \in 0..MaxEvents
  BY Zenon DEF Inv, TypeOK
<1>2. MaxEvents \in Nat
  BY SseAssumption
<1>3. published \in Nat
  BY <1>1, <1>2
<1> QED
  BY <1>1, <1>3

(* What the feed of a live subscriber is. *)
LEMMA FeedAlive ==
  ASSUME Inv, Ended, NEW s \in Subs, Alive(s)
  PROVE  LET n == Offered(s)
             h == Held(queue[s])
         IN /\ Neat(queue[s], n, last[s], overflows[s])
            /\ queue[s] \in Seq(Frames) /\ last[s] \in Nat /\ overflows[s] \in Nat
            /\ n \in Nat /\ h \in Nat /\ n - h >= last[s]
            /\ FeedOf(s) = [state |-> "open", sent |-> last[s], from |-> n - h,
                            upto |-> n, skips |-> overflows[s]]
<1> DEFINE n == Offered(s)
           w == queue[s]
           l == last[s]
           o == overflows[s]
<1>1. w \in Seq(Frames) /\ l \in Nat /\ o \in Nat /\ n \in Int
  BY SseAssumption DEF Inv, TypeOK, Offered
<1>2. Neat(w, n, l, o)
  BY DEF Inv, Ordered, Neat
<1>3. FeedOf(s) = FeedFrom(phase[s], w, closed[s], l, o)
  BY FeedRead
<1>4. StateOf(phase[s], closed[s]) = "open" /\ ~closed[s]
  BY DEF Alive, Ended, StateOf
<1> HIDE DEF n, w, l, o
<1>5. FeedOf(s) = View(phase[s], closed[s], l, n - Held(w), n, o)
  BY <1>1, <1>2, <1>3, FeedLive
<1>6. FeedOf(s) = [state |-> "open", sent |-> l, from |-> n - Held(w),
                   upto |-> n, skips |-> o]
  BY <1>4, <1>5 DEF View
<1>7. Held(w) \in Nat /\ n - Held(w) >= l
  BY <1>1, <1>2, Hints DEF Neat
<1>8. n \in Nat
  BY <1>1, <1>7
<1> QED
  BY <1>1, <1>2, <1>6, <1>7, <1>8 DEF n, w, l, o

(* Nobody's feed changes. *)
LEMMA FeedsStay ==
  ASSUME \A u \in Subs : FeedOf(u)' = FeedOf(u)
  PROVE  Feeds' = Feeds
BY DEF Feeds

(* Whoever is open is alive. *)
LEMMA OpenIsAlive ==
  ASSUME NEW s \in Subs, Feed!Open(s)
  PROVE  Alive(s)
<1>1. FeedOf(s).state = "open"
  BY FeedRead DEF Feed!Open, Feed!Window
<1>2. FeedOf(s).state = StateOf(phase[s], closed[s])
  BY FeedRead DEF FeedFrom, View
<1> QED
  BY <1>1, <1>2 DEF StateOf, Alive

(* With the mutex free nobody is left to be offered an event. *)
LEMMA FreeIsCaughtUp ==
  ASSUME Inv, Ended, lock = Nobody
  PROVE  Feed!CaughtUp
<1> SUFFICES ASSUME NEW s \in Subs, Feed!Open(s)
             PROVE  Feeds[s].upto = published
  BY DEF Feed!CaughtUp
<1>1. Alive(s)
  BY OpenIsAlive
<1>2. FeedOf(s).upto = Offered(s)
  BY <1>1, FeedAlive
<1>3. \A t \in Callers : cpc[t] = "idle"
  BY Alone DEF Inv
<1>4. Offered(s) = published
  BY <1>3 DEF Offered
<1> QED
  BY <1>2, <1>4, FeedRead

(* subscribe() joins at the end of what was published. *)
LEMMA SubscribeJoins ==
  ASSUME Inv, Ended, NEW s \in Subs, Subscribe(s)
  PROVE  Feed!Join(s)
<1>0. /\ queue \in [Subs -> Seq(Frames)] /\ closed \in [Subs -> BOOLEAN]
      /\ overflows \in [Subs -> 0..MaxOverflows] /\ phase \in [Subs -> Phases]
      /\ last \in [Subs -> 0..MaxEvents] /\ published \in Nat
  BY FeedTypes
<1>1. phase[s] = "none" /\ ~closed[s] /\ queue[s] = <<>> /\ overflows[s] = 0
  BY DEF Subscribe, Ended, Inv, Counted
<1>2. Feed!CaughtUp
  BY FreeIsCaughtUp DEF Subscribe
<1>3. Feeds[s].state = "out"
  BY <1>1, FeedRead DEF FeedFrom, View, StateOf
<1>4. /\ phase'[s] = "created" /\ closed'[s] = FALSE /\ last'[s] = published
      /\ overflows'[s] = 0 /\ queue'[s] \in {<<>>, <<Small>>}
  BY <1>0, <1>1 DEF Subscribe
<1>5. FeedOf(s)' = FeedFrom("created", queue'[s], FALSE, published, 0)
  BY <1>4, FeedRead
<1>6. FeedOf(s)' = View("created", FALSE, published, published, published, 0)
  <2> DEFINE w == queue'[s]
             p == "created"
             c == FALSE
             n == published
             o == 0
  <2>1. w \in {<<>>, <<Small>>} /\ n \in Nat
    BY <1>0, <1>4
  <2> HIDE DEF w, p, c, n, o
  <2>2. FeedFrom(p, w, c, n, o) = View(p, c, n, n, n, o)
    BY <2>1, FeedIdle
  <2> QED
    BY <1>5, <2>2 DEF w, p, c, n, o
<1>7. FeedOf(s)' = Feed!Fresh("open", published)
  BY <1>6 DEF View, StateOf, Feed!Fresh, Feed!Window
<1>8. ASSUME NEW u \in Subs, u # s
      PROVE  FeedOf(u)' = FeedOf(u)
  <2>1. /\ phase'[u] = phase[u] /\ closed'[u] = closed[u] /\ last'[u] = last[u]
        /\ overflows'[u] = overflows[u] /\ queue'[u] = queue[u]
    BY <1>0, <1>8 DEF Subscribe
  <2> QED
    BY <2>1, FeedStays
<1>9. published' = published
  BY DEF Subscribe
<1>10. Feed!Becomes(s, Feed!Fresh("open", published))
  BY <1>7, <1>8, <1>9, FeedBecomes
<1> QED
  BY <1>2, <1>3, <1>10 DEF Feed!Join

(* on_detached() leaves. *)
LEMMA DetachLeaves ==
  ASSUME Inv, Ended, NEW s \in Subs, OnDetached(s)
  PROVE  Feed!Leave(s)
<1>0. /\ queue \in [Subs -> Seq(Frames)] /\ closed \in [Subs -> BOOLEAN]
      /\ overflows \in [Subs -> 0..MaxOverflows] /\ phase \in [Subs -> Phases]
      /\ last \in [Subs -> 0..MaxEvents]
  BY SseAssumption DEF Inv, TypeOK
<1>1. Feeds[s].state \in {"open", "closing"}
  BY FeedRead DEF FeedFrom, View, StateOf, OnDetached, Attached
<1>2. /\ phase'[s] = "gone" /\ closed'[s] = TRUE /\ last'[s] = 0
      /\ overflows'[s] = 0 /\ queue'[s] = <<>>
  BY <1>0 DEF OnDetached
<1>3. FeedOf(s)' = FeedFrom("gone", <<>>, TRUE, 0, 0)
  BY <1>2, FeedRead
<1>4. FeedFrom("gone", <<>>, TRUE, 0, 0) = View("gone", TRUE, 0, 0, 0, 0)
  <2> DEFINE p == "gone"
             w == <<>>
             c == TRUE
             l == 0
  <2>1. w \in {<<>>, <<Small>>} /\ l \in Nat
    OBVIOUS
  <2> HIDE DEF p, w, c, l
  <2>2. FeedFrom(p, w, c, l, l) = View(p, c, l, l, l, l)
    BY <2>1, FeedIdle
  <2> QED
    BY <2>2 DEF p, w, c, l
<1>5. FeedOf(s)' = Feed!Fresh("over", 0)
  BY <1>3, <1>4 DEF View, StateOf, Feed!Fresh, Feed!Window
<1>6. ASSUME NEW u \in Subs, u # s
      PROVE  FeedOf(u)' = FeedOf(u)
  <2>1. /\ phase'[u] = phase[u] /\ closed'[u] = closed[u] /\ last'[u] = last[u]
        /\ overflows'[u] = overflows[u] /\ queue'[u] = queue[u]
    BY <1>0, <1>6 DEF OnDetached
  <2> QED
    BY <2>1, FeedStays
<1>7. published' = published
  BY DEF OnDetached, channel
<1>8. Feed!Becomes(s, Feed!Fresh("over", 0))
  BY <1>5, <1>6, <1>7, FeedBecomes
<1> QED
  BY <1>1, <1>8 DEF Feed!Leave

(* A pull sends everything that is queued. *)
LEMMA PullSends ==
  ASSUME Inv, Ended, NEW s \in Subs, PullWrote(s)
  PROVE  Feed!Send(s)
<1> DEFINE w == queue[s]
           c == closed[s]
           l == last[s]
           x == Tip(w, l)
<1>0. /\ queue \in [Subs -> Seq(Frames)] /\ closed \in [Subs -> BOOLEAN]
      /\ overflows \in [Subs -> 0..MaxOverflows] /\ phase \in [Subs -> Phases]
      /\ last \in [Subs -> 0..MaxEvents] /\ published \in Nat
  BY FeedTypes
<1>1. x \in Nat
  <2>1. Kept(w, Events) # <<>> => Kept(w, Events)[Len(Kept(w, Events))].id \in 0..published
    BY Pulled DEF Inv
  <2>2. l \in Nat
    BY <1>0, SseAssumption
  <2> QED
    BY <1>0, <2>1, <2>2 DEF Tip
<1>2. FeedOf(s) = View("driving", c, l, x - Len(Kept(w, Events)), x, overflows[s])
  BY FeedRead DEF FeedFrom, PullWrote
<1>3. /\ phase'[s] \in {"driving", "blocked"} /\ closed'[s] = c /\ queue'[s] = <<>>
      /\ last'[s] = x /\ overflows'[s] = 0
  BY <1>0 DEF PullWrote, Tip
<1> HIDE DEF w, c, l, x
<1>4. FeedOf(s)' = View(phase'[s], c, x, x, x, 0)
  <2>1. FeedOf(s)' = FeedFrom(phase'[s], <<>>, c, x, 0)
    BY <1>3, FeedRead
  <2> DEFINE p == phase'[s]
             e == <<>>
             o == 0
  <2>2. e \in {<<>>, <<Small>>} /\ FeedOf(s)' = FeedFrom(p, e, c, x, o)
    BY <2>1
  <2> HIDE DEF p, e, o
  <2>3. FeedFrom(p, e, c, x, o) = View(p, c, x, x, x, o)
    BY <1>1, <2>2, FeedIdle
  <2> QED
    BY <2>2, <2>3 DEF p, o
<1>5. /\ FeedOf(s).state \in {"open", "closing"} /\ FeedOf(s).upto = x
      /\ FeedOf(s)' = Feed!Fresh(FeedOf(s).state, x)
  BY <1>2, <1>3, <1>4 DEF View, StateOf, Feed!Fresh, Feed!Window
<1>6. ASSUME NEW u \in Subs, u # s
      PROVE  FeedOf(u)' = FeedOf(u)
  <2>1. /\ phase'[u] = phase[u] /\ closed'[u] = closed[u] /\ last'[u] = last[u]
        /\ overflows'[u] = overflows[u] /\ queue'[u] = queue[u]
    BY <1>0, <1>6 DEF PullWrote
  <2> QED
    BY <2>1, FeedStays
<1>7. published' = published
  BY DEF PullWrote, channel
<1>8. Feed!Becomes(s, Feed!Fresh(FeedOf(s).state, x))
  BY <1>5, <1>6, <1>7, FeedBecomes
<1> QED
  BY <1>5, <1>8, FeedRead DEF Feed!Send

(* What one subscriber's own mutex protects is all a step changes. *)
LEMMA OthersStay ==
  ASSUME Inv, NEW s \in Subs, NEW q, NEW b, NEW c, NEW o, Sets(s, q, b, c, o),
         phase' = phase, last' = last
  PROVE  /\ \A u \in Subs : u # s => FeedOf(u)' = FeedOf(u)
         /\ FeedOf(s)' = FeedFrom(phase[s], q, c, last[s], o)
<1>1. /\ queue \in [Subs -> Seq(Frames)] /\ closed \in [Subs -> BOOLEAN]
      /\ overflows \in [Subs -> 0..MaxOverflows]
  BY FeedTypes
<1>2. ASSUME NEW u \in Subs, u # s
      PROVE  FeedOf(u)' = FeedOf(u)
  <2>1. /\ phase'[u] = phase[u] /\ closed'[u] = closed[u] /\ last'[u] = last[u]
        /\ overflows'[u] = overflows[u] /\ queue'[u] = queue[u]
    BY <1>1, <1>2 DEF Sets
  <2> QED
    BY <2>1, FeedStays
<1>3. queue'[s] = q /\ closed'[s] = c /\ overflows'[s] = o
  BY <1>1 DEF Sets
<1>4. FeedOf(s)' = FeedFrom(phase'[s], queue'[s], closed'[s], last'[s], overflows'[s])
  BY FeedRead
<1>5. FeedOf(s)' = FeedFrom(phase[s], q, c, last[s], o)
  BY <1>3, <1>4
<1> QED
  BY <1>2, <1>5

(* A subscriber that enqueue() reaches is offered the event, loses some of *)
(* the oldest for it, or is cut off; one that is closed is left alone.     *)
LEMMA PublishOffers ==
  ASSUME Inv, Ended, NEW t \in Callers, PublishTo(t)
  PROVE  \/ UNCHANGED <<published, Feeds>>
         \/ \E s \in Subs : Feed!Offer(s) \/ Feed!OfferSkipping(s) \/ Feed!CutOff(s)
<1> DEFINE f == frame[t]
<1>0. TypeOK /\ Locked /\ Walked /\ Counted
  BY DEF Inv
<1>1. /\ todo[t] \in Seq(Subs) /\ todo[t] # <<>> /\ f \in Frames
      /\ cpc[t] = "each" /\ op[t] = "publish"
      /\ phase' = phase /\ last' = last /\ published' = published
  BY <1>0 DEF PublishTo, TypeOK, channel
<1>2. PICK s \in Subs : s = Head(todo[t]) /\ s = todo[t][1] /\ 1 \in 1..Len(todo[t])
  BY <1>1, HeadTailProperties, EmptySeq
<1>3. f.id = published /\ published \in Nat /\ phase[s] # "none"
  BY <1>0, <1>1, <1>2, FeedTypes DEF Walked
<1>4. Enqueue(s, f)
  BY <1>2 DEF PublishTo
<1>5. Offered(s) = published - 1
  BY <1>1, <1>2 DEF Offered
<1> HIDE DEF f
<1>6. PICK q, b, c, o : EnqueueMakes(s, f, q, b, c, o)
  BY <1>0, <1>1, <1>2, <1>4, Enqueuing
<1>7. Sets(s, q, b, c, o) /\ Exact(q, b, c, o)
  BY <1>6 DEF EnqueueMakes
<1>8. /\ \A u \in Subs : u # s => FeedOf(u)' = FeedOf(u)
      /\ FeedOf(s)' = FeedFrom(phase[s], q, c, last[s], o)
  BY <1>1, <1>2, <1>7, OthersStay
<1>9. CASE closed[s]
  <2>1. c /\ q = queue[s] /\ closed[s] \in BOOLEAN /\ c \in BOOLEAN
    BY <1>2, <1>6, <1>9, FeedTypes DEF EnqueueMakes, Exact
  <2>2. FeedOf(s) = FeedFrom(phase[s], queue[s], closed[s], last[s], overflows[s])
    BY <1>2, FeedRead
  <2>3. FeedOf(s)' = FeedOf(s)
    BY <1>8, <1>9, <2>1, <2>2 DEF FeedFrom, View, StateOf
  <2>4. \A u \in Subs : FeedOf(u)' = FeedOf(u)
    BY <1>8, <2>3
  <2>5. Feeds' = Feeds
    BY <2>4, FeedsStay
  <2> QED
    BY <1>1, <2>5
<1>10. CASE ~closed[s]
  <2> DEFINE n == Offered(s)
             w == queue[s]
             l == last[s]
             x == overflows[s]
  <2>1. Alive(s) /\ phase[s] # "gone"
    BY <1>2, <1>3, <1>10 DEF Alive, Ended
  <2>2. /\ Neat(w, n, l, x) /\ w \in Seq(Frames) /\ l \in Nat /\ x \in Nat
        /\ n \in Nat /\ Held(w) \in Nat /\ n - Held(w) >= l
        /\ FeedOf(s) = [state |-> "open", sent |-> l, from |-> n - Held(w),
                        upto |-> n, skips |-> x]
    BY <1>2, <2>1, FeedAlive
  <2>3. n + 1 = published /\ n < published
    BY <1>3, <1>5, <2>2
  <2>4. Feed!Behind(s) /\ Feeds[s] = FeedOf(s)
    BY <1>2, <2>2, <2>3, FeedRead DEF Feed!Behind, Feed!Open
  <2>5. CASE c
    <3>1. q = <<>> /\ c = TRUE
      BY <1>6, <1>10, <2>5 DEF EnqueueMakes, Exact
    <3> HIDE DEF l
    <3>2. FeedFrom(phase[s], <<>>, TRUE, l, o) = View(phase[s], TRUE, l, l, l, o)
      <4> DEFINE p == phase[s]
                 e == <<>>
                 d == TRUE
      <4>1. e \in {<<>>, <<Small>>} /\ l \in Nat
        BY <2>2
      <4> HIDE DEF p, e, d
      <4>2. FeedFrom(p, e, d, l, o) = View(p, d, l, l, l, o)
        BY <4>1, FeedIdle
      <4> QED
        BY <4>2 DEF p, e, d
    <3>3. FeedOf(s)' = Feed!Fresh("closing", l)
      BY <1>3, <1>8, <2>1, <3>1, <3>2 DEF View, StateOf, Feed!Fresh, Feed!Window, l
    <3>4. Feed!Becomes(s, Feed!Fresh("closing", l))
      BY <1>1, <1>2, <1>8, <3>3, FeedBecomes, Zenon
    <3>5. Feed!CutOff(s)
      BY <2>2, <2>4, <3>4 DEF Feed!CutOff
    <3> QED
      BY <1>2, <3>5
  <2>6. CASE ~c
    <3>1. PICK k : Pushes(w, q, k, f) /\ o = IF k = 0 THEN x ELSE x + 1
      BY <1>6, <2>6 DEF EnqueueMakes
    <3>2. q \in Seq(Frames) /\ o < MaxOverflows /\ c = FALSE
      BY <1>7, <2>6 DEF Exact
    <3> HIDE DEF n, w, l, x
    <3>3. /\ Neat(q, n + 1, l, o)
          /\ Held(q) \in 1..(Held(w) + 1) /\ (k = 0 => Held(q) = Held(w) + 1)
      <4>1. f.id = n + 1 /\ n \in Int /\ n >= 0
        BY <1>3, <2>2, <2>3
      <4> QED
        BY <1>1, <2>2, <3>1, <3>2, <4>1, NeatPush
    <3>4. FeedFrom(phase[s], q, FALSE, l, o)
            = View(phase[s], FALSE, l, (n + 1) - Held(q), n + 1, o)
      <4> DEFINE m == n + 1
                 d == FALSE
                 p == phase[s]
      <4>1. m \in Int /\ o \in Nat /\ Neat(q, m, l, o)
        BY <2>2, <3>1, <3>3
      <4> HIDE DEF m, d, p
      <4>2. FeedFrom(p, q, d, l, o) = View(p, d, l, m - Held(q), m, o)
        BY <2>2, <3>2, <4>1, FeedLive
      <4> QED
        BY <4>2 DEF m, d, p
    <3>5. FeedOf(s)' = [state |-> "open", sent |-> l, from |-> (n + 1) - Held(q),
                        upto |-> published, skips |-> o]
      <4>1. FeedOf(s)' = View(phase[s], FALSE, l, (n + 1) - Held(q), n + 1, o)
        BY <1>8, <3>2, <3>4 DEF l
      <4>2. StateOf(phase[s], FALSE) = "open"
        BY <1>3, <2>1 DEF StateOf
      <4>3. FeedOf(s)' = [state |-> "open", sent |-> l, from |-> (n + 1) - Held(q),
                          upto |-> n + 1, skips |-> o]
        BY <4>1, <4>2, Zenon DEF View
      <4> QED
        BY <2>3, <4>3
    <3>6. Feed!Becomes(s, FeedOf(s)')
      BY <1>1, <1>2, <1>8, FeedBecomes, Zenon
    <3>7. CASE k = 0
      <4>1. (n + 1) - Held(q) = n - Held(w) /\ o = x
        BY <2>2, <3>1, <3>3, <3>7
      <4>2. FeedOf(s)' = [Feeds[s] EXCEPT !.upto = published]
        BY <2>2, <2>4, <3>5, <4>1
      <4>3. Feed!Offer(s)
        BY <2>4, <3>6, <4>2 DEF Feed!Offer
      <4> QED
        BY <1>2, <4>3
    <3>8. CASE k # 0
      <4> DEFINE m == (n + 1) - Held(q)
      <4>1. m \in (n - Held(w))..n /\ o = x + 1
        BY <2>2, <3>1, <3>3, <3>8
      <4> HIDE DEF m
      <4>2. FeedOf(s)' = Feed!Window("open", Feeds[s].sent, m, published,
                                     Feeds[s].skips + 1)
        BY <2>2, <2>4, <3>5, <4>1 DEF m, Feed!Window
      <4>3. m \in Feeds[s].from..Feeds[s].upto /\ Feeds[s].skips + 1 < MaxOverflows
        BY <2>2, <2>4, <3>2, <4>1
      <4>4. Feed!OfferSkipping(s)
        BY <2>4, <3>6, <4>2, <4>3 DEF Feed!OfferSkipping
      <4> QED
        BY <1>2, <4>4
    <3> QED
      BY <3>7, <3>8
  <2> QED
    BY <2>5, <2>6
<1> QED
  BY <1>9, <1>10

(* begin_close() closes whoever was open. *)
LEMMA CloseCloses ==
  ASSUME Inv, Ended, NEW t \in Callers, BeginClose(t)
  PROVE  \/ UNCHANGED <<published, Feeds>>
         \/ \E s \in Subs : Feed!Close(s)
<1>0. TypeOK /\ Walked
  BY DEF Inv
<1>1. /\ todo[t] \in Seq(Subs) /\ todo[t] # <<>> /\ cpc[t] = "each"
      /\ phase' = phase /\ last' = last /\ published' = published
      /\ queue' = queue /\ overflows' = overflows
  BY <1>0 DEF BeginClose, TypeOK, channel
<1>2. PICK s \in Subs : s = Head(todo[t]) /\ s = todo[t][1] /\ 1 \in 1..Len(todo[t])
  BY <1>1, HeadTailProperties, EmptySeq
<1>3. closed \in [Subs -> BOOLEAN] /\ closed' = [closed EXCEPT ![s] = TRUE]
  BY <1>2, FeedTypes DEF BeginClose
<1>4. phase[s] # "none"
  BY <1>0, <1>1, <1>2 DEF Walked
<1>5. ASSUME NEW u \in Subs, u # s
      PROVE  FeedOf(u)' = FeedOf(u)
  BY <1>1, <1>3, <1>5, FeedStays
<1>6. CASE closed[s]
  <2>1. FeedOf(s)' = FeedOf(s)
    BY <1>1, <1>3, <1>6, FeedStays
  <2> QED
    BY <1>1, <1>5, <2>1, FeedsStay
<1>7. CASE ~closed[s]
  <2>1. Alive(s) /\ phase[s] # "gone"
    BY <1>4, <1>7 DEF Alive, Ended
  <2> DEFINE y == Tip(queue[s], last[s])
             x == y - Len(Kept(queue[s], Events))
             l == last[s]
             o == overflows[s]
             p == phase[s]
  <2>2. /\ FeedOf(s) = View(p, closed[s], l, x, y, o)
        /\ FeedOf(s)' = View(p, TRUE, l, x, y, o)
    BY <1>1, <1>3, FeedRead DEF FeedFrom
  <2> HIDE DEF x, y, l, o
  <2>3. /\ FeedOf(s) = [state |-> "open", sent |-> l, from |-> x, upto |-> y, skips |-> o]
        /\ FeedOf(s)' = [state |-> "closing", sent |-> l, from |-> x, upto |-> y, skips |-> 0]
    BY <1>4, <1>7, <2>1, <2>2 DEF View, StateOf
  <2>4. Feeds[s] = FeedOf(s)
    BY FeedRead
  <2>5. Feed!Open(s) /\ FeedOf(s)' =
          Feed!Window("closing", Feeds[s].sent, Feeds[s].from, Feeds[s].upto, 0)
    BY <2>3, <2>4 DEF Feed!Open, Feed!Window
  <2>6. Feed!Becomes(s, FeedOf(s)')
    BY <1>1, <1>5, FeedBecomes
  <2>7. Feed!Close(s)
    BY <2>5, <2>6 DEF Feed!Close
  <2> QED
    BY <2>7
<1> QED
  BY <1>6, <1>7

(* A heartbeat is no event; one that does not fit the queue closes.        *)
LEMMA HeartbeatCloses ==
  ASSUME Inv, Ended, NEW s \in Subs, Heartbeat(s)
  PROVE  \/ UNCHANGED <<published, Feeds>>
         \/ Feed!Close(s)
<1> DEFINE l == last[s]
           o == overflows[s]
           p == phase[s]
<1>1. /\ Alive(s) /\ queue[s] = <<>> /\ ~closed[s] /\ p # "none" /\ p # "gone"
      /\ phase' = phase /\ last' = last /\ published' = published
  BY DEF Heartbeat, Alive, Ended, channel
<1>2. PICK q, b, c :
        /\ Sets(s, q, b, c, o) /\ Exact(q, b, c, o)
        /\ q = IF c THEN <<>> ELSE <<Small>>
  BY Beating DEF Inv
<1>3. /\ \A u \in Subs : u # s => FeedOf(u)' = FeedOf(u)
      /\ FeedOf(s)' = FeedFrom(p, q, c, l, o)
  BY <1>1, <1>2, OthersStay
<1>4. l \in Nat /\ q \in {<<>>, <<Small>>} /\ c \in BOOLEAN
  BY <1>2, FeedTypes, SseAssumption DEF Exact
<1>5. FeedOf(s) = FeedFrom(p, <<>>, closed[s], l, o)
  BY <1>1, FeedRead
<1>6. Feeds[s] = FeedOf(s)
  BY FeedRead
<1> DEFINE d == closed[s]
<1> HIDE DEF l, o, p, d
<1>7. /\ FeedOf(s) = View(p, d, l, l, l, o)
      /\ FeedOf(s)' = View(p, c, l, l, l, o)
  BY <1>3, <1>4, <1>5, FeedIdle DEF d
<1>8. CASE c
  <2>1. /\ FeedOf(s) = [state |-> "open", sent |-> l, from |-> l, upto |-> l, skips |-> o]
        /\ FeedOf(s)' = [state |-> "closing", sent |-> l, from |-> l, upto |-> l, skips |-> 0]
    BY <1>1, <1>7, <1>8 DEF View, StateOf, d
  <2>2. Feed!Open(s) /\ FeedOf(s)' =
          Feed!Window("closing", Feeds[s].sent, Feeds[s].from, Feeds[s].upto, 0)
    BY <1>6, <2>1 DEF Feed!Open, Feed!Window
  <2>3. Feed!Becomes(s, FeedOf(s)')
    BY <1>1, <1>3, FeedBecomes
  <2> QED
    BY <2>2, <2>3 DEF Feed!Close
<1>9. CASE ~c
  <2>1. d = c
    BY <1>1, <1>4, <1>9, FeedTypes DEF d
  <2>2. FeedOf(s)' = FeedOf(s)
    BY <1>7, <2>1
  <2> QED
    BY <1>1, <1>3, <2>2, FeedsStay
<1> QED
  BY <1>8, <1>9

(* A step that only moves a connection within its phases, or that leaves   *)
(* the subscribers alone.                                                  *)
LEMMA FeedsKept ==
  ASSUME queue' = queue, closed' = closed, last' = last, overflows' = overflows,
         \A s \in Subs : \/ phase'[s] = phase[s]
                         \/ {phase[s], phase'[s]} \subseteq Phases \ {"none", "gone"}
  PROVE  Feeds' = Feeds
<1>1. ASSUME NEW s \in Subs
      PROVE  FeedOf(s)' = FeedOf(s)
  <2>1. StateOf(phase'[s], closed[s]) = StateOf(phase[s], closed[s])
    BY DEF StateOf
  <2> QED
    BY <2>1, FeedStays
<1> QED
  BY <1>1, FeedsStay

(* Every step of the channel is a step of the feed, or leaves it alone.    *)
LEMMA FeedMoves ==
  ASSUME Inv, Ended, [Next]_vars
  PROVE  Feed!Next \/ UNCHANGED <<published, Feeds>>
<1>0. phase \in [Subs -> Phases]
  BY FeedTypes
<1>1. ASSUME UNCHANGED <<queue, closed, last, overflows, phase, published>>
      PROVE  UNCHANGED <<published, Feeds>>
  BY <1>1, FeedsKept
<1>2. ASSUME NEW s \in Subs, Handling(s)
      PROVE  Feed!Next \/ UNCHANGED <<published, Feeds>>
  <2>1. CASE Subscribe(s)
    BY <2>1, SubscribeJoins DEF Feed!Next
  <2>2. CASE OnDetached(s)
    BY <2>2, DetachLeaves DEF Feed!Next
  <2>3. CASE PullWrote(s)
    BY <2>3, PullSends DEF Feed!Next
  <2>4. CASE \/ AddToPump(s) \/ NotifyPump(s) \/ OnAttached(s)
             \/ PullIdle(s) \/ Woken(s) \/ Writable(s)
    <3>1. /\ queue' = queue /\ closed' = closed /\ last' = last
          /\ overflows' = overflows /\ published' = published
          /\ phase[s] \in Phases \ {"none", "gone"}
          /\ \E ph \in Phases \ {"none", "gone"} : phase' = [phase EXCEPT ![s] = ph]
      BY <1>0, <2>4 DEF AddToPump, NotifyPump, OnAttached, PullIdle, Woken,
                  Writable, subscriber, channel, Phases
    <3>2. \A u \in Subs : \/ phase'[u] = phase[u]
                          \/ {phase[u], phase'[u]} \subseteq Phases \ {"none", "gone"}
      BY <1>0, <3>1
    <3> QED
      BY <3>1, <3>2, FeedsKept
  <2> QED
    BY <1>2, <2>1, <2>2, <2>3, <2>4 DEF Handling
<1>3. ASSUME NEW t \in Callers, NEW z \in Sizes, BeginPublish(t, z)
      PROVE  Feed!Next
  <2>1. /\ lock = Nobody /\ published' = published + 1
        /\ queue' = queue /\ closed' = closed /\ last' = last
        /\ overflows' = overflows /\ phase' = phase
    BY <1>3 DEF BeginPublish, Begin, subscriber
  <2>2. Feed!CaughtUp
    BY <2>1, FreeIsCaughtUp
  <2>3. Feeds' = Feeds
    BY <2>1, FeedsKept
  <2> QED
    BY <2>1, <2>2, <2>3 DEF Feed!Publish, Feed!Next
<1>4. ASSUME NEW t \in Callers, PublishTo(t)
      PROVE  Feed!Next \/ UNCHANGED <<published, Feeds>>
  BY <1>4, PublishOffers DEF Feed!Next
<1>5. ASSUME NEW t \in Callers, BeginClose(t)
      PROVE  Feed!Next \/ UNCHANGED <<published, Feeds>>
  BY <1>5, CloseCloses DEF Feed!Next
<1>6. ASSUME NEW s \in Subs, Heartbeat(s)
      PROVE  Feed!Next \/ UNCHANGED <<published, Feeds>>
  BY <1>6, HeartbeatCloses DEF Feed!Next
<1>7. CASE Next
  <2>1. ASSUME NEW t \in Callers,
               BeginCloseAll(t) \/ Shutdown(t) \/ CallNotify(t) \/ End(t)
        PROVE  UNCHANGED <<queue, closed, last, overflows, phase, published>>
    BY <2>1 DEF BeginCloseAll, Shutdown, CallNotify, End, subscriber, channel
  <2>2. ASSUME RefuseSubscriber \/ PumpWait \/ PumpSignalled \/ BeginTick
                 \/ EndTick \/ PumpNotify
        PROVE  UNCHANGED <<queue, closed, last, overflows, phase, published>>
    BY <2>2 DEF RefuseSubscriber, PumpWait, PumpSignalled, BeginTick, EndTick,
                PumpNotify, subscriber, channel
  <2>3. ASSUME NEW s \in Subs, DropDead(s) \/ NoHeartbeat(s)
        PROVE  UNCHANGED <<queue, closed, last, overflows, phase, published>>
    BY <2>3 DEF DropDead, NoHeartbeat, subscriber, channel
  <2> QED
    BY <1>1, <1>2, <1>3, <1>4, <1>5, <1>6, <1>7, <2>1, <2>2, <2>3, Stepping
<1>8. CASE UNCHANGED vars
  BY <1>1, <1>8 DEF vars, subscriber, channel
<1> QED
  BY <1>7, <1>8

(* At first nobody has joined. *)
LEMMA FeedBegins == Init => Feed!Init /\ Ended
<1> SUFFICES ASSUME Init PROVE Feed!Init /\ Ended
  OBVIOUS
<1>1. ASSUME NEW s \in Subs
      PROVE  FeedOf(s) = Feed!Fresh("out", 0)
  <2>1. /\ phase[s] = "none" /\ queue[s] = <<>> /\ closed[s] = FALSE /\ last[s] = 0
        /\ overflows[s] = 0
    BY DEF Init
  <2> DEFINE p == phase[s]
             w == queue[s]
             c == closed[s]
             l == last[s]
             o == overflows[s]
  <2>2. w \in {<<>>, <<Small>>} /\ l \in Nat
    BY <2>1
  <2>3. FeedOf(s) = FeedFrom(p, w, c, l, o)
    BY FeedRead
  <2> HIDE DEF p, w, c, l, o
  <2>4. FeedOf(s) = View(p, c, l, l, l, o)
    BY <2>2, <2>3, FeedIdle
  <2> QED
    BY <2>1, <2>4 DEF p, c, l, o, View, StateOf, Feed!Fresh, Feed!Window
<1>2. Feeds = [s \in Subs |-> Feed!Fresh("out", 0)] /\ published = 0
  BY <1>1 DEF Feeds, Init
<1>3. Ended
  BY DEF Init, Ended
<1> QED
  BY <1>2, <1>3 DEF Feed!Init

(* The channel implements the feed: whatever its threads, its pump and the *)
(* reactors do, a subscriber is offered each event after it joined once    *)
(* and in order, loses only the oldest it waits for and fewer than         *)
(* kOverflowsBeforeDisconnect times between two pulls, and is offered      *)
(* nothing once it is closed.                                              *)
THEOREM ChannelIsAFeed == Spec => ImplementsEventFeed
<1>1. Init => Feed!Init /\ Ended
  BY FeedBegins
<1>2. Inv /\ Ended /\ [Next]_vars => Ended'
  BY EndedKept
<1>3. Inv /\ Ended /\ [Next]_vars => [Feed!Next]_<<published, Feeds>>
  BY FeedMoves
<1> QED
  BY <1>1, <1>2, <1>3, Invariance, PTL DEF Spec, ImplementsEventFeed, Feed!Spec

-----------------------------------------------------------------------------
(* The channel keeps the source's side of StreamHost *)

Pullable(s) == queue[s] # <<>> \/ closed[s]

(* Nothing happens to stream u that its host could see. *)
Untouched(u) ==
  /\ phase'[u] = phase[u]
  /\ Pullable(u)' <=> Pullable(u)
  /\ notified'[u] = notified[u]
  /\ UsesNotifier(u)' <=> UsesNotifier(u)

(* The mapping to the contract, stream by stream. *)
LEMMA HostRead ==
  ASSUME NEW s \in Subs
  PROVE  /\ Hosts[s] = HostOf(s)
         /\ s \in Waiting <=> phase[s] \in Attached /\ Pullable(s)
         /\ s \in Ringing <=> phase[s] \in Attached /\ (notified[s] \/ UsesNotifier(s))
BY DEF Hosts, Waiting, Ringing, Pullable

(* The host of a stream is read off the phase of its connection. *)
LEMMA HostPhase ==
  ASSUME NEW s \in Subs
  PROVE  /\ phase[s] \in {"none", "created", "added", "held"} => HostOf(s) = "unused"
         /\ phase[s] = "driving" => HostOf(s) = "running"
         /\ phase[s] = "parked" => HostOf(s) = "parked"
         /\ phase[s] = "blocked" => HostOf(s) = "blocked"
         /\ phase[s] = "gone" => HostOf(s) = "over"
BY DEF HostOf

(* The same after a step. *)
LEMMA HostPhaseNext ==
  ASSUME NEW s \in Subs
  PROVE  /\ phase'[s] \in {"none", "created", "added", "held"} => HostOf(s)' = "unused"
         /\ phase'[s] = "driving" => HostOf(s)' = "running"
         /\ phase'[s] = "parked" => HostOf(s)' = "parked"
         /\ phase'[s] = "blocked" => HostOf(s)' = "blocked"
         /\ phase'[s] = "gone" => HostOf(s)' = "over"
BY DEF HostOf

(* A connection that keeps its phase keeps its host. *)
LEMMA HostSame ==
  ASSUME NEW s \in Subs, phase'[s] = phase[s]
  PROVE  HostOf(s)' = HostOf(s)
BY DEF HostOf

(* An attached stream is hosted. *)
LEMMA AttachedIsHosted ==
  ASSUME NEW s \in Subs, phase[s] \in Attached
  PROVE  s \in Host!Hosted
BY HostRead, HostPhase DEF Attached, Host!Hosted

(* Only stream s is touched. *)
LEMMA OnlyMoves ==
  ASSUME NEW s \in Subs, NEW h, HostOf(s)' = h,
         \A u \in Subs : u # s => Untouched(u),
         h = "parked" => s \notin Waiting',
         h = "over" => s \notin Waiting' /\ s \notin Ringing'
  PROVE  Host!Moves(s, h)
<1>1. ASSUME NEW u \in Subs, u # s
      PROVE  /\ HostOf(u)' = HostOf(u)
             /\ u \in Waiting' <=> u \in Waiting
             /\ u \in Ringing' <=> u \in Ringing
  BY <1>1, HostSame DEF Untouched, Waiting, Ringing, Pullable
<1>2. Hosts' = [Hosts EXCEPT ![s] = h]
  BY <1>1 DEF Hosts
<1>3. /\ Waiting \subseteq Subs /\ Ringing \subseteq Subs
      /\ Waiting' \subseteq Subs /\ Ringing' \subseteq Subs
  BY DEF Waiting, Ringing
<1>4. /\ Host!Others(Waiting', s) = Host!Others(Waiting, s)
      /\ Host!Others(Ringing', s) = Host!Others(Ringing, s)
  BY <1>1, <1>3 DEF Host!Others
<1> QED
  BY <1>2, <1>4 DEF Host!Moves

Quiet == UNCHANGED <<Hosts, Waiting, Ringing>>

(* A step that touches no stream is not one of the contract. *)
LEMMA NobodyTouched ==
  ASSUME \A u \in Subs : Untouched(u)
  PROVE  Quiet
<1>1. ASSUME NEW u \in Subs
      PROVE  /\ HostOf(u)' = HostOf(u)
             /\ u \in Waiting' <=> u \in Waiting
             /\ u \in Ringing' <=> u \in Ringing
  BY HostSame DEF Untouched, Waiting, Ringing, Pullable
<1>2. Hosts' = Hosts
  BY <1>1 DEF Hosts
<1>3. /\ Waiting \subseteq Subs /\ Ringing \subseteq Subs
      /\ Waiting' \subseteq Subs /\ Ringing' \subseteq Subs
  BY DEF Waiting, Ringing
<1> QED
  BY <1>1, <1>2, <1>3 DEF Quiet

(* A step that leaves every notifier in the hands it is in. *)
LEMMA SameUse ==
  ASSUME UNCHANGED <<target, beat>>
  PROVE  \A u \in Subs : UsesNotifier(u)' <=> UsesNotifier(u)
BY DEF UsesNotifier

-----------------------------------------------------------------------------
(* What the reactor does with one stream. *)
LEMMA HandlingHost ==
  ASSUME Inv, NEW s \in Subs, Handling(s)
  PROVE  Host!Next \/ Quiet
<1>0. /\ phase \in [Subs -> Phases] /\ queue \in [Subs -> Seq(Frames)]
      /\ closed \in [Subs -> BOOLEAN] /\ notified \in [Subs -> BOOLEAN]
  BY DEF Inv, TypeOK
<1>1. UNCHANGED <<target, beat>>
  BY HandlingAlone
<1>2. \A u \in Subs : UsesNotifier(u)' <=> UsesNotifier(u)
  BY <1>1, SameUse
<1>3. \A u \in Subs : u # s =>
        /\ phase'[u] = phase[u] /\ queue'[u] = queue[u]
        /\ closed'[u] = closed[u] /\ notified'[u] = notified[u]
  BY <1>0 DEF Handling, Subscribe, AddToPump, NotifyPump, OnAttached, OnDetached,
       PullWrote, PullIdle, Woken, Writable, subscriber
<1>4. \A u \in Subs : u # s => Untouched(u)
  BY <1>2, <1>3 DEF Untouched, Pullable
<1>5. CASE Subscribe(s) \/ AddToPump(s) \/ NotifyPump(s)
  <2>1. /\ phase[s] \in {"none", "created", "added"}
        /\ phase'[s] \in {"created", "added", "held"}
    BY <1>0, <1>5 DEF Subscribe, AddToPump, NotifyPump
  <2>2. HostOf(s)' = HostOf(s)
    BY <2>1, HostPhase, HostPhaseNext
  <2>3. s \notin Waiting /\ s \notin Ringing /\ s \notin Waiting' /\ s \notin Ringing'
    BY <2>1 DEF Waiting, Ringing, Attached
  <2>4. ASSUME NEW u \in Subs
        PROVE  /\ HostOf(u)' = HostOf(u)
               /\ u \in Waiting' <=> u \in Waiting
               /\ u \in Ringing' <=> u \in Ringing
    <3>1. CASE u = s
      BY <2>2, <2>3, <3>1
    <3>2. CASE u # s
      BY <1>4, <3>2, HostSame DEF Untouched, Waiting, Ringing, Pullable
    <3> QED
      BY <3>1, <3>2
  <2>5. Hosts' = Hosts
    BY <2>4 DEF Hosts
  <2>6. /\ Waiting \subseteq Subs /\ Ringing \subseteq Subs
        /\ Waiting' \subseteq Subs /\ Ringing' \subseteq Subs
    BY DEF Waiting, Ringing
  <2> QED
    BY <2>4, <2>5, <2>6 DEF Quiet
<1>6. CASE OnAttached(s)
  <2>1. phase[s] = "held" /\ phase'[s] = "driving"
    BY <1>0, <1>6 DEF OnAttached
  <2>2. Hosts[s] = "unused" /\ HostOf(s)' = "running"
    BY <2>1, HostRead, HostPhase, HostPhaseNext
  <2>3. Host!Moves(s, "running")
    <3> DEFINE h == HostOf(s)'
    <3>1. h = "running"
      BY <2>2
    <3> HIDE DEF h
    <3>2. Host!Moves(s, h)
      BY <1>4, <3>1, OnlyMoves DEF h
    <3> QED
      BY <3>1, <3>2
  <2> QED
    BY <2>2, <2>3 DEF Host!Attach, Host!Next
<1>7. CASE OnDetached(s)
  <2>1. phase[s] \in Attached \cup {"held"} /\ phase'[s] = "gone"
    BY <1>0, <1>7 DEF OnDetached
  <2>2. PICK h \in {"over"} : h = HostOf(s)'
    BY <2>1, HostPhaseNext
  <2>3. s \notin Waiting' /\ s \notin Ringing'
    BY <2>1 DEF Waiting, Ringing, Attached
  <2>4. Host!Moves(s, h)
    BY <1>4, <2>2, <2>3, OnlyMoves
  <2>5. CASE phase[s] = "held"
    BY <2>4, <2>5, HostRead, HostPhase DEF Host!Attach, Host!Next
  <2>6. CASE phase[s] \in Attached
    BY <2>4, <2>6, AttachedIsHosted DEF Host!Leave, Host!Next
  <2> QED
    BY <2>1, <2>5, <2>6
<1>8. CASE PullWrote(s) \/ PullIdle(s) \/ Woken(s) \/ Writable(s)
  <2>1. /\ phase[s] \in Attached /\ phase'[s] \in Attached
        /\ phase[s] = "parked" => notified[s]
        /\ phase'[s] = "parked" => queue'[s] = <<>> /\ ~closed'[s]
        /\ Pullable(s)' => Pullable(s)
    BY <1>0, <1>8 DEF PullWrote, PullIdle, Woken, Writable, Attached, subscriber, Pullable
  <2>2. PICK h \in {"running", "parked", "blocked"} :
          h = HostOf(s)' /\ (h = "parked" => phase'[s] = "parked")
    BY <2>1, HostPhaseNext DEF Attached
  <2>3. h = "parked" => s \notin Waiting'
    BY <2>1, <2>2 DEF Waiting
  <2>4. Host!Moves(s, h)
    BY <1>4, <2>2, <2>3, OnlyMoves
  <2>5. s \in Host!Hosted
    BY <2>1, AttachedIsHosted
  <2>6. Hosts[s] = "parked" => s \in Ringing
    BY <2>1, HostRead, HostPhase DEF Attached
  <2>7. s \in Waiting' => s \in Waiting
    BY <2>1 DEF Waiting, Pullable
  <2>8. Host!Run(s)
    BY <2>2, <2>4, <2>5, <2>6, <2>7 DEF Host!Run
  <2> QED
    BY <2>8 DEF Host!Next
<1> QED
  BY <1>5, <1>6, <1>7, <1>8 DEF Handling

(* Something is put before stream s, or it is told to end; if it is        *)
(* attached, somebody is about to notify it.                               *)
LEMMA Produces ==
  ASSUME NEW s \in Subs, phase' = phase, notified' = notified,
         \A u \in Subs : u # s => Untouched(u),
         UsesNotifier(s) => UsesNotifier(s)',
         phase[s] \in Attached => Pullable(s)' /\ UsesNotifier(s)'
  PROVE  Host!Next \/ Quiet
<1>1. Hosts' = Hosts
  BY HostSame DEF Hosts
<1>2. ASSUME NEW u \in Subs, u # s
      PROVE  (u \in Waiting' <=> u \in Waiting) /\ (u \in Ringing' <=> u \in Ringing)
  BY <1>2 DEF Untouched, Waiting, Ringing, Pullable
<1>3. /\ Waiting \subseteq Subs /\ Ringing \subseteq Subs
      /\ Waiting' \subseteq Subs /\ Ringing' \subseteq Subs
  BY DEF Waiting, Ringing
<1>4. CASE phase[s] \in Attached
  <2>1. s \in Waiting' /\ s \in Ringing'
    BY <1>4 DEF Waiting, Ringing, Pullable
  <2>2. Waiting' = Waiting \cup {s} /\ Ringing' = Ringing \cup {s}
    BY <1>2, <1>3, <2>1
  <2> QED
    BY <1>1, <1>4, <2>2, AttachedIsHosted DEF Host!Produce, Host!Next
<1>5. CASE phase[s] \notin Attached
  <2>1. s \notin Waiting /\ s \notin Ringing /\ s \notin Waiting' /\ s \notin Ringing'
    BY <1>5 DEF Waiting, Ringing
  <2>2. Waiting' = Waiting /\ Ringing' = Ringing
    BY <1>2, <1>3, <2>1
  <2> QED
    BY <1>1, <2>2 DEF Quiet
<1> QED
  BY <1>4, <1>5

(* A caller has done with the mutex of s: it is about to notify s if it    *)
(* has copied a notifier, and the use of the others is as before.          *)
LEMMA ThenUses ==
  ASSUME Inv, NEW t \in Callers, NEW s \in Subs, NEW copied, cpc[t] = "each",
         Then(t, s, copied), beat' = beat
  PROVE  /\ \A u \in Subs : u # s => (UsesNotifier(u)' <=> UsesNotifier(u))
         /\ UsesNotifier(s) => UsesNotifier(s)'
         /\ copied => UsesNotifier(s)'
         /\ ~copied => (UsesNotifier(s)' <=> UsesNotifier(s))
<1>1. target \in [Callers -> Subs \cup {Nobody}] /\ target[t] = Nobody /\ Nobody \notin Subs
  BY SseAssumption DEF Inv, TypeOK, Locked
<1>2. CASE copied
  <2>1. target' = [target EXCEPT ![t] = s]
    BY <1>2 DEF Then
  <2>2. target'[t] = s /\ \A v \in Callers : v # t => target'[v] = target[v]
    BY <1>1, <2>1
  <2> QED
    BY <1>1, <1>2, <2>2 DEF UsesNotifier
<1>3. CASE ~copied
  <2>1. target' = target
    BY <1>3 DEF Then
  <2> QED
    BY <1>3, <2>1 DEF UsesNotifier
<1> QED
  BY <1>2, <1>3

(* enqueue() rings for what it queues, and for a stream it closes; one that *)
(* is closed already has been notified.                                    *)
LEMMA PublishHost ==
  ASSUME Inv, NEW t \in Callers, PublishTo(t)
  PROVE  Host!Next \/ Quiet
<1>0. TypeOK /\ Counted /\ Noticed
  BY DEF Inv
<1>1. /\ todo[t] \in Seq(Subs) /\ todo[t] # <<>> /\ frame[t] \in Frames
      /\ cpc[t] = "each" /\ phase' = phase /\ notified' = notified /\ beat' = beat
      /\ queue \in [Subs -> Seq(Frames)] /\ closed \in [Subs -> BOOLEAN]
  BY <1>0 DEF PublishTo, TypeOK, pumping
<1>2. PICK s \in Subs : s = Head(todo[t])
  BY <1>1, HeadTailProperties, EmptySeq
<1>3. PICK f \in Frames : f = frame[t]
  BY <1>1
<1>4. Enqueue(s, f) /\ Then(t, s, notifier[s] /\ ~closed[s])
  BY <1>2, <1>3 DEF PublishTo
<1>5. PICK q, b, c, o : EnqueueMakes(s, f, q, b, c, o)
  BY <1>0, <1>4, Enqueuing
<1>6. /\ queue' = [queue EXCEPT ![s] = q] /\ closed' = [closed EXCEPT ![s] = c]
      /\ c \in BOOLEAN /\ q \in Seq(Frames)
  BY <1>5 DEF EnqueueMakes, Sets, Exact
<1>7. PICK copied \in BOOLEAN : copied <=> notifier[s] /\ ~closed[s]
  OBVIOUS
<1>8. Then(t, s, copied)
  BY <1>4, <1>7 DEF Then
<1>9. /\ \A u \in Subs : u # s => (UsesNotifier(u)' <=> UsesNotifier(u))
      /\ UsesNotifier(s) => UsesNotifier(s)'
      /\ copied => UsesNotifier(s)'
      /\ ~copied => (UsesNotifier(s)' <=> UsesNotifier(s))
  BY <1>1, <1>8, ThenUses
<1>10. \A u \in Subs : u # s => Untouched(u)
  BY <1>1, <1>6, <1>9 DEF Untouched, Pullable
<1>11. CASE closed[s]
  <2>1. c /\ q = queue[s] /\ ~copied
    BY <1>5, <1>7, <1>11 DEF EnqueueMakes
  <2>2. Untouched(s)
    BY <1>1, <1>6, <1>9, <1>11, <2>1 DEF Untouched, Pullable
  <2> QED
    BY <1>10, <2>2, NobodyTouched
<1>12. CASE ~closed[s]
  <2>1. c \/ q # <<>>
    <3>1. CASE ~c
      <4>1. PICK k : Pushes(queue[s], q, k, f)
        BY <1>5, <3>1 DEF EnqueueMakes
      <4>2. k \in 0..Len(queue[s]) /\ Len(q) = Len(queue[s]) - k + 1 /\ Len(queue[s]) \in Nat
        BY <1>1, <4>1 DEF Pushes
      <4>3. Len(q) # 0
        BY <4>2
      <4> QED
        BY <4>3
    <3> QED
      BY <3>1
  <2>2. Pullable(s)'
    BY <1>1, <1>6, <2>1 DEF Pullable
  <2>3. phase[s] \in Attached => copied
    BY <1>0, <1>7, <1>12 DEF Noticed
  <2> QED
    BY <1>1, <1>9, <1>10, <2>2, <2>3, Produces
<1> QED
  BY <1>11, <1>12

(* begin_close() rings for every stream that is attached. *)
LEMMA CloseHost ==
  ASSUME Inv, NEW t \in Callers, BeginClose(t)
  PROVE  Host!Next \/ Quiet
<1>0. TypeOK /\ Noticed
  BY DEF Inv
<1>1. /\ todo[t] \in Seq(Subs) /\ todo[t] # <<>> /\ queue' = queue
      /\ cpc[t] = "each" /\ phase' = phase /\ notified' = notified /\ beat' = beat
      /\ closed \in [Subs -> BOOLEAN]
  BY <1>0 DEF BeginClose, TypeOK, pumping
<1>2. PICK s \in Subs : s = Head(todo[t])
  BY <1>1, HeadTailProperties, EmptySeq
<1>3. closed' = [closed EXCEPT ![s] = TRUE] /\ Then(t, s, notifier[s])
  BY <1>2 DEF BeginClose
<1>4. /\ \A u \in Subs : u # s => (UsesNotifier(u)' <=> UsesNotifier(u))
      /\ UsesNotifier(s) => UsesNotifier(s)'
      /\ notifier[s] => UsesNotifier(s)'
  BY <1>1, <1>3, ThenUses
<1>5. \A u \in Subs : u # s => Untouched(u)
  BY <1>1, <1>3, <1>4 DEF Untouched, Pullable
<1>6. Pullable(s)'
  BY <1>1, <1>3 DEF Pullable
<1> QED
  BY <1>0, <1>1, <1>4, <1>5, <1>6, Produces DEF Noticed

(* A heartbeat rings, and so does one that closes for want of room. *)
LEMMA HeartbeatHost ==
  ASSUME Inv, NEW s \in Subs, Heartbeat(s)
  PROVE  Host!Next \/ Quiet
<1>0. TypeOK /\ Counted /\ Noticed /\ Locked
  BY DEF Inv
<1>1. /\ phase' = phase /\ notified' = notified /\ target' = target
      /\ queue \in [Subs -> Seq(Frames)] /\ closed \in [Subs -> BOOLEAN]
      /\ beat = Nobody /\ Nobody \notin Subs
  BY <1>0, SseAssumption DEF Heartbeat, TypeOK, Locked, caller
<1>2. PICK q, b, c :
        /\ Sets(s, q, b, c, overflows[s]) /\ Exact(q, b, c, overflows[s])
        /\ q = IF c THEN <<>> ELSE <<Small>>
  BY <1>0, Beating
<1>3. /\ queue' = [queue EXCEPT ![s] = q] /\ closed' = [closed EXCEPT ![s] = c]
      /\ c \in BOOLEAN /\ (c \/ q # <<>>)
  BY <1>2 DEF Sets, Exact
<1>4. IF notifier[s] THEN beat' = s ELSE beat' = beat
  BY DEF Heartbeat
<1>5. /\ \A u \in Subs : u # s => (UsesNotifier(u)' <=> UsesNotifier(u))
      /\ UsesNotifier(s) => UsesNotifier(s)'
      /\ notifier[s] => UsesNotifier(s)'
  BY <1>1, <1>4 DEF UsesNotifier
<1>6. \A u \in Subs : u # s => Untouched(u)
  BY <1>1, <1>3, <1>5 DEF Untouched, Pullable
<1>7. Pullable(s)'
  BY <1>1, <1>3 DEF Pullable
<1> QED
  BY <1>0, <1>1, <1>5, <1>6, <1>7, Produces DEF Noticed

(* A notification arrives: what was on its way is there. *)
LEMMA NotifyHost ==
  ASSUME Inv, NEW s \in Subs, Notify(s), UsesNotifier(s),
         phase' = phase, queue' = queue, closed' = closed,
         \A u \in Subs : u # s => (UsesNotifier(u)' <=> UsesNotifier(u))
  PROVE  Quiet
<1>0. notified \in [Subs -> BOOLEAN] /\ notified' = [notified EXCEPT ![s] = phase[s] \in Attached]
  BY DEF Inv, TypeOK, Notify
<1>1. Hosts' = Hosts
  BY HostSame DEF Hosts
<1>2. Waiting' = Waiting
  BY DEF Waiting
<1>3. ASSUME NEW u \in Subs
      PROVE  u \in Ringing' <=> u \in Ringing
  BY <1>0 DEF Ringing
<1>4. Ringing \subseteq Subs /\ Ringing' \subseteq Subs
  BY DEF Ringing
<1>5. Ringing' = Ringing
  BY <1>3, <1>4
<1> QED
  BY <1>1, <1>2, <1>5 DEF Quiet

(* Every step of the channel is one the contract allows, or one that the   *)
(* host does not see.                                                      *)
LEMMA SourceStep ==
  ASSUME Inv, [Next]_vars
  PROVE  Host!Next \/ Quiet
<1>0. TypeOK /\ Locked
  BY DEF Inv
<1>1. ASSUME UNCHANGED <<queue, closed, phase, notified, target, beat>>
      PROVE  Quiet
  BY <1>1, SameUse, NobodyTouched DEF Untouched, Pullable
<1>2. ASSUME NEW t \in Callers, CallNotify(t)
      PROVE  Quiet
  <2>1. /\ phase' = phase /\ queue' = queue /\ closed' = closed /\ beat' = beat
        /\ target' = [target EXCEPT ![t] = Nobody]
        /\ target[t] \in Subs /\ Notify(target[t])
        /\ target \in [Callers -> Subs \cup {Nobody}] /\ Nobody \notin Subs
    BY <1>0, <1>2, SseAssumption DEF CallNotify, Locked, TypeOK, subscriber, pumping
  <2>2. PICK s \in Subs : s = target[t]
    BY <2>1
  <2>3. UsesNotifier(s)
    BY <2>2 DEF UsesNotifier
  <2>4. \A u \in Subs : u # s => (UsesNotifier(u)' <=> UsesNotifier(u))
    BY <2>1, <2>2 DEF UsesNotifier
  <2> QED
    BY <2>1, <2>2, <2>3, <2>4, NotifyHost
<1>3. ASSUME PumpNotify
      PROVE  Quiet
  <2>1. /\ phase' = phase /\ queue' = queue /\ closed' = closed
        /\ target' = target /\ beat' = Nobody /\ beat \in Subs /\ Notify(beat)
        /\ Nobody \notin Subs
    BY <1>0, <1>3, SseAssumption DEF PumpNotify, Locked, subscriber, caller
  <2>2. PICK s \in Subs : s = beat
    BY <2>1
  <2>3. UsesNotifier(s)
    BY <2>2 DEF UsesNotifier
  <2>4. \A u \in Subs : u # s => (UsesNotifier(u)' <=> UsesNotifier(u))
    BY <2>1, <2>2 DEF UsesNotifier
  <2> QED
    BY <2>1, <2>2, <2>3, <2>4, NotifyHost
<1>4. CASE Next
  <2>1. ASSUME NEW t \in Callers,
               BeginCloseAll(t) \/ Shutdown(t) \/ End(t) \/ \E z \in Sizes : BeginPublish(t, z)
        PROVE  Quiet
    <3>1. UNCHANGED <<queue, closed, phase, notified, target, beat>>
      BY <2>1 DEF BeginCloseAll, Shutdown, End, BeginPublish, subscriber, pumping
    <3> QED
      BY <1>1, <3>1
  <2>2. ASSUME RefuseSubscriber \/ PumpWait \/ PumpSignalled \/ BeginTick \/ EndTick
        PROVE  Quiet
    <3>1. UNCHANGED <<queue, closed, phase, notified, target, beat>>
      BY <2>2 DEF RefuseSubscriber, PumpWait, PumpSignalled, BeginTick, EndTick,
                  subscriber, caller, pumping
    <3> QED
      BY <1>1, <3>1
  <2>3. ASSUME NEW s \in Subs, DropDead(s) \/ NoHeartbeat(s)
        PROVE  Quiet
    <3>1. UNCHANGED <<queue, closed, phase, notified, target, beat>>
      BY <2>3 DEF DropDead, NoHeartbeat, subscriber, caller
    <3> QED
      BY <1>1, <3>1
  <2> QED
    BY <1>2, <1>3, <1>4, <2>1, <2>2, <2>3, Stepping, HandlingHost, PublishHost,
       CloseHost, HeartbeatHost
<1>5. CASE UNCHANGED vars
  BY <1>1, <1>5 DEF vars, subscriber, caller, pumping
<1> QED
  BY <1>4, <1>5

(* The channel keeps the source's side of the contract with the reactor,   *)
(* for any number of subscribers and publishers and any sizes: together    *)
(* with Reactor's HostsStreams, no frame that is queued for a parked       *)
(* stream waits without a wakeup, on either side of the interface.         *)
THEOREM ChannelIsASource == Spec => FeedsStreams
<1>1. Init => Host!Init
  <2> SUFFICES ASSUME Init PROVE Host!Init
    OBVIOUS
  <2>1. ASSUME NEW s \in Subs
        PROVE  HostOf(s) = "unused" /\ s \notin Waiting /\ s \notin Ringing
    <3>1. phase[s] = "none"
      BY DEF Init
    <3> QED
      BY <3>1, HostPhase DEF Waiting, Ringing, Attached
  <2>2. Hosts = [s \in Subs |-> "unused"]
    BY <2>1 DEF Hosts
  <2>3. Waiting = {} /\ Ringing = {}
    BY <2>1 DEF Waiting, Ringing
  <2> QED
    BY <2>2, <2>3 DEF Host!Init
<1>2. Inv /\ [Next]_vars => [Host!Next]_<<Hosts, Waiting, Ringing, TRUE>>
  BY SourceStep DEF Quiet
<1> QED
  BY <1>1, <1>2, Invariance, PTL DEF Spec, FeedsStreams, Host!Spec
=============================================================================
