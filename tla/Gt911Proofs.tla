---------------------------- MODULE Gt911Proofs ----------------------------
(***************************************************************************)
(* Proofs about Gt911Input, for every queue depth, number of client        *)
(* threads and set of frames: types, the agreement of semaphore and queue, *)
(* what pollers see, and the stream of samples.                            *)
(***************************************************************************)
EXTENDS Gt911Input, FiniteSetTheorems, SequenceTheorems, TLAPS

-----------------------------------------------------------------------------
(* The smallest of a set of naturals, and of two integers.                 *)

LEMMA MinNat ==
  ASSUME NEW T \in SUBSET Nat, T # {}
  PROVE  Min(T) \in T
<1>1. PICK x \in T : \A y \in T : ~ (<<y, x>> \in OpToRel(<, Nat))
  BY NatLessThanWellFounded, WFMin, Zenon
<1>2. \A y \in T : ~ (y < x)
  BY <1>1 DEF OpToRel
<1>3. \A y \in T : x <= y
  BY <1>2
<1>4. QED
  BY <1>3 DEF Min

LEMMA MinTwo ==
  ASSUME NEW a \in Int, NEW b \in Int
  PROVE  Min({a, b}) = IF a <= b THEN a ELSE b
<1>1. \E x \in {a, b} : \A y \in {a, b} : x <= y
  OBVIOUS
<1>2. Min({a, b}) \in {a, b} /\ \A y \in {a, b} : Min({a, b}) <= y
  BY <1>1 DEF Min
<1>3. QED
  BY <1>2

-----------------------------------------------------------------------------
(* Sequences of samples that follow each other.                            *)

States == Ids \cup {None}

(* The samples q take the state s to the state t.                          *)
Run(s, q, t) ==
  \E run \in [0 .. Len(q) -> States] :
    /\ run[0] = s /\ run[Len(q)] = t
    /\ \A i \in 1 .. Len(q) : Follows(run[i - 1], q[i], run[i])

LEMMA RunEmpty ==
  ASSUME NEW s \in States
  PROVE  Run(s, <<>>, s)
<1> DEFINE run == [i \in 0 .. 0 |-> s]
<1>1. run \in [0 .. 0 -> States] /\ run[0] = s /\ 1 .. 0 = {}
  OBVIOUS
<1>2. Len(<<>>) = 0
  OBVIOUS
<1> HIDE DEF run
<1>3. QED
  BY <1>1, <1>2 DEF Run

LEMMA RunOne ==
  ASSUME NEW x \in Queued, NEW s \in States, NEW t \in States, Follows(s, x, t)
  PROVE  Run(s, <<x>>, t)
<1> DEFINE run == [i \in 0 .. 1 |-> IF i = 0 THEN s ELSE t]
<1>1. run \in [0 .. 1 -> States] /\ run[0] = s /\ run[1] = t
  OBVIOUS
<1>2. Len(<<x>>) = 1 /\ <<x>>[1] = x
  OBVIOUS
<1>3. \A i \in 1 .. 1 : i = 1 /\ i - 1 = 0
  OBVIOUS
<1>4. \A i \in 1 .. 1 : Follows(run[i - 1], <<x>>[i], run[i])
  BY <1>1, <1>2, <1>3
<1> HIDE DEF run
<1>5. QED
  BY <1>1, <1>2, <1>4 DEF Run

LEMMA RunConcat ==
  ASSUME NEW q \in Seq(Queued), NEW r \in Seq(Queued),
         NEW s, NEW m, NEW t, Run(s, q, m), Run(m, r, t)
  PROVE  Run(s, q \o r, t)
<1>1. PICK f \in [0 .. Len(q) -> States] :
        /\ f[0] = s /\ f[Len(q)] = m
        /\ \A i \in 1 .. Len(q) : Follows(f[i - 1], q[i], f[i])
  BY DEF Run
<1>2. PICK g \in [0 .. Len(r) -> States] :
        /\ g[0] = m /\ g[Len(r)] = t
        /\ \A i \in 1 .. Len(r) : Follows(g[i - 1], r[i], g[i])
  BY DEF Run
<1>3. /\ Len(q) \in Nat /\ Len(r) \in Nat /\ Len(q \o r) = Len(q) + Len(r)
      /\ \A i \in 1 .. Len(q) + Len(r) :
           (q \o r)[i] = IF i <= Len(q) THEN q[i] ELSE r[i - Len(q)]
  BY ConcatProperties, LenProperties
<1> DEFINE h == [i \in 0 .. Len(q) + Len(r) |-> IF i <= Len(q) THEN f[i] ELSE g[i - Len(q)]]
<1>4. h \in [0 .. Len(q) + Len(r) -> States]
  <2>1. ASSUME NEW i \in 0 .. Len(q) + Len(r) PROVE h[i] \in States
    <3>1. CASE i <= Len(q)
      BY <1>1, <1>3, <3>1
    <3>2. CASE ~(i <= Len(q))
      <4>1. i - Len(q) \in 0 .. Len(r)
        BY <1>3, <3>2
      <4>2. QED
        BY <1>2, <3>2, <4>1
    <3>3. QED
      BY <3>1, <3>2
  <2>2. QED
    BY <2>1
<1>5. h[0] = s
  BY <1>1, <1>3
<1>6. h[Len(q) + Len(r)] = t
  <2>1. CASE Len(r) = 0
    BY <1>1, <1>2, <1>3, <2>1
  <2>2. CASE Len(r) # 0
    <3>1. ~(Len(q) + Len(r) <= Len(q)) /\ Len(q) + Len(r) - Len(q) = Len(r)
          /\ Len(q) + Len(r) \in 0 .. Len(q) + Len(r)
      BY <1>3, <2>2
    <3>2. QED
      BY <1>2, <3>1
  <2>3. QED
    BY <2>1, <2>2
<1>7. ASSUME NEW i \in 1 .. Len(q) + Len(r)
      PROVE  Follows(h[i - 1], (q \o r)[i], h[i])
  <2>1. CASE i <= Len(q)
    <3>1. i \in 1 .. Len(q) /\ i - 1 <= Len(q) /\ i - 1 \in 0 .. Len(q) + Len(r)
          /\ i \in 0 .. Len(q) + Len(r)
      BY <1>3, <2>1
    <3>2. h[i - 1] = f[i - 1] /\ h[i] = f[i] /\ (q \o r)[i] = q[i]
      BY <1>3, <2>1, <3>1
    <3>3. QED
      BY <1>1, <3>1, <3>2
  <2>2. CASE ~(i <= Len(q))
    <3>1. /\ i - Len(q) \in 1 .. Len(r) /\ i - 1 \in 0 .. Len(q) + Len(r)
          /\ i \in 0 .. Len(q) + Len(r) /\ (i - 1) - Len(q) = (i - Len(q)) - 1
      BY <1>3, <2>2
    <3>2. h[i] = g[i - Len(q)] /\ (q \o r)[i] = r[i - Len(q)]
      BY <1>3, <2>2, <3>1
    <3>3. h[i - 1] = g[(i - Len(q)) - 1]
      <4>1. CASE i - 1 <= Len(q)
        <5>1. i - 1 = Len(q) /\ (i - Len(q)) - 1 = 0
          BY <1>3, <2>2, <4>1
        <5>2. h[i - 1] = f[Len(q)]
          BY <3>1, <5>1
        <5>3. QED
          BY <1>1, <1>2, <5>1, <5>2
      <4>2. CASE ~(i - 1 <= Len(q))
        BY <3>1, <4>2
      <4>3. QED
        BY <4>1, <4>2
    <3>4. QED
      BY <1>2, <3>1, <3>2, <3>3
  <2>3. QED
    BY <2>1, <2>2
<1> HIDE DEF h
<1>8. QED
  BY <1>3, <1>4, <1>5, <1>6, <1>7 DEF Run

(* The first sample says what follows it.                                  *)
LEMMA RunTail ==
  ASSUME NEW q \in Seq(Queued), q # <<>>, NEW s, NEW t, Run(s, q, t)
  PROVE  Run(IF Head(q).flag = "up" THEN None ELSE Head(q).id, Tail(q), t)
<1>1. PICK f \in [0 .. Len(q) -> States] :
        /\ f[0] = s /\ f[Len(q)] = t
        /\ \A i \in 1 .. Len(q) : Follows(f[i - 1], q[i], f[i])
  BY DEF Run
<1>2. /\ Len(q) \in Nat \ {0} /\ Len(Tail(q)) = Len(q) - 1 /\ Head(q) = q[1]
      /\ \A i \in 1 .. Len(q) - 1 : Tail(q)[i] = q[i + 1]
  BY HeadTailProperties, EmptySeq
<1> DEFINE g == [i \in 0 .. Len(q) - 1 |-> f[i + 1]]
<1>3. \A i \in 0 .. Len(q) - 1 : i + 1 \in 0 .. Len(q) /\ g[i] = f[i + 1]
  BY <1>2
<1>4. g \in [0 .. Len(q) - 1 -> States]
  BY <1>1, <1>3
<1>5. g[0] = IF Head(q).flag = "up" THEN None ELSE Head(q).id
  <2>1. 1 \in 1 .. Len(q) /\ 1 - 1 = 0 /\ 0 \in 0 .. Len(q) - 1 /\ 0 + 1 = 1
    BY <1>2
  <2>2. Follows(f[0], q[1], f[1]) /\ g[0] = f[1]
    BY <1>1, <1>3, <2>1
  <2>3. QED
    BY <1>2, <2>2 DEF Follows
<1>6. g[Len(q) - 1] = t
  <2>1. Len(q) - 1 \in 0 .. Len(q) - 1 /\ Len(q) - 1 + 1 = Len(q)
    BY <1>2
  <2>2. QED
    BY <1>1, <1>3, <2>1
<1>7. ASSUME NEW i \in 1 .. Len(q) - 1 PROVE Follows(g[i - 1], Tail(q)[i], g[i])
  <2>1. /\ i + 1 \in 1 .. Len(q) /\ i - 1 \in 0 .. Len(q) - 1 /\ i \in 0 .. Len(q) - 1
        /\ i - 1 + 1 = i /\ (i + 1) - 1 = i
    BY <1>2
  <2>2. Follows(f[i], q[i + 1], f[i + 1])
    BY <1>1, <2>1
  <2>3. QED
    BY <1>2, <1>3, <2>1, <2>2
<1> HIDE DEF g
<1>8. QED
  BY <1>2, <1>4, <1>5, <1>6, <1>7 DEF Run

-----------------------------------------------------------------------------
(* Types.                                                                  *)

Positions == {"idle", "blocked", "granted", "polling"}

DeviceOK ==
  /\ vfs \in Vfs
  /\ opened \in BOOLEAN /\ irq_pending \in BOOLEAN /\ irq_enabled \in BOOLEAN
  /\ wpc \in {"wait", "status", "points", "clear"} /\ ticks \in 0 .. Ticks - 1
  /\ got \in Frames \cup {None} /\ frame \in Frames \cup {Malformed, None}
  /\ dropped \in BOOLEAN

StreamOK ==
  /\ pressed \in BOOLEAN /\ track \in Points
  /\ queue \in Seq(Queued) /\ Len(queue) <= Depth
  /\ view \in States

ThreadsOK ==
  /\ waitsem \in Nat
  /\ fds \in Threads \cup {None} /\ notified \subseteq Threads
  /\ tpc \in [Threads -> Positions]

LEMMA TypeParts == TypeOK <=> DeviceOK /\ StreamOK /\ ThreadsOK
BY DEF TypeOK, DeviceOK, StreamOK, ThreadsOK, States, Positions

(* The point the driver follows, ...                                       *)
LEMMA SelectedPoint ==
  ASSUME NEW points \in Seq(Points), points # <<>>
  PROVE  /\ Selected(points) \in Points
         /\ Tracked(points) # {} => pressed /\ Selected(points).id = track.id
<1>1. /\ Len(points) \in Nat \ {0} /\ DOMAIN points = 1 .. Len(points)
      /\ \A i \in 1 .. Len(points) : points[i] \in Points
  BY LenProperties, EmptySeq, ElementOfSeq
<1>2. CASE Tracked(points) = {}
  <2>1. Selected(points) = points[1] /\ 1 \in 1 .. Len(points)
    BY <1>1, <1>2 DEF Selected
  <2>2. QED
    BY <1>1, <1>2, <2>1
<1>3. CASE Tracked(points) # {}
  <2>1. Tracked(points) \in SUBSET Nat /\ Tracked(points) \subseteq 1 .. Len(points)
    BY <1>1 DEF Tracked
  <2>2. Min(Tracked(points)) \in Tracked(points)
    BY <1>3, <2>1, MinNat
  <2>3. Selected(points) = points[Min(Tracked(points))]
    BY <1>3 DEF Selected
  <2>4. QED
    BY <1>1, <2>1, <2>2, <2>3 DEF Tracked
<1>4. QED
  BY <1>2, <1>3

(* ... and the samples that report it: they follow each other from the     *)
(* finger that was pressed to the one that is.                             *)
LEMMA SamplesRun ==
  ASSUME StreamOK, NEW points \in Seq(Points)
  PROVE  /\ Samples(points) \in Seq(Queued)
         /\ Run(Finger, Samples(points),
                IF points = <<>> THEN None ELSE Selected(points).id)
<1>0. /\ pressed \in BOOLEAN /\ track \in Points /\ None \in States
      /\ \A p \in Points : p.id \in Ids /\ p.id \in States /\ p.id # None
  BY Gt911Assumption DEF StreamOK, Gt911Assumption, Points, States
<1>s. \A p \in Points, f \in {"down", "move", "up"} :
        /\ Sample(f, p) \in Queued /\ Sample(f, p).flag = f /\ Sample(f, p).id = p.id
        /\ <<Sample(f, p)>> \in Seq(Queued)
  BY DEF Sample, Queued, Points
<1>e. <<>> \in Seq(Queued)
  OBVIOUS
<1> DEFINE release == IF pressed /\ Tracked(points) = {} THEN <<Sample("up", track)>> ELSE <<>>
<1>1. ASSUME Tracked(points) = {}
      PROVE  release \in Seq(Queued) /\ Run(Finger, release, None)
  <2>1. CASE pressed
    <3>1. release = <<Sample("up", track)>> /\ Finger = track.id
      BY <1>1, <2>1 DEF Finger
    <3>2. Follows(track.id, Sample("up", track), None)
      BY <1>0, <1>s DEF Follows
    <3>3. QED
      BY <1>0, <1>s, <3>1, <3>2, RunOne
  <2>2. CASE ~pressed
    <3>1. release = <<>> /\ Finger = None
      BY <2>2 DEF Finger
    <3>2. QED
      BY <1>0, <1>e, <3>1, RunEmpty
  <2>3. QED
    BY <2>1, <2>2
<1>2. CASE points = <<>>
  <2>1. Tracked(points) = {} /\ Samples(points) = release
    BY <1>2 DEF Samples, Tracked
  <2>2. QED
    BY <1>1, <1>2, <2>1
<1>3. CASE points # <<>> /\ Tracked(points) = {}
  <2> DEFINE p == Selected(points)
  <2>1. p \in Points
    BY <1>3, SelectedPoint
  <2>2. Samples(points) = Append(release, Sample("down", p))
    BY <1>3 DEF Samples
  <2> HIDE DEF p, release
  <2>3. Follows(None, Sample("down", p), p.id)
    BY <1>s, <2>1 DEF Follows
  <2>4. Run(None, <<Sample("down", p)>>, p.id)
    BY <1>0, <1>s, <2>1, <2>3, RunOne
  <2>5. Append(release, Sample("down", p)) = release \o <<Sample("down", p)>>
    BY <1>1, <1>3, <1>s, <2>1
  <2>6. Run(Finger, release \o <<Sample("down", p)>>, p.id)
    BY <1>1, <1>3, <1>s, <2>1, <2>4, RunConcat
  <2>7. Samples(points) \in Seq(Queued)
    BY <1>1, <1>3, <1>s, <2>1, <2>2
  <2>8. QED
    BY <1>3, <2>2, <2>5, <2>6, <2>7 DEF p
<1>4. CASE points # <<>> /\ Tracked(points) # {}
  <2> DEFINE p == Selected(points)
  <2>1. p \in Points /\ pressed /\ p.id = track.id /\ Finger = p.id
    BY <1>4, SelectedPoint DEF Finger
  <2>2. Samples(points) = IF p # track THEN <<Sample("move", p)>> ELSE <<>>
    BY <1>4 DEF Samples
  <2>3. Follows(p.id, Sample("move", p), p.id)
    BY <1>s, <2>1 DEF Follows
  <2> HIDE DEF p
  <2>4. Run(p.id, <<Sample("move", p)>>, p.id) /\ Run(p.id, <<>>, p.id)
    BY <1>0, <1>s, <2>1, <2>3, RunOne, RunEmpty
  <2>5. QED
    BY <1>4, <1>e, <1>s, <2>1, <2>2, <2>4 DEF p
<1>5. QED
  BY <1>2, <1>3, <1>4

(* What fits fits.                                                         *)
LEMMA FittingFits ==
  ASSUME StreamOK, NEW samples \in Seq(Queued)
  PROVE  /\ Fitting(samples) \in Seq(Queued)
         /\ Len(Fitting(samples)) \in Nat
         /\ queue \o Fitting(samples) \in Seq(Queued)
         /\ Len(queue \o Fitting(samples)) = Len(queue) + Len(Fitting(samples))
         /\ Len(queue \o Fitting(samples)) <= Depth
<1>1. /\ queue \in Seq(Queued) /\ Len(queue) <= Depth /\ Depth \in Nat
      /\ Len(queue) \in Nat /\ Len(samples) \in Nat
      /\ \A i \in 1 .. Len(samples) : samples[i] \in Queued
  BY Gt911Assumption, LenProperties, ElementOfSeq DEF StreamOK, Gt911Assumption
<1> DEFINE n == Min({Len(samples), Depth - Len(queue)})
<1>2. n \in Nat /\ n <= Len(samples) /\ n <= Depth - Len(queue)
  BY <1>1, MinTwo
<1>3. Fitting(samples) = SubSeq(samples, 1, n)
  BY DEF Fitting
<1> HIDE DEF n
<1>4. Fitting(samples) \in Seq(Queued) /\ Len(Fitting(samples)) = n
  <2>1. \A i \in 1 .. n : samples[i] \in Queued
    BY <1>1, <1>2
  <2>2. SubSeq(samples, 1, n) \in Seq(Queued)
        /\ Len(SubSeq(samples, 1, n)) = IF 1 <= n THEN n - 1 + 1 ELSE 0
    BY <1>2, <2>1, SubSeqProperties
  <2>3. QED
    BY <1>2, <1>3, <2>2
<1>5. /\ queue \o Fitting(samples) \in Seq(Queued)
      /\ Len(queue \o Fitting(samples)) = Len(queue) + Len(Fitting(samples))
  BY <1>1, <1>4, ConcatProperties
<1>6. QED
  BY <1>1, <1>2, <1>4, <1>5

(* nxsem_post gives every wakeup to a blocked reader or to the count.      *)
LEMMA PostGives ==
  ASSUME ThreadsOK, NEW n \in Nat, Post(n)
  PROVE  /\ waitsem' \in Nat /\ tpc' \in [Threads -> Positions]
         /\ IsFiniteSet(At("granted")) /\ IsFiniteSet(At("granted")')
         /\ waitsem' + Cardinality(At("granted")') = waitsem + Cardinality(At("granted")) + n
         /\ At("granted")' # {} => At("granted") # {} \/ n > 0
         /\ At("polling")' = At("polling")
         /\ At("blocked")' # {} => At("blocked") # {} /\ waitsem' = waitsem
<1>1. PICK woken \in SUBSET At("blocked") :
        /\ Cardinality(woken) <= n
        /\ Cardinality(woken) < n => woken = At("blocked")
        /\ tpc' = [t \in Threads |-> IF t \in woken THEN "granted" ELSE tpc[t]]
        /\ waitsem' = waitsem + (n - Cardinality(woken))
  BY DEF Post
<1>2. /\ \A pos : IsFiniteSet(At(pos))
      /\ waitsem \in Nat /\ tpc \in [Threads -> Positions]
  BY Gt911Assumption, FS_Subset DEF Gt911Assumption, At, ThreadsOK
<1>3. /\ IsFiniteSet(woken) /\ Cardinality(woken) \in Nat
      /\ Cardinality(At("granted")) \in Nat
      /\ woken \subseteq Threads /\ \A t \in woken : tpc[t] = "blocked"
  BY <1>1, <1>2, FS_Subset, FS_CardinalityType DEF At
<1>4. waitsem' \in Nat /\ tpc' \in [Threads -> Positions]
  BY <1>1, <1>2, <1>3 DEF Positions
<1>5. /\ At("granted")' = At("granted") \cup woken
      /\ At("granted") \cap woken = {}
      /\ At("polling")' = At("polling")
      /\ At("blocked")' = At("blocked") \ woken
  BY <1>1, <1>3 DEF At
<1>6. /\ IsFiniteSet(At("granted")')
      /\ Cardinality(At("granted")') = Cardinality(At("granted")) + Cardinality(woken)
  <2>1. /\ IsFiniteSet(At("granted") \cup woken)
        /\ Cardinality(At("granted") \cup woken) =
             Cardinality(At("granted")) + Cardinality(woken)
               - Cardinality(At("granted") \cap woken)
    BY <1>2, <1>3, FS_Union
  <2>2. Cardinality(At("granted") \cap woken) = 0
    BY <1>5, FS_EmptySet
  <2>3. QED
    BY <1>3, <1>5, <2>1, <2>2
<1>7. At("blocked")' # {} => At("blocked") # {} /\ waitsem' = waitsem
  BY <1>1, <1>2, <1>3, <1>5
<1>8. At("granted")' # {} => At("granted") # {} \/ n > 0
  BY <1>1, <1>3, <1>5, FS_EmptySet
<1>9. QED
  BY <1>1, <1>2, <1>3, <1>4, <1>5, <1>6, <1>7, <1>8

(* One reader more or less.                                                *)
LEMMA ReaderCount ==
  ASSUME NEW t
  PROVE  /\ t \notin At("granted") =>
              Cardinality(At("granted") \cup {t}) = Cardinality(At("granted")) + 1
         /\ t \in At("granted") =>
              Cardinality(At("granted") \ {t}) = Cardinality(At("granted")) - 1
<1>1. IsFiniteSet(At("granted"))
  BY Gt911Assumption, FS_Subset DEF Gt911Assumption, At
<1>2. QED
  BY <1>1, FS_AddElement, FS_RemoveElement

(* What clearing a frame does to the stream: nothing, or fit is queued.    *)
Processed(fit) ==
  /\ got \in Seq(Points) /\ fit \in Seq(Queued) /\ Len(fit) \in Nat
  /\ queue' = queue \o fit /\ queue' \in Seq(Queued)
  /\ Len(queue') = Len(queue) + Len(fit) /\ Len(queue') <= Depth
  /\ dropped' = (dropped \/ fit # Samples(got))
  /\ notified' = IF fit = <<>> THEN notified ELSE notified \cup ({fds} \ {None})
  /\ Post(Len(fit))
  /\ pressed' = (got # <<>>)
  /\ track' = IF got = <<>> THEN track ELSE Selected(got)

LEMMA ClearStatusProcesses ==
  ASSUME DeviceOK, StreamOK, ClearStatus
  PROVE  UNCHANGED <<stream, waitsem, tpc, notified>> \/ \E fit \in Seq(Queued) : Processed(fit)
<1>1. CASE got = None
  BY <1>1 DEF ClearStatus
<1>2. CASE got # None
  <2>1. got \in Seq(Points) /\ process_points(got)
    BY <1>2, Gt911Assumption DEF Gt911Assumption, ClearStatus, DeviceOK
  <2>2. Samples(got) \in Seq(Queued)
    BY <2>1, SamplesRun
  <2> DEFINE fit == Fitting(Samples(got))
  <2>3. /\ fit \in Seq(Queued) /\ Len(fit) \in Nat /\ queue \o fit \in Seq(Queued)
        /\ Len(queue \o fit) = Len(queue) + Len(fit) /\ Len(queue \o fit) <= Depth
    BY <2>2, FittingFits
  <2>4. /\ queue' = queue \o fit
        /\ dropped' = (dropped \/ fit # Samples(got))
        /\ notified' = IF fit = <<>> THEN notified ELSE notified \cup ({fds} \ {None})
        /\ Post(Len(fit))
        /\ pressed' = (got # <<>>)
        /\ track' = IF got = <<>> THEN track ELSE Selected(got)
    BY <2>1 DEF process_points, Enqueue, Store
  <2> HIDE DEF fit
  <2>5. Processed(fit)
    BY <2>1, <2>3, <2>4 DEF Processed
  <2>6. QED
    BY <2>3, <2>5
<1>3. QED
  BY <1>1, <1>2

(* The steps that touch neither the stream nor the clients.                *)
Quiet ==
  \/ Publish \/ Interrupt \/ WorkerIdle \/ WorkerTick \/ WorkerTake
  \/ StatusNotReady \/ StatusReady \/ ReadPoints \/ ClearFails

LEMMA QuietMoves ==
  Quiet \/ UNCHANGED vars =>
    UNCHANGED <<vfs, opened, waitsem, queue, pressed, track, dropped, tpc, fds, notified, view>>
BY DEF Quiet, vars, Publish, Interrupt, WorkerIdle, WorkerTick, WorkerTake, StatusNotReady,
   StatusReady, ReadPoints, ClearFails, stream, clients

LEMMA DeviceStep == DeviceOK /\ [Next]_vars => DeviceOK'
<1> SUFFICES ASSUME DeviceOK, [Next]_vars PROVE DeviceOK'
  OBVIOUS
<1>0. Ticks \in Nat \ {0}
  BY Gt911Assumption DEF Gt911Assumption
<1> USE DEF DeviceOK, hw, worker, stream
<1>1. CASE Publish \/ Interrupt \/ WorkerIdle \/ WorkerTick \/ WorkerTake
  <2>1. CASE Publish \/ Interrupt
    BY <2>1 DEF Publish, Interrupt
  <2>2. CASE WorkerIdle \/ WorkerTick \/ WorkerTake
    <3>1. ticks' \in 0 .. Ticks - 1
      BY <1>0, <2>2 DEF WorkerIdle, WorkerTick, WorkerTake
    <3>2. QED
      BY <2>2, <3>1 DEF WorkerIdle, WorkerTick, WorkerTake
  <2>3. QED
    BY <1>1, <2>1, <2>2
<1>2. CASE StatusNotReady \/ StatusReady \/ ReadPoints \/ ClearFails
  BY <1>2 DEF StatusNotReady, StatusReady, ReadPoints, ClearFails
<1>3. CASE ClearStatus
  BY <1>3 DEF ClearStatus, process_points, Enqueue, Store
<1>4. CASE Open \/ OpenFails \/ Close
  BY <1>4 DEF Open, OpenFails, Close
<1>5. ASSUME NEW t \in Threads,
             ReadBegin(t) \/ ReadSample(t) \/ ReadFails(t) \/ PollSetup(t) \/ PollTeardown(t)
      PROVE  DeviceOK'
  BY <1>5 DEF ReadBegin, ReadSample, ReadFails, PollSetup, PollTeardown
<1>6. CASE UNCHANGED vars
  BY <1>6 DEF vars
<1>7. QED
  BY <1>1, <1>2, <1>3, <1>4, <1>5, <1>6 DEF Next, Worker, FileOperation

LEMMA EmptyQueue == \A q : q = <<>> => q \in Seq(Queued) /\ Len(q) = 0 /\ Len(q) <= Depth
BY Gt911Assumption, EmptySeq DEF Gt911Assumption

LEMMA StreamStep ==
  DeviceOK /\ StreamOK /\ [Next]_vars => StreamOK'
<1> SUFFICES ASSUME DeviceOK, StreamOK, [Next]_vars PROVE StreamOK'
  OBVIOUS
<1>0. None \in States /\ \A q : q = <<>> => q \in Seq(Queued) /\ Len(q) <= Depth
  BY EmptyQueue, Zenon DEF States
<1>1. CASE Quiet \/ UNCHANGED vars
  BY <1>1, QuietMoves DEF StreamOK
<1>2. CASE ClearStatus
  <2>1. UNCHANGED view
    BY <1>2 DEF ClearStatus
  <2>2. CASE UNCHANGED stream
    BY <2>1, <2>2 DEF stream, StreamOK
  <2>3. ASSUME NEW fit \in Seq(Queued), Processed(fit) PROVE StreamOK'
    <3>1. track' \in Points
      BY <2>3, SelectedPoint DEF Processed, StreamOK
    <3>2. QED
      BY <2>1, <2>3, <3>1 DEF Processed, StreamOK
  <2>4. QED
    BY <1>2, <2>2, <2>3, ClearStatusProcesses
<1>3. CASE Open \/ OpenFails \/ Close
  <2>1. /\ queue' = <<>> /\ pressed' = FALSE /\ track' = track
        /\ view' = view \/ view' = None
    BY <1>3 DEF Open, OpenFails, Close, reset_queue, clients
  <2>2. queue' \in Seq(Queued) /\ Len(queue') <= Depth
    BY <1>0, <2>1, Zenon
  <2>3. QED
    BY <1>0, <2>1, <2>2 DEF StreamOK
<1>4. ASSUME NEW t \in Threads, ReadSample(t) PROVE StreamOK'
  <2>1. /\ queue # <<>> /\ queue' = Tail(queue) /\ UNCHANGED <<pressed, track>>
        /\ view' = IF Head(queue).flag = "up" THEN None ELSE Head(queue).id
    BY <1>4 DEF ReadSample
  <2>2. /\ Head(queue) \in Queued /\ Tail(queue) \in Seq(Queued)
        /\ Len(Tail(queue)) = Len(queue) - 1 /\ Len(queue) \in Nat
    BY <2>1, HeadTailProperties, LenProperties DEF StreamOK
  <2>3. view' \in States
    BY <1>0, <2>1, <2>2 DEF Queued, States
  <2>4. Len(queue') <= Depth
    BY <2>1, <2>2, Gt911Assumption DEF Gt911Assumption, StreamOK
  <2>5. QED
    BY <2>1, <2>2, <2>3, <2>4 DEF StreamOK
<1>5. ASSUME NEW t \in Threads,
             ReadBegin(t) \/ ReadFails(t) \/ PollSetup(t) \/ PollTeardown(t)
      PROVE  StreamOK'
  BY <1>5 DEF ReadBegin, ReadFails, PollSetup, PollTeardown, stream, StreamOK
<1>6. QED
  BY <1>1, <1>2, <1>3, <1>4, <1>5 DEF Next, Worker, FileOperation, Quiet

LEMMA ThreadsStep ==
  DeviceOK /\ StreamOK /\ ThreadsOK /\ [Next]_vars => ThreadsOK'
<1> SUFFICES ASSUME DeviceOK, StreamOK, ThreadsOK, [Next]_vars PROVE ThreadsOK'
  OBVIOUS
<1>1. CASE Quiet \/ UNCHANGED vars
  BY <1>1, QuietMoves DEF ThreadsOK
<1>2. CASE ClearStatus
  <2>1. UNCHANGED fds
    BY <1>2 DEF ClearStatus
  <2>2. CASE UNCHANGED <<waitsem, tpc, notified>>
    BY <2>1, <2>2 DEF ThreadsOK
  <2>3. ASSUME NEW fit \in Seq(Queued), Processed(fit) PROVE ThreadsOK'
    <3>1. waitsem' \in Nat /\ tpc' \in [Threads -> Positions]
      BY <2>3, PostGives DEF Processed
    <3>2. notified' \subseteq Threads
      BY <2>3 DEF Processed, ThreadsOK
    <3>3. QED
      BY <2>1, <3>1, <3>2 DEF ThreadsOK
  <2>4. QED
    BY <1>2, <2>2, <2>3, ClearStatusProcesses
<1>3. CASE Open \/ OpenFails \/ Close
  BY <1>3 DEF Open, OpenFails, Close, reset_queue, ThreadsOK, clients
<1>4. ASSUME NEW t \in Threads,
             ReadBegin(t) \/ ReadSample(t) \/ ReadFails(t) \/ PollSetup(t) \/ PollTeardown(t)
      PROVE  ThreadsOK'
  BY <1>4 DEF ReadBegin, ReadSample, ReadFails, PollSetup, PollTeardown, ThreadsOK, Positions
<1>5. QED
  BY <1>1, <1>2, <1>3, <1>4 DEF Next, Worker, FileOperation, Quiet

LEMMA TypeInit == Init => TypeOK
<1> SUFFICES ASSUME Init PROVE TypeOK
  OBVIOUS
<1>1. Points # {}
  <2>1. PICK i \in Ids, p \in Places : TRUE
    BY Gt911Assumption DEF Gt911Assumption
  <2>2. [id |-> i, place |-> p] \in Points
    BY DEF Points
  <2>3. QED
    BY <2>2
<1>2. track \in Points
  BY <1>1 DEF Init
<1>3. queue \in Seq(Queued) /\ Len(queue) <= Depth
  BY EmptyQueue, Zenon DEF Init
<1>4. StreamOK
  BY <1>2, <1>3 DEF Init, StreamOK, States
<1>5. DeviceOK
  <2>1. 0 \in 0 .. Ticks - 1
    BY Gt911Assumption DEF Gt911Assumption
  <2>2. QED
    BY <2>1 DEF Init, DeviceOK
<1>6. ThreadsOK
  BY DEF Init, ThreadsOK, Positions
<1>7. QED
  BY <1>4, <1>5, <1>6, TypeParts

LEMMA TypeStep == TypeOK /\ [Next]_vars => TypeOK'
<1> SUFFICES ASSUME TypeOK, [Next]_vars PROVE TypeOK'
  OBVIOUS
<1>1. DeviceOK' /\ StreamOK' /\ ThreadsOK'
  BY TypeParts, DeviceStep, StreamStep, ThreadsStep
<1>2. QED
  BY <1>1 DEF TypeOK, DeviceOK, StreamOK, ThreadsOK, States, Positions

(* Type correctness: in particular the queue never exceeds its depth.      *)
THEOREM TypeCorrect == Spec => []TypeOK
BY TypeInit, TypeStep, PTL DEF Spec

-----------------------------------------------------------------------------
(* The worker keeps the lock only of an open device; a closed one holds no *)
(* samples.                                                                *)
LockInv ==
  /\ wpc # "wait" => opened
  /\ ~opened => queue = <<>> /\ view = None

LEMMA LockStep == DeviceOK /\ LockInv /\ [Next]_vars => LockInv'
<1> SUFFICES ASSUME DeviceOK, LockInv, [Next]_vars PROVE LockInv'
  OBVIOUS
<1> USE DEF LockInv, Unlocked, worker, stream, clients
<1>1. CASE Publish \/ Interrupt \/ WorkerIdle \/ WorkerTick \/ WorkerTake
  BY <1>1 DEF Publish, Interrupt, WorkerIdle, WorkerTick, WorkerTake, hw
<1>2. CASE StatusNotReady \/ StatusReady \/ ReadPoints \/ ClearFails
  BY <1>2 DEF StatusNotReady, StatusReady, ReadPoints, ClearFails
<1>3. CASE ClearStatus
  BY <1>3 DEF ClearStatus
<1>4. CASE Open \/ OpenFails \/ Close
  BY <1>4 DEF Open, OpenFails, Close, reset_queue
<1>5. ASSUME NEW t \in Threads,
             ReadBegin(t) \/ ReadSample(t) \/ ReadFails(t) \/ PollSetup(t) \/ PollTeardown(t)
      PROVE  LockInv'
  BY <1>5 DEF ReadBegin, ReadSample, ReadFails, PollSetup, PollTeardown
<1>6. CASE UNCHANGED vars
  BY <1>6 DEF vars
<1>7. QED
  BY <1>1, <1>2, <1>3, <1>4, <1>5, <1>6 DEF Next, Worker, FileOperation

LEMMA LenQueue ==
  ASSUME StreamOK
  PROVE  /\ Len(queue) \in Nat
         /\ queue = <<>> <=> Len(queue) = 0
         /\ queue # <<>> => Len(Tail(queue)) = Len(queue) - 1
BY LenProperties, EmptySeq, HeadTailProperties DEF StreamOK

LEMMA PostsStep ==
  TypeOK /\ TypeOK' /\ LockInv /\ PostsMatchSamples /\ [Next]_vars => PostsMatchSamples'
<1> SUFFICES ASSUME TypeOK, TypeOK', LockInv, PostsMatchSamples, [Next]_vars
             PROVE  PostsMatchSamples'
  OBVIOUS
<1>0. DeviceOK /\ StreamOK /\ ThreadsOK
  BY TypeParts
<1> DEFINE C == Cardinality(At("granted"))
           D == Cardinality(At("granted")')
<1>c. /\ IsFiniteSet(At("granted")) /\ IsFiniteSet(At("granted")')
      /\ C \in Nat /\ D \in Nat
      /\ C = 0 <=> At("granted") = {}
      /\ D = 0 <=> At("granted")' = {}
      /\ waitsem \in Nat /\ Len(queue) \in Nat
  BY <1>0, LenQueue, Gt911Assumption, FS_Subset, FS_CardinalityType, FS_EmptySet
     DEF Gt911Assumption, At, ThreadsOK
<1>i. /\ Len(queue) <= waitsem + C
      /\ At("blocked") # {} => waitsem = 0
      /\ vfs = "counted" => waitsem + C = Len(queue) /\ (At("granted") # {} => opened)
  BY DEF PostsMatchSamples
<1>g. /\ Len(queue') <= waitsem' + D
      /\ At("blocked")' # {} => waitsem' = 0
      /\ vfs' = "counted" =>
           waitsem' + D = Len(queue') /\ (At("granted")' # {} => opened')
      => PostsMatchSamples'
  BY DEF PostsMatchSamples
<1>s. UNCHANGED <<vfs, opened, waitsem, queue, tpc>> => PostsMatchSamples'
  BY <1>i DEF PostsMatchSamples, At
<1>1. CASE Quiet \/ UNCHANGED vars
  BY <1>1, <1>s, <1>g, QuietMoves DEF PostsMatchSamples
<1>2. CASE ClearStatus
  <2>1. UNCHANGED <<vfs, opened>> /\ opened
    BY <1>2 DEF ClearStatus, LockInv
  <2>2. CASE UNCHANGED <<stream, waitsem, tpc, notified>>
    BY <1>s, <2>1, <2>2 DEF stream, PostsMatchSamples
  <2>3. ASSUME NEW fit \in Seq(Queued), Processed(fit)
        PROVE  /\ Len(queue') <= waitsem' + D
               /\ At("blocked")' # {} => waitsem' = 0
               /\ vfs = "counted" => waitsem' + D = Len(queue')
    <3>1. Len(fit) \in Nat /\ Len(queue') = Len(queue) + Len(fit) /\ Post(Len(fit))
      BY <2>3 DEF Processed
    <3>2. /\ waitsem' \in Nat
          /\ waitsem' + D = waitsem + C + Len(fit)
          /\ At("blocked")' # {} => At("blocked") # {} /\ waitsem' = waitsem
      BY <1>0, <3>1, PostGives
    <3> HIDE DEF C, D
    <3>3. QED
      BY <1>c, <1>i, <3>1, <3>2
  <2>4. QED
    BY <1>2, <1>g, <2>1, <2>2, <2>3, <1>0, ClearStatusProcesses
<1>3. CASE Open \/ OpenFails \/ Close
  <2>1. queue' = <<>> /\ waitsem' = 0 /\ UNCHANGED <<vfs, tpc>>
    BY <1>3 DEF Open, OpenFails, Close, reset_queue, clients
  <2>2. At("granted")' = At("granted") /\ At("idle")' = At("idle") /\ Len(queue') = 0
    BY <2>1, EmptyQueue DEF At
  <2>3. vfs = "counted" => At("granted") = {}
    <3>1. CASE Open \/ OpenFails
      BY <1>i, <3>1 DEF Open, OpenFails
    <3>2. CASE Close
      BY <3>2 DEF Close, At
    <3>3. QED
      BY <1>3, <3>1, <3>2
  <2> HIDE DEF C, D
  <2>4. D = C
    BY <2>2 DEF C, D
  <2>5. QED
    BY <1>c, <1>g, <2>1, <2>2, <2>3, <2>4
<1>4. ASSUME NEW t \in Threads, ReadBegin(t) PROVE PostsMatchSamples'
  <2>1. opened /\ tpc[t] = "idle" /\ UNCHANGED <<vfs, opened, queue>>
    BY <1>4 DEF ReadBegin, stream
  <2>2. CASE waitsem > 0
    <3>1. waitsem' = waitsem - 1 /\ tpc' = [tpc EXCEPT ![t] = "granted"]
      BY <1>4, <2>2 DEF ReadBegin
    <3>a. /\ At("granted")' = At("granted") \cup {t} /\ t \notin At("granted")
          /\ At("blocked")' = At("blocked")
      BY <1>0, <2>1, <3>1 DEF At, ThreadsOK
    <3>2. D = C + 1
      BY <3>a, ReaderCount
    <3> HIDE DEF C, D
    <3>3. QED
      BY <1>c, <1>g, <1>i, <2>1, <2>2, <3>1, <3>a, <3>2
  <2>3. CASE ~(waitsem > 0)
    <3>1. waitsem' = waitsem /\ waitsem = 0 /\ tpc' = [tpc EXCEPT ![t] = "blocked"]
      BY <1>4, <1>c, <2>3 DEF ReadBegin
    <3>2. At("granted")' = At("granted")
      BY <1>0, <2>1, <3>1 DEF At, ThreadsOK
    <3>3. D = C
      BY <3>2
    <3> HIDE DEF C, D
    <3>4. QED
      BY <1>c, <1>g, <1>i, <2>1, <3>1, <3>2, <3>3
  <2>4. QED
    BY <2>2, <2>3
<1>5. ASSUME NEW t \in Threads, ReadSample(t) \/ ReadFails(t) PROVE PostsMatchSamples'
  <2>1. /\ tpc[t] = "granted" /\ tpc' = [tpc EXCEPT ![t] = "idle"]
        /\ UNCHANGED <<vfs, opened, waitsem>>
        /\ IF opened /\ queue # <<>> THEN queue' = Tail(queue) ELSE queue' = queue
    BY <1>5 DEF ReadSample, ReadFails, stream
  <2>a. /\ At("granted")' = At("granted") \ {t} /\ t \in At("granted")
        /\ At("blocked")' = At("blocked")
    BY <1>0, <2>1 DEF At, ThreadsOK
  <2>2. D = C - 1
    BY <2>a, ReaderCount
  <2>3. /\ queue = <<>> <=> Len(queue) = 0
        /\ opened /\ queue # <<>> => Len(queue') = Len(queue) - 1
        /\ ~(opened /\ queue # <<>>) => Len(queue') = 0 /\ Len(queue) = 0
    BY <1>0, <2>1, LenQueue DEF LockInv
  <2> HIDE DEF C, D
  <2>4. QED
    BY <1>c, <1>g, <1>i, <2>1, <2>a, <2>2, <2>3
<1>6. ASSUME NEW t \in Threads, PollSetup(t) \/ PollTeardown(t) PROVE PostsMatchSamples'
  <2>1. /\ tpc[t] \in {"idle", "polling"}
        /\ \E new \in {"idle", "polling"} : tpc' = [tpc EXCEPT ![t] = new]
        /\ UNCHANGED <<vfs, opened, waitsem, queue>>
    BY <1>6 DEF PollSetup, PollTeardown, stream
  <2>2. PICK new \in {"idle", "polling"} : tpc' = [tpc EXCEPT ![t] = new]
    BY <2>1
  <2>3. At("granted")' = At("granted") /\ At("blocked")' = At("blocked")
    BY <1>0, <2>1, <2>2 DEF At, ThreadsOK
  <2>4. QED
    BY <1>i, <1>g, <2>1, <2>3
<1>7. QED
  BY <1>1, <1>2, <1>3, <1>4, <1>5, <1>6 DEF Next, Worker, FileOperation, Quiet

PostsInv == TypeOK /\ LockInv /\ PostsMatchSamples

LEMMA PostsHold == Spec => []PostsInv
<1>1. Init => PostsInv
  <2> SUFFICES ASSUME Init PROVE PostsInv
    OBVIOUS
  <2>1. At("granted") = {} /\ At("blocked") = {} /\ Len(queue) = 0
    BY EmptyQueue DEF Init, At
  <2>2. PostsMatchSamples
    BY <2>1, FS_EmptySet DEF Init, PostsMatchSamples
  <2>3. QED
    BY <2>2, TypeInit DEF Init, LockInv, PostsInv
<1>2. PostsInv /\ [Next]_vars => PostsInv'
  BY TypeParts, TypeStep, LockStep, PostsStep DEF PostsInv
<1>3. QED
  BY <1>1, <1>2, PTL DEF Spec

(* For every number of readers and every queue depth: no sample is without *)
(* a wakeup and no reader sleeps beside one, over resets and closes under  *)
(* a blocked read (enqueue, read, reset_queue).                            *)
THEOREM NoWakeupLost == Spec => []PostsMatchSamples
BY PostsHold, PTL DEF PostsInv

-----------------------------------------------------------------------------
(* Pollers.  The VFS that defers close admits one poller at a time, who is *)
(* the registered one.                                                     *)
LEMMA PollStep ==
  TypeOK /\ PollSeesSamples /\ [Next]_vars => PollSeesSamples'
<1> SUFFICES ASSUME TypeOK, PollSeesSamples, [Next]_vars, vfs' = "counted",
                    NEW u \in At("polling")'
             PROVE  fds' = u /\ (queue' # <<>> => u \in notified')
  BY DEF PollSeesSamples
<1>0. /\ DeviceOK /\ StreamOK /\ ThreadsOK
      /\ u \in Threads /\ tpc'[u] = "polling" /\ None \notin Threads
      /\ tpc \in [Threads -> Positions]
  BY TypeParts, Gt911Assumption DEF Gt911Assumption, At, ThreadsOK
<1>v. vfs' = vfs
  BY DEF Next, vars, Worker, FileOperation, Publish, Interrupt, WorkerIdle, WorkerTick,
     WorkerTake, StatusNotReady, StatusReady, ReadPoints, ClearFails, ClearStatus, Open,
     OpenFails, Close, ReadBegin, ReadSample, ReadFails, PollSetup, PollTeardown
<1>i. \A t \in Threads : tpc[t] = "polling" => fds = t /\ (queue # <<>> => t \in notified)
  BY <1>v DEF PollSeesSamples, At
<1>1. CASE Quiet \/ UNCHANGED vars
  BY <1>0, <1>1, <1>i, QuietMoves
<1>2. CASE ClearStatus
  <2>1. UNCHANGED fds
    BY <1>2 DEF ClearStatus
  <2>2. CASE UNCHANGED <<stream, waitsem, tpc, notified>>
    BY <1>0, <1>i, <2>1, <2>2 DEF stream
  <2>3. ASSUME NEW fit \in Seq(Queued), Processed(fit)
        PROVE  fds' = u /\ (queue' # <<>> => u \in notified')
    <3>1. At("polling")' = At("polling")
      BY <1>0, <2>3, PostGives DEF Processed
    <3>2. u \in At("polling")
      BY <3>1
    <3>3. fds = u /\ (queue # <<>> => u \in notified)
      BY <1>i, <3>2 DEF At
    <3>4. CASE fit = <<>>
      <4>1. queue' = queue /\ notified' = notified
        BY <1>0, <2>3, <3>4, ConcatEmptySeq DEF Processed, StreamOK
      <4>2. QED
        BY <2>1, <3>3, <4>1
    <3>5. CASE fit # <<>>
      BY <1>0, <2>1, <2>3, <3>3, <3>5 DEF Processed
    <3>6. QED
      BY <3>4, <3>5
  <2>4. QED
    BY <1>0, <1>2, <2>2, <2>3, ClearStatusProcesses
<1>3. CASE Open \/ OpenFails
  BY <1>0, <1>3, <1>i DEF Open, OpenFails, reset_queue, clients
<1>4. CASE Close
  <2>1. At("idle") = Threads /\ tpc' = tpc
    BY <1>4, <1>v DEF Close
  <2>2. QED
    BY <1>0, <2>1 DEF At
<1>5. ASSUME NEW t \in Threads, ReadBegin(t) \/ ReadFails(t)
      PROVE  fds' = u /\ (queue' # <<>> => u \in notified')
  <2>1. /\ UNCHANGED <<fds, queue, notified>>
        /\ \E new \in {"granted", "blocked", "idle"} : tpc' = [tpc EXCEPT ![t] = new]
    BY <1>5 DEF ReadBegin, ReadFails, stream
  <2>2. tpc[u] = "polling"
    BY <1>0, <2>1
  <2>3. QED
    BY <1>0, <1>i, <2>1, <2>2
<1>6. ASSUME NEW t \in Threads, ReadSample(t)
      PROVE  fds' = u /\ (queue' # <<>> => u \in notified')
  <2>1. UNCHANGED <<fds, notified>> /\ queue # <<>> /\ tpc' = [tpc EXCEPT ![t] = "idle"]
    BY <1>6 DEF ReadSample
  <2>2. tpc[u] = "polling"
    BY <1>0, <2>1
  <2>3. QED
    BY <1>0, <1>i, <2>1, <2>2
<1>7. ASSUME NEW t \in Threads, PollSetup(t)
      PROVE  fds' = u /\ (queue' # <<>> => u \in notified')
  <2>1. /\ fds = None /\ fds' = t /\ queue' = queue /\ tpc' = [tpc EXCEPT ![t] = "polling"]
        /\ queue # <<>> => t \in notified'
    BY <1>7 DEF PollSetup, stream
  <2>2. u = t
    BY <1>0, <1>i, <2>1
  <2>3. QED
    BY <2>1, <2>2
<1>8. ASSUME NEW t \in Threads, PollTeardown(t)
      PROVE  fds' = u /\ (queue' # <<>> => u \in notified')
  <2>1. tpc[t] = "polling" /\ tpc' = [tpc EXCEPT ![t] = "idle"]
    BY <1>8 DEF PollTeardown
  <2>2. u # t /\ tpc[u] = "polling"
    BY <1>0, <2>1
  <2>3. QED
    BY <1>0, <1>i, <2>1, <2>2
<1>9. QED
  BY <1>1, <1>2, <1>3, <1>4, <1>5, <1>6, <1>7, <1>8 DEF Next, Worker, FileOperation, Quiet

(* For every number of threads and every queue depth: with a VFS that      *)
(* holds the file during a call, a poller is registered, and notified as   *)
(* soon as a sample is there (poll, enqueue).                              *)
THEOREM PollersAreNotified == Spec => []PollSeesSamples
<1>1. Init => TypeOK /\ PollSeesSamples
  BY TypeInit DEF Init, PollSeesSamples, At
<1>2. (TypeOK /\ PollSeesSamples) /\ [Next]_vars => (TypeOK /\ PollSeesSamples)'
  BY TypeStep, PollStep
<1>3. QED
  BY <1>1, <1>2, PTL DEF Spec

-----------------------------------------------------------------------------
(* The stream.                                                             *)

LEMMA StreamRun == StreamAgrees <=> (opened => Run(view, queue, Finger))
BY DEF StreamAgrees, Run, States

LEMMA StreamRunNext == StreamAgrees' <=> (opened' => Run(view', queue', Finger'))
BY DEF StreamAgrees, Run, States

LEMMA StreamAgreesStep ==
  TypeOK /\ LockInv /\ StreamAgreesUnlessFull /\ [Next]_vars => StreamAgreesUnlessFull'
<1> SUFFICES ASSUME TypeOK, LockInv, StreamAgreesUnlessFull, [Next]_vars, ~dropped', opened'
             PROVE  Run(view', queue', Finger')
  BY StreamRunNext DEF StreamAgreesUnlessFull
<1>0. DeviceOK /\ StreamOK /\ ThreadsOK
  BY TypeParts
<1>i. opened /\ ~dropped => Run(view, queue, Finger)
  BY StreamRun DEF StreamAgreesUnlessFull
<1>u. ASSUME UNCHANGED <<view, queue, pressed, track, dropped, opened>>
      PROVE  Run(view', queue', Finger')
  <2>1. Finger' = Finger
    BY <1>u DEF Finger
  <2>2. QED
    BY <1>i, <1>u, <2>1
<1>1. CASE Quiet \/ UNCHANGED vars
  BY <1>1, <1>u, QuietMoves
<1>2. CASE ClearStatus
  <2>1. UNCHANGED <<view, opened>>
    BY <1>2 DEF ClearStatus
  <2>2. CASE UNCHANGED <<stream, waitsem, tpc, notified>>
    BY <1>u, <2>1, <2>2 DEF stream
  <2>3. ASSUME NEW fit \in Seq(Queued), Processed(fit) PROVE Run(view', queue', Finger')
    <3>1. /\ got \in Seq(Points) /\ queue' = queue \o fit /\ fit = Samples(got) /\ ~dropped
          /\ pressed' = (got # <<>>)
          /\ track' = IF got = <<>> THEN track ELSE Selected(got)
      BY <2>3 DEF Processed
    <3>2. Run(view, queue, Finger)
      BY <1>i, <2>1, <3>1
    <3>3. Run(Finger, fit, IF got = <<>> THEN None ELSE Selected(got).id)
      BY <1>0, <3>1, SamplesRun
    <3>4. Finger' = IF got = <<>> THEN None ELSE Selected(got).id
      BY <3>1 DEF Finger
    <3>5. queue \in Seq(Queued)
      BY <1>0 DEF StreamOK
    <3>6. Run(view, queue \o fit, Finger')
      BY <2>3, <3>2, <3>3, <3>4, <3>5, RunConcat
    <3>7. QED
      BY <2>1, <3>1, <3>6
  <2>4. QED
    BY <1>0, <1>2, <2>2, <2>3, ClearStatusProcesses
<1>3. CASE Open
  <2>1. view' = None /\ queue' = <<>> /\ Finger' = None
    BY <1>3 DEF Open, reset_queue, clients, LockInv, Finger
  <2>2. Run(None, <<>>, None)
    BY RunEmpty DEF States
  <2>3. QED
    BY <2>1, <2>2
<1>4. CASE OpenFails \/ Close
  BY <1>4 DEF OpenFails, Close
<1>5. ASSUME NEW t \in Threads, ReadSample(t) PROVE Run(view', queue', Finger')
  <2>1. /\ queue # <<>> /\ queue' = Tail(queue)
        /\ view' = IF Head(queue).flag = "up" THEN None ELSE Head(queue).id
        /\ UNCHANGED <<opened, pressed, track, dropped>>
    BY <1>5 DEF ReadSample
  <2>2. Finger' = Finger /\ Run(view, queue, Finger) /\ queue \in Seq(Queued)
    BY <1>0, <1>i, <2>1 DEF Finger, StreamOK
  <2>3. QED
    BY <2>1, <2>2, RunTail
<1>6. ASSUME NEW t \in Threads,
             ReadBegin(t) \/ ReadFails(t) \/ PollSetup(t) \/ PollTeardown(t)
      PROVE  Run(view', queue', Finger')
  BY <1>6, <1>u DEF ReadBegin, ReadFails, PollSetup, PollTeardown, stream
<1>7. QED
  BY <1>1, <1>2, <1>3, <1>4, <1>5, <1>6 DEF Next, Worker, FileOperation, Quiet

(* For every set of frames and every queue depth: as long as no sample was *)
(* dropped, what the client reads is a sequence of whole gestures that     *)
(* ends in the driver's own state (process_points, enqueue).               *)
THEOREM GesturesAreWhole == Spec => []StreamAgreesUnlessFull
<1>1. Init => StreamAgreesUnlessFull
  BY DEF Init, StreamAgreesUnlessFull, StreamAgrees
<1>2. PostsInv /\ StreamAgreesUnlessFull /\ [Next]_vars => StreamAgreesUnlessFull'
  BY StreamAgreesStep DEF PostsInv
<1>3. QED
  BY <1>1, <1>2, PostsHold, PTL DEF Spec
=============================================================================
