-------------------------- MODULE WorkerPoolProofs --------------------------
(***************************************************************************)
(* Proofs about WorkerPool, for every job bound and every concurrency: no  *)
(* job is lost or done twice, no worker leaves while a job remains, and the*)
(* pool implements the abstract batch of JobMap.                           *)
(***************************************************************************)
EXTENDS WorkerPool, FiniteSetTheorems, SequenceTheorems, TLAPS

-----------------------------------------------------------------------------
(* The inductive invariant.                                                *)

\* The worker in recv is the one that holds the mutex.
LockInv == \A w \in Workers : wpc[w] = "recv" <=> rxLock = w

\* What the main thread's progress says of the rest of the pool.
MainInv ==
    /\ txOpen <=> pmain = "send"
    /\ pmain \in {"collect", "returned"} => sent = njobs
    /\ pmain \in {"send", "collect"} => njobs > 0 /\ wpc[1] # "none"
    /\ pmain = "returned" => AllExited
    /\ pmain = "idle" => PoolInit

PoolInv ==
    /\ PoolTypeOK
    /\ LockInv
    /\ MainInv
    /\ ExactlyOnce
    /\ ExitOnlyWhenDrained

-----------------------------------------------------------------------------
(* Channels as sequences.                                                  *)

\* Sending on a channel adds one element to what it holds.
LEMMA AppendToSet ==
    ASSUME NEW S, NEW s \in Seq(S), NEW x \in S
    PROVE  /\ Append(s, x) \in Seq(S)
           /\ ToSet(Append(s, x)) = ToSet(s) \cup {x}
           /\ Distinct(s) /\ x \notin ToSet(s) => Distinct(Append(s, x))
<1>1. /\ Append(s, x) \in Seq(S)
      /\ DOMAIN Append(s, x) = 1..(Len(s) + 1)
      /\ \A i \in 1..Len(s) : Append(s, x)[i] = s[i]
      /\ Append(s, x)[Len(s) + 1] = x
      /\ DOMAIN s = 1..Len(s)
      /\ Len(s) \in Nat
    BY AppendProperties, LenProperties
<1>2. ToSet(Append(s, x)) = ToSet(s) \cup {x}
  <2>1. 1..(Len(s) + 1) = 1..Len(s) \cup {Len(s) + 1}
      BY <1>1
  <2> QED BY <1>1, <2>1 DEF ToSet
<1>3. ASSUME Distinct(s), x \notin ToSet(s)  PROVE Distinct(Append(s, x))
    BY <1>1, <1>3 DEF Distinct, ToSet
<1> QED BY <1>1, <1>2, <1>3

\* Receiving from a channel removes its first element.
LEMMA HeadTailToSet ==
    ASSUME NEW S, NEW s \in Seq(S), s # <<>>
    PROVE  /\ Head(s) \in S /\ Tail(s) \in Seq(S)
           /\ ToSet(s) = ToSet(Tail(s)) \cup {Head(s)}
           /\ Distinct(s) => Distinct(Tail(s)) /\ Head(s) \notin ToSet(Tail(s))
<1>1. /\ Head(s) \in S
      /\ Tail(s) \in Seq(S)
      /\ DOMAIN s = 1..Len(s)
      /\ DOMAIN Tail(s) = 1..(Len(s) - 1)
      /\ \A i \in 1..(Len(s) - 1) : Tail(s)[i] = s[i + 1]
      /\ Len(s) \in Nat \ {0}
    BY HeadTailProperties, LenProperties, EmptySeq
<1>2. Head(s) = s[1]
    OBVIOUS
<1>3. ToSet(s) = ToSet(Tail(s)) \cup {Head(s)}
  <2>1. ASSUME NEW i \in 1..Len(s)  PROVE s[i] \in ToSet(Tail(s)) \cup {Head(s)}
    <3>1. CASE i = 1
        BY <3>1, <1>2
    <3>2. CASE i # 1
      <4>1. i - 1 \in 1..(Len(s) - 1) /\ Tail(s)[i - 1] = s[i]
          BY <3>2, <1>1
      <4> QED BY <4>1, <1>1 DEF ToSet
    <3> QED BY <3>1, <3>2
  <2>2. ASSUME NEW i \in 1..(Len(s) - 1)  PROVE Tail(s)[i] \in ToSet(s)
      BY <2>2, <1>1 DEF ToSet
  <2>3. Head(s) \in ToSet(s)
      BY <1>1, <1>2 DEF ToSet
  <2> QED BY <1>1, <2>1, <2>2, <2>3 DEF ToSet
<1>4. ASSUME Distinct(s)  PROVE Distinct(Tail(s)) /\ Head(s) \notin ToSet(Tail(s))
  <2>1. Distinct(Tail(s))
      BY <1>1, <1>4 DEF Distinct
  <2>2. \A i \in 1..(Len(s) - 1) : Tail(s)[i] # Head(s)
      BY <1>1, <1>2, <1>4 DEF Distinct
  <2> QED BY <1>1, <2>1, <2>2 DEF ToSet
<1> QED BY <1>1, <1>3, <1>4

\* An empty channel holds no job.
LEMMA EmptyToSet == ToSet(<<>>) = {} /\ Distinct(<<>>)
BY DEF ToSet, Distinct

\* A strictly increasing function needs at least as much room as it has arguments.
LEMMA IncreasingNeedsRoom ==
    ASSUME NEW a \in Int, NEW b \in Int, NEW c \in Int, NEW d \in Int,
           a <= b + 1, c <= d + 1, NEW f \in [a..b -> c..d],
           \A x, y \in a..b : x < y => f[x] < f[y]
    PROVE  b - a <= d - c
<1>1. f \in Injection(a..b, c..d)
  <2>1. ASSUME NEW x \in a..b, NEW y \in a..b, f[x] = f[y]  PROVE x = y
    <3>1. ~(x < y) /\ ~(y < x)
        BY <2>1
    <3> QED BY <3>1
  <2> QED BY <2>1 DEF Injection, IsInjective
<1>2. Cardinality(a..b) <= Cardinality(c..d)
    BY <1>1, FS_Interval, FS_Injection
<1>3. Cardinality(a..b) = b - a + 1 /\ Cardinality(c..d) = d - c + 1
    BY FS_Interval
<1>4. b - a + 1 <= d - c + 1
    BY <1>2, <1>3
<1> QED BY <1>4

\* A strictly increasing function from 1..n to itself leaves every number where
\* it is: i - 1 arguments have their values below t[i] and n - i above it.
LEMMA IncreasingIsIdentity ==
    ASSUME NEW n \in Nat, NEW t \in [1..n -> 1..n],
           \A i, j \in 1..n : i < j => t[i] < t[j]
    PROVE  t = [i \in 1..n |-> i]
<1> SUFFICES ASSUME NEW i \in 1..n  PROVE t[i] = i
    OBVIOUS
<1>1. t[i] \in 1..n /\ i \in Nat /\ t[i] \in Nat
    OBVIOUS
<1>2. i <= t[i]
  <2>1. PICK b \in Int, d \in Int : b = i - 1 /\ d = t[i] - 1
      BY <1>1
  <2> DEFINE f == [j \in 1..b |-> t[j]]
  <2>2. \A j \in 1..b : j \in 1..n /\ t[j] \in 1..d
      BY <1>1, <2>1
  <2>3. f \in [1..b -> 1..d] /\ \A x, y \in 1..b : x < y => f[x] < f[y]
      BY <2>2
  <2> HIDE DEF f
  <2>4. 1 \in Int /\ 1 <= b + 1 /\ 1 <= d + 1
      BY <1>1, <2>1
  <2>5. b - 1 <= d - 1
      BY <2>3, <2>4, IncreasingNeedsRoom
  <2> QED BY <1>1, <2>1, <2>5
<1>3. t[i] <= i
  <2>1. PICK a \in Int, c \in Int : a = i + 1 /\ c = t[i] + 1
      BY <1>1
  <2> DEFINE f == [j \in a..n |-> t[j]]
  <2>2. \A j \in a..n : j \in 1..n /\ t[j] \in c..n
      BY <1>1, <2>1
  <2>3. f \in [a..n -> c..n] /\ \A x, y \in a..n : x < y => f[x] < f[y]
      BY <2>2
  <2> HIDE DEF f
  <2>4. n \in Int /\ a <= n + 1 /\ c <= n + 1
      BY <1>1, <2>1
  <2>5. n - a <= n - c
      BY <2>3, <2>4, IncreasingNeedsRoom
  <2> QED BY <1>1, <2>1, <2>5
<1> QED BY <1>1, <1>2, <1>3

\* Sorting results whose indices are exactly 1..n, each once, gives 1, 2, .., n.
LEMMA SortKeepsResults ==
    ASSUME NEW n \in Nat, NEW s \in Seq(1..n), Distinct(s), ToSet(s) = 1..n
    PROVE  /\ ByIndex(s) \in Seq(1..n)
           /\ ToSet(ByIndex(s)) = 1..n
           /\ Distinct(ByIndex(s))
           /\ ByIndex(s) = [i \in 1..n |-> i]
<1> DEFINE Sorted(t) == /\ ToSet(t) = ToSet(s)
                        /\ \A i, j \in 1..Len(s) : i < j => t[i] <= t[j]
           id == [i \in 1..n |-> i]
<1>1. Len(s) \in Nat /\ DOMAIN s = 1..Len(s) /\ s \in [1..Len(s) -> 1..n]
    BY LenProperties
<1>2. Len(s) = n
  <2>1. s \in Bijection(1..Len(s), 1..n)
      BY <1>1 DEF Bijection, Injection, Surjection, IsInjective, Distinct, ToSet
  <2>2. IsFiniteSet(1..n) /\ Cardinality(1..n) = n
      BY FS_Interval
  <2>3. IsFiniteSet(1..Len(s)) /\ Cardinality(1..Len(s)) = Len(s)
    <3> DEFINE m == Len(s)
    <3>1. m \in Nat
        BY <1>1
    <3> HIDE DEF m
    <3>2. IsFiniteSet(1..m) /\ Cardinality(1..m) = m
        BY <3>1, FS_Interval
    <3> QED BY <3>2 DEF m
  <2>4. ExistsBijection(1..Len(s), 1..n)
      BY <2>1 DEF ExistsBijection
  <2> QED BY <2>2, <2>3, <2>4, FS_Bijection
<1>3. id \in [1..Len(s) -> ToSet(s)] /\ Sorted(id)
  <2>1. ToSet(id) = 1..n
      BY DEF ToSet
  <2>2. id \in [1..Len(s) -> 1..n]
      BY <1>2
  <2>3. \A i, j \in 1..Len(s) : i < j => id[i] <= id[j]
      BY <1>2
  <2> QED BY <2>1, <2>2, <2>3
<1>4. ByIndex(s) \in [1..n -> 1..n] /\ Sorted(ByIndex(s))
    BY <1>2, <1>3 DEF ByIndex
<1>5. ByIndex(s) \in Seq(1..n)
    BY <1>4
<1>6. Distinct(ByIndex(s))
  <2>1. ByIndex(s) \in Surjection(1..n, 1..n)
      BY <1>4 DEF Surjection, ToSet
  <2>2. ByIndex(s) \in Injection(1..n, 1..n)
      BY <2>1, FS_SurjSameCardinalityImpliesInj, FS_Interval
  <2> QED BY <1>4, <2>2 DEF Injection, IsInjective, Distinct
<1>7. ByIndex(s) = [i \in 1..n |-> i]
  <2>1. \A i, j \in 1..n : i < j => ByIndex(s)[i] < ByIndex(s)[j]
    <3> SUFFICES ASSUME NEW i \in 1..n, NEW j \in 1..n, i < j
                 PROVE  ByIndex(s)[i] < ByIndex(s)[j]
        OBVIOUS
    <3>1. ByIndex(s)[i] <= ByIndex(s)[j]
        BY <1>2, <1>4
    <3>2. ByIndex(s)[i] # ByIndex(s)[j]
      <4>1. i # j /\ DOMAIN ByIndex(s) = 1..n
          BY <1>4
      <4> HIDE DEF Sorted
      <4> QED BY <4>1, <1>6 DEF Distinct
    <3>3. ByIndex(s)[i] \in 1..n /\ ByIndex(s)[j] \in 1..n
        BY <1>4
    <3> HIDE DEF Sorted
    <3> QED BY <3>1, <3>2, <3>3
  <2> QED BY <1>4, <2>1, IncreasingIsIdentity
<1> QED BY <1>4, <1>5, <1>6, <1>7

-----------------------------------------------------------------------------
(* Every action preserves the invariant.                                   *)

\* The invariant holds before the call.
LEMMA InitInv == PoolInit => PoolInv
<1> SUFFICES ASSUME PoolInit PROVE PoolInv
    OBVIOUS
<1> USE PoolAssumption DEF PoolInit
<1>1. PoolTypeOK
  <2>1. <<>> \in Seq(Jobs)
      OBVIOUS
  <2>2. njobs \in 0..MaxJobs /\ sent \in 0..njobs /\ hand \in [Workers -> 0..njobs]
      OBVIOUS
  <2> QED BY <2>1, <2>2 DEF PoolTypeOK
<1>2. LockInv /\ ExitOnlyWhenDrained
    BY DEF LockInv, ExitOnlyWhenDrained, Workers, Nobody
<1>3. MainInv
    BY DEF MainInv
<1>4. NoCopies
    BY EmptyToSet DEF NoCopies
<1>5. Partition
    BY EmptyToSet DEF Partition, Unsent, InHand, Jobs
<1> QED BY <1>1, <1>2, <1>3, <1>4, <1>5 DEF PoolInv, ExactlyOnce

\* The same of a next state that is an initial one: what PoolGone leaves.
LEMMA InitInvNext == PoolInit' => PoolInv'
BY InitInv, PTL

\* Starting the call keeps the invariant: every job is still to be sent.
LEMMA StartInv ==
    ASSUME PoolInv, NEW n \in 0..MaxJobs, StartPool(n)
    PROVE  PoolInv'
<1> USE PoolAssumption DEF StartPool, PoolInv
<1>1. PoolInit
    BY DEF MainInv
<1> USE DEF PoolInit
<1>2. PoolTypeOK'
    BY <1>1 DEF PoolTypeOK, Workers, Nobody, Jobs
<1>3. LockInv' /\ ExitOnlyWhenDrained'
    BY <1>1 DEF LockInv, ExitOnlyWhenDrained, Workers, Nobody
<1>4. MainInv'
  <2>1. CASE n = 0
    <3>1. \A w \in Workers : wpc'[w] = "none"
        BY <2>1 DEF Workers
    <3>2. pmain' = "returned" /\ txOpen' = FALSE /\ sent' = njobs'
        BY <1>1, <2>1
    <3> QED BY <3>1, <3>2 DEF MainInv, AllExited
  <2>2. CASE n # 0
    <3>1. wpc'[1] = "lock"
        BY <2>2 DEF Workers
    <3>2. pmain' = "send" /\ njobs' > 0
        BY <2>2
    <3>3. txOpen' = TRUE
        BY <2>2, Zenon
    <3> QED BY <3>1, <3>2, <3>3 DEF MainInv
  <2> QED BY <2>1, <2>2
<1>5. NoCopies'
  <2>1. \A v \in Workers : wpc'[v] # "work"
      BY <1>1
  <2> QED BY <1>1, <2>1, EmptyToSet DEF NoCopies
<1>6. Partition'
  <2>1. InHand' = {}
      BY DEF InHand
  <2>2. Unsent' = 1..n /\ Jobs' = 1..n
      BY <1>1 DEF Unsent, Jobs
  <2> QED BY <1>1, <2>1, <2>2, EmptyToSet DEF Partition
<1> QED BY <1>2, <1>3, <1>4, <1>5, <1>6 DEF ExactlyOnce

\* A send moves one job from the vector to the channel.
LEMMA SendInv ==
    ASSUME PoolInv, Send
    PROVE  PoolInv'
<1> USE PoolAssumption DEF Send, PoolInv
<1>1. /\ sent + 1 \in Unsent
      /\ sent + 1 \in Jobs
      /\ Unsent' = Unsent \ {sent + 1}
      /\ Jobs' = Jobs
    BY DEF PoolTypeOK, Unsent, Jobs
<1>2. /\ queue' \in Seq(Jobs)
      /\ ToSet(queue') = ToSet(queue) \cup {sent + 1}
      /\ Distinct(queue')
    BY <1>1, AppendToSet DEF PoolTypeOK, ExactlyOnce, NoCopies, Partition
<1>3. PoolTypeOK'
    BY <1>1, <1>2 DEF PoolTypeOK
<1>4. LockInv' /\ ExitOnlyWhenDrained'
    BY DEF LockInv, ExitOnlyWhenDrained, PoolTypeOK
<1>5. MainInv'
    BY DEF MainInv, AllExited
<1>6. NoCopies'
    BY <1>2 DEF NoCopies, ExactlyOnce
<1>7. Partition'
  <2>1. InHand' = InHand
      BY DEF InHand
  <2> QED BY <1>1, <1>2, <2>1 DEF Partition, ExactlyOnce
<1> QED BY <1>3, <1>4, <1>5, <1>6, <1>7 DEF ExactlyOnce

\* Dropping job_tx moves no job; it comes after the last send.
LEMMA CloseInv ==
    ASSUME PoolInv, CloseJobs
    PROVE  PoolInv'
<1> USE DEF CloseJobs, PoolInv
<1>1. PoolTypeOK'
    BY DEF PoolTypeOK, Jobs
<1>2. LockInv' /\ ExitOnlyWhenDrained'
    BY DEF LockInv, ExitOnlyWhenDrained
<1>3. MainInv'
    BY DEF MainInv, AllExited
<1>4. NoCopies' /\ Partition'
    BY DEF ExactlyOnce, NoCopies, Partition, Unsent, InHand, Jobs
<1> QED BY <1>1, <1>2, <1>3, <1>4 DEF ExactlyOnce

\* Taking the mutex moves no job.
LEMMA LockStepInv ==
    ASSUME PoolInv, NEW w \in Workers, Lock(w)
    PROVE  PoolInv'
<1> USE DEF Lock, PoolInv
<1>1. PoolTypeOK'
    BY DEF PoolTypeOK, Jobs
<1>2. LockInv'
    BY DEF LockInv, PoolTypeOK, Workers, Nobody
<1>3. ExitOnlyWhenDrained'
    BY DEF ExitOnlyWhenDrained, PoolTypeOK
<1>4. MainInv'
    BY DEF MainInv, AllExited, PoolTypeOK, PoolInit
<1>5. NoCopies'
    BY DEF ExactlyOnce, NoCopies, PoolTypeOK
<1>6. Partition'
  <2>1. InHand' = InHand
      BY DEF InHand, PoolTypeOK
  <2> QED BY <2>1 DEF ExactlyOnce, Partition, Unsent, Jobs
<1> QED BY <1>1, <1>2, <1>3, <1>4, <1>5, <1>6 DEF ExactlyOnce

\* A recv moves one job from the channel into one hand and frees the mutex.
LEMMA RecvInv ==
    ASSUME PoolInv, NEW w \in Workers, Recv(w)
    PROVE  PoolInv'
<1> USE DEF Recv, PoolInv
<1> DEFINE j == Head(queue)
<1>1. /\ j \in Jobs
      /\ queue' \in Seq(Jobs)
      /\ ToSet(queue) = ToSet(queue') \cup {j}
      /\ Distinct(queue')
      /\ j \notin ToSet(queue')
    BY HeadTailToSet DEF PoolTypeOK, ExactlyOnce, NoCopies
<1> HIDE DEF j
<1>2. hand' = [hand EXCEPT ![w] = j]
    BY DEF j
<1>3. InHand' = InHand \cup {j}
    BY <1>2 DEF InHand, PoolTypeOK
<1>4. j \notin InHand
    BY <1>1 DEF ExactlyOnce, Partition
<1>5. PoolTypeOK'
    BY <1>1, <1>2 DEF PoolTypeOK, Jobs
<1>6. LockInv'
    BY DEF LockInv, PoolTypeOK, Workers, Nobody
<1>7. ExitOnlyWhenDrained'
    BY DEF ExitOnlyWhenDrained, PoolTypeOK
<1>8. MainInv'
    BY DEF MainInv, AllExited, PoolTypeOK, PoolInit
<1>9. NoCopies'
    BY <1>1, <1>2, <1>4 DEF ExactlyOnce, NoCopies, PoolTypeOK, InHand
<1>10. Partition'
    BY <1>1, <1>3, <1>4 DEF ExactlyOnce, Partition, Unsent, Jobs
<1> QED BY <1>5, <1>6, <1>7, <1>8, <1>9, <1>10 DEF ExactlyOnce

\* A worker leaves only when nothing is left to take.
LEMMA RecvClosedInv ==
    ASSUME PoolInv, NEW w \in Workers, RecvClosed(w)
    PROVE  PoolInv'
<1> USE DEF RecvClosed, PoolInv
<1>1. PoolTypeOK'
    BY DEF PoolTypeOK, Jobs
<1>2. LockInv'
    BY DEF LockInv, PoolTypeOK, Workers, Nobody
<1>3. pmain \in {"collect", "returned"}
    BY DEF MainInv, PoolTypeOK, PoolInit
<1>4. ExitOnlyWhenDrained'
    BY <1>3 DEF ExitOnlyWhenDrained, MainInv
<1>5. MainInv'
    BY <1>3 DEF MainInv, AllExited, PoolTypeOK
<1>6. NoCopies'
    BY DEF ExactlyOnce, NoCopies, PoolTypeOK
<1>7. Partition'
  <2>1. InHand' = InHand
      BY DEF InHand, PoolTypeOK
  <2> QED BY <2>1 DEF ExactlyOnce, Partition, Unsent, Jobs
<1> QED BY <1>1, <1>2, <1>4, <1>5, <1>6, <1>7 DEF ExactlyOnce

\* A result moves its job from the hand to the result channel.
LEMMA SendResultInv ==
    ASSUME PoolInv, NEW w \in Workers, SendResult(w)
    PROVE  PoolInv'
<1> USE DEF SendResult, PoolInv
<1> DEFINE j == hand[w]
<1>1. j \in InHand
    BY DEF InHand
<1>2. j \in Jobs /\ j \notin ToSet(resq)
    BY <1>1 DEF ExactlyOnce, Partition
<1>3. /\ resq' \in Seq(Jobs)
      /\ ToSet(resq') = ToSet(resq) \cup {j}
      /\ Distinct(resq')
    BY <1>2, AppendToSet DEF PoolTypeOK, ExactlyOnce, NoCopies
<1>4. InHand' = InHand \ {j}
    BY DEF InHand, PoolTypeOK, ExactlyOnce, NoCopies
<1> HIDE DEF j
<1>5. PoolTypeOK'
    BY <1>3 DEF PoolTypeOK, Jobs
<1>6. LockInv'
    BY DEF LockInv, PoolTypeOK, Workers, Nobody
<1>7. ExitOnlyWhenDrained'
    BY DEF ExitOnlyWhenDrained, PoolTypeOK
<1>8. MainInv'
    BY DEF MainInv, AllExited, PoolTypeOK, PoolInit
<1>9. NoCopies'
    BY <1>3 DEF ExactlyOnce, NoCopies, PoolTypeOK
<1>10. Partition'
    BY <1>1, <1>3, <1>4 DEF ExactlyOnce, Partition, Unsent, Jobs
<1> QED BY <1>5, <1>6, <1>7, <1>8, <1>9, <1>10 DEF ExactlyOnce

\* Collecting moves one job from the result channel to the results.
LEMMA CollectInv ==
    ASSUME PoolInv, Collect
    PROVE  PoolInv'
<1> USE DEF Collect, PoolInv
<1> DEFINE j == Head(resq)
<1>1. /\ j \in Jobs
      /\ resq' \in Seq(Jobs)
      /\ ToSet(resq) = ToSet(resq') \cup {j}
      /\ Distinct(resq')
      /\ j \notin ToSet(resq')
    BY HeadTailToSet DEF PoolTypeOK, ExactlyOnce, NoCopies
<1>2. j \notin ToSet(collected)
    BY <1>1 DEF ExactlyOnce, Partition
<1>3. /\ collected' \in Seq(Jobs)
      /\ ToSet(collected') = ToSet(collected) \cup {j}
      /\ Distinct(collected')
    BY <1>1, <1>2, AppendToSet DEF PoolTypeOK, ExactlyOnce, NoCopies
<1> HIDE DEF j
<1>4. PoolTypeOK'
    BY <1>1, <1>3 DEF PoolTypeOK, Jobs
<1>5. LockInv' /\ ExitOnlyWhenDrained' /\ MainInv'
    BY DEF LockInv, ExitOnlyWhenDrained, MainInv, AllExited
<1>6. NoCopies'
    BY <1>1, <1>3 DEF ExactlyOnce, NoCopies
<1>7. Partition'
    BY <1>1, <1>2, <1>3 DEF ExactlyOnce, Partition, Unsent, Jobs, InHand
<1> QED BY <1>4, <1>5, <1>6, <1>7 DEF ExactlyOnce

\* When no worker is left every job has been collected; sorting keeps them all.
LEMMA ReturnInv ==
    ASSUME PoolInv, ReturnResults
    PROVE  /\ PoolInv'
           /\ ToSet(collected) = Jobs
           /\ ToSet(collected') = Jobs
           /\ collected' = [i \in 1..njobs |-> i]
<1> USE PoolAssumption DEF ReturnResults, PoolInv
<1>1. sent = njobs /\ queue = <<>>
  <2>1. 1 \in Workers
      BY DEF Workers
  <2>2. wpc[1] = "exited"
      BY <2>1 DEF MainInv, AllExited
  <2> QED BY <2>1, <2>2 DEF ExitOnlyWhenDrained
<1>2. InHand = {}
    BY DEF InHand, AllExited
<1>3. Unsent = {}
    BY <1>1 DEF Unsent, PoolTypeOK
<1>4. ToSet(collected) = Jobs
    BY <1>1, <1>2, <1>3, EmptyToSet DEF ExactlyOnce, Partition
<1>5. /\ collected' \in Seq(Jobs)
      /\ ToSet(collected') = Jobs
      /\ Distinct(collected')
      /\ collected' = [i \in 1..njobs |-> i]
  <2>1. njobs \in Nat /\ collected \in Seq(1..njobs) /\ Distinct(collected)
        /\ ToSet(collected) = 1..njobs
      BY <1>4 DEF PoolTypeOK, Jobs, ExactlyOnce, NoCopies
  <2> QED BY <2>1, SortKeepsResults DEF Jobs
<1>6. PoolTypeOK'
    BY <1>5 DEF PoolTypeOK, Jobs
<1>7. LockInv' /\ ExitOnlyWhenDrained'
    BY DEF LockInv, ExitOnlyWhenDrained
<1>8. MainInv'
    BY DEF MainInv, AllExited
<1>9. NoCopies'
    BY <1>5 DEF ExactlyOnce, NoCopies
<1>10. Partition'
    BY <1>4, <1>5 DEF ExactlyOnce, Partition, Unsent, Jobs, InHand
<1> QED BY <1>4, <1>5, <1>6, <1>7, <1>8, <1>9, <1>10 DEF ExactlyOnce

\* The end of the process puts the pool back where it began.
LEMMA GoneInv ==
    ASSUME PoolInv, PoolGone
    PROVE  PoolInv'
<1>1. PoolInit'
    BY DEF PoolGone, PoolInit
<1> QED BY <1>1, InitInvNext

\* A step that changes nothing keeps the invariant.
LEMMA StutterInv ==
    ASSUME PoolInv, UNCHANGED poolVars
    PROVE  PoolInv'
<1> USE DEF poolVars, PoolInv
<1>1. PoolTypeOK'
    BY DEF PoolTypeOK, Jobs
<1>2. LockInv' /\ ExitOnlyWhenDrained'
    BY DEF LockInv, ExitOnlyWhenDrained
<1>3. MainInv'
    BY DEF MainInv, AllExited, PoolInit
<1>4. NoCopies'
    BY DEF ExactlyOnce, NoCopies
<1>5. Partition'
    BY DEF ExactlyOnce, Partition, Unsent, InHand, Jobs
<1> QED BY <1>1, <1>2, <1>3, <1>4, <1>5 DEF ExactlyOnce

\* Every step of the pool keeps the invariant, in whatever module it is taken.
LEMMA StepInv ==
    ASSUME PoolInv, [PoolNext]_poolVars
    PROVE  PoolInv'
<1>1. ASSUME NEW n \in 0..MaxJobs, StartPool(n)  PROVE PoolInv'
    BY <1>1, StartInv
<1>2. CASE MainStep
    BY <1>2, SendInv, CloseInv, CollectInv, ReturnInv DEF MainStep
<1>3. ASSUME NEW w \in Workers, WorkerStep(w)  PROVE PoolInv'
    BY <1>3, LockStepInv, RecvInv, RecvClosedInv, SendResultInv DEF WorkerStep
<1>4. CASE PoolGone
    BY <1>4, GoneInv
<1>5. CASE UNCHANGED poolVars
    BY <1>5, StutterInv
<1> QED BY <1>1, <1>2, <1>3, <1>4, <1>5 DEF PoolNext

\* The inductive invariant of the pool holds in every reachable state.
THEOREM PoolInvariant == PoolSpec => []PoolInv
<1>1. PoolInit => PoolInv
    BY InitInv
<1>2. PoolInv /\ [PoolNext]_poolVars => PoolInv'
    BY StepInv
<1> QED BY <1>1, <1>2, PTL DEF PoolSpec

\* The caller finds the results in the order of the jobs.
InOrder == pmain = "returned" => collected = [i \in 1..njobs |-> i]

LEMMA StepInOrder ==
    ASSUME PoolInv, InOrder, [PoolNext]_poolVars
    PROVE  InOrder'
<1>1. ASSUME NEW n \in 0..MaxJobs, StartPool(n)  PROVE InOrder'
  <2>1. PoolInit
      BY <1>1 DEF StartPool, PoolInv, MainInv
  <2>2. n # 0 => pmain' # "returned"
      BY <1>1 DEF StartPool
  <2>3. n = 0 => njobs' = 0 /\ collected' = <<>>
      BY <1>1, <2>1 DEF StartPool, PoolInit
  <2>4. [i \in 1..0 |-> i] = <<>>
      OBVIOUS
  <2> QED BY <2>2, <2>3, <2>4 DEF InOrder
<1>2. CASE Send \/ CloseJobs \/ Collect
    BY <1>2 DEF Send, CloseJobs, Collect, InOrder
<1>3. CASE ReturnResults
    BY <1>3, ReturnInv DEF ReturnResults, InOrder
<1>4. ASSUME NEW w \in Workers, WorkerStep(w)  PROVE InOrder'
    BY <1>4 DEF WorkerStep, Lock, Recv, RecvClosed, SendResult, InOrder
<1>5. CASE PoolGone
    BY <1>5 DEF PoolGone, InOrder
<1>6. CASE UNCHANGED poolVars
    BY <1>6 DEF poolVars, InOrder
<1> QED BY <1>1, <1>2, <1>3, <1>4, <1>5, <1>6 DEF PoolNext, MainStep

\* What a worker works on is a job of the call, and the call is still on.
LEMMA HandIsJob ==
    ASSUME PoolInv, NEW w \in Workers, wpc[w] = "work"
    PROVE  hand[w] \in Jobs /\ pmain \in {"send", "collect"}
<1>1. hand[w] \in InHand
    BY DEF InHand
<1>2. hand[w] \in Jobs
    BY <1>1 DEF PoolInv, ExactlyOnce, Partition
<1>3. pmain \in {"send", "collect"}
    BY DEF PoolInv, PoolTypeOK, MainInv, AllExited, PoolInit
<1> QED BY <1>2, <1>3

-----------------------------------------------------------------------------
(* Where the jobs are, as the stages that use the pool see it: not taken,  *)
(* in a hand, or finished.                                                 *)

Pending == Unsent \cup ToSet(queue)
Finished == ToSet(resq) \cup ToSet(collected)

\* The two are parts of the jobs, and have nothing in common.
LEMMA PendingOrFinished ==
    ASSUME PoolInv
    PROVE  Pending \subseteq Jobs /\ Finished \subseteq Jobs /\ Pending \cap Finished = {}
BY DEF PoolInv, ExactlyOnce, Partition, Pending, Finished

\* A job in a hand is in no other place, and in no other hand.
LEMMA HandIsAlone ==
    ASSUME PoolInv, NEW w \in Workers, wpc[w] = "work"
    PROVE  /\ hand[w] \in Jobs /\ hand[w] \notin Pending /\ hand[w] \notin Finished
           /\ \A v \in Workers : wpc[v] = "work" /\ hand[v] = hand[w] => v = w
<1>1. hand[w] \in InHand
    BY DEF InHand
<1>2. hand[w] \in Jobs /\ hand[w] \notin Pending /\ hand[w] \notin Finished
    BY <1>1 DEF PoolInv, ExactlyOnce, Partition, Pending, Finished
<1>3. \A v \in Workers : wpc[v] = "work" /\ hand[v] = hand[w] => v = w
    BY DEF PoolInv, ExactlyOnce, NoCopies
<1> QED BY <1>2, <1>3

\* Before the call, or after its process, no worker works.
LEMMA IdlePool ==
    ASSUME PoolInit
    PROVE  Pending = {} /\ Finished = {} /\ (\A w \in Workers : wpc[w] = "none")
<1>1. Unsent = {}
    BY DEF PoolInit, Unsent
<1> QED BY <1>1, EmptyToSet DEF PoolInit, Pending, Finished

\* The same when the process ends, or when it ends before the call.
LEMMA EndMoves ==
    ASSUME PoolInv, PoolGone \/ (pmain = "idle" /\ UNCHANGED poolVars)
    PROVE  Pending' = {} /\ Finished' = {} /\ (\A w \in Workers : wpc'[w] = "none")
<1>1. CASE PoolGone
  <2>1. /\ njobs' = 0 /\ sent' = 0 /\ queue' = <<>> /\ resq' = <<>> /\ collected' = <<>>
        /\ \A w \in Workers : wpc'[w] = "none"
      BY <1>1 DEF PoolGone
  <2>2. Unsent' = {}
      BY <2>1 DEF Unsent
  <2> QED BY <2>1, <2>2, EmptyToSet DEF Pending, Finished
<1>2. CASE pmain = "idle" /\ UNCHANGED poolVars
  <2>1. PoolInit
      BY <1>2 DEF PoolInv, MainInv
  <2> QED BY <1>2, <2>1, IdlePool DEF poolVars, Pending, Finished, Unsent
<1> QED BY <1>1, <1>2

\* The call begins with nothing in a hand and nothing finished.
LEMMA StartMoves ==
    ASSUME PoolInv, NEW n \in 0..MaxJobs, StartPool(n)
    PROVE  Finished' = {} /\ (\A w \in Workers : wpc'[w] # "work")
<1>1. PoolInit
    BY DEF StartPool, PoolInv, MainInv
<1>2. resq' = <<>> /\ collected' = <<>>
    BY <1>1 DEF StartPool, PoolInit
<1>3. Finished' = {}
    BY <1>2, EmptyToSet DEF Finished
<1> QED BY <1>3 DEF StartPool

\* The main thread takes nothing from a worker and finishes nothing.
LEMMA MainMoves ==
    ASSUME PoolInv, MainStep
    PROVE  /\ Pending' \subseteq Pending /\ Finished' \subseteq Finished
           /\ wpc' = wpc /\ hand' = hand /\ njobs' = njobs
<1>1. wpc' = wpc /\ hand' = hand /\ njobs' = njobs
    BY DEF MainStep, Send, CloseJobs, Collect, ReturnResults
<1>2. CASE Send
  <2>1. /\ sent \in 0..njobs /\ sent < njobs /\ sent' = sent + 1 /\ njobs \in Nat
        /\ queue \in Seq(Jobs) /\ queue' = Append(queue, sent + 1)
      BY <1>2, PoolAssumption DEF Send, PoolInv, PoolTypeOK
  <2>2. sent + 1 \in Jobs /\ sent + 1 \in Unsent /\ Unsent' \subseteq Unsent
      BY <1>1, <2>1 DEF Jobs, Unsent
  <2>3. ToSet(queue') = ToSet(queue) \cup {sent + 1}
      BY <2>1, <2>2, AppendToSet
  <2>4. resq' = resq /\ collected' = collected
      BY <1>2 DEF Send
  <2> QED BY <1>1, <2>2, <2>3, <2>4 DEF Pending, Finished
<1>3. CASE CloseJobs
    BY <1>1, <1>3 DEF CloseJobs, Pending, Finished, Unsent
<1>4. CASE Collect
  <2>1. resq \in Seq(Jobs) /\ resq # <<>> /\ collected \in Seq(Jobs)
      BY <1>4 DEF Collect, PoolInv, PoolTypeOK
  <2>2. Head(resq) \in Jobs /\ ToSet(resq) = ToSet(resq') \cup {Head(resq)}
      BY <1>4, <2>1, HeadTailToSet DEF Collect
  <2>3. ToSet(collected') = ToSet(collected) \cup {Head(resq)}
      BY <1>4, <2>1, <2>2, AppendToSet DEF Collect
  <2>4. sent' = sent /\ queue' = queue
      BY <1>4 DEF Collect
  <2> QED BY <1>1, <2>2, <2>3, <2>4 DEF Pending, Finished, Unsent
<1>5. CASE ReturnResults
  <2>1. ToSet(collected) = Jobs /\ ToSet(collected') = Jobs
      BY <1>5, ReturnInv
  <2>2. resq' = resq /\ sent' = sent /\ queue' = queue
      BY <1>5 DEF ReturnResults
  <2> QED BY <1>1, <2>1, <2>2 DEF Pending, Finished, Unsent
<1> QED BY <1>1, <1>2, <1>3, <1>4, <1>5 DEF MainStep

\* A worker that locks, receives or leaves finishes nothing; what it receives
\* was pending.
LEMMA TakeMoves ==
    ASSUME PoolInv, NEW w \in Workers, Lock(w) \/ Recv(w) \/ RecvClosed(w)
    PROVE  /\ Pending' \subseteq Pending /\ Finished' = Finished
           /\ njobs' = njobs /\ pmain' = pmain
           /\ \A v \in Workers \ {w} : wpc'[v] = wpc[v] /\ hand'[v] = hand[v]
           /\ wpc[w] # "work"
           /\ wpc'[w] = "work" => hand'[w] \in Pending
<1>1. /\ njobs' = njobs /\ sent' = sent /\ resq' = resq /\ collected' = collected
      /\ wpc[w] # "work" /\ pmain' = pmain
    BY DEF Lock, Recv, RecvClosed
<1>2. Unsent' = Unsent /\ Finished' = Finished
    BY <1>1 DEF Unsent, Finished
<1>3. /\ wpc \in [Workers -> {"none", "lock", "recv", "work", "exited"}]
      /\ hand \in [Workers -> 0..njobs]
    BY DEF PoolInv, PoolTypeOK
<1>4. CASE Recv(w)
  <2>1. queue \in Seq(Jobs) /\ queue # <<>> /\ queue' = Tail(queue)
      BY <1>4 DEF Recv, PoolInv, PoolTypeOK
  <2>2. ToSet(queue) = ToSet(queue') \cup {Head(queue)}
      BY <2>1, HeadTailToSet
  <2>3. hand' = [hand EXCEPT ![w] = Head(queue)] /\ wpc' = [wpc EXCEPT ![w] = "work"]
      BY <1>4 DEF Recv
  <2>4. hand'[w] = Head(queue)
      BY <1>3, <2>3
  <2>5. \A v \in Workers \ {w} : wpc'[v] = wpc[v] /\ hand'[v] = hand[v]
      BY <1>3, <2>3
  <2> QED BY <1>1, <1>2, <2>2, <2>4, <2>5 DEF Pending
<1>5. CASE Lock(w) \/ RecvClosed(w)
  <2>1. queue' = queue /\ hand' = hand /\ wpc'[w] # "work"
        /\ \A v \in Workers \ {w} : wpc'[v] = wpc[v]
      BY <1>3, <1>5 DEF Lock, RecvClosed
  <2> QED BY <1>1, <1>2, <2>1 DEF Pending
<1> QED BY <1>4, <1>5

\* A worker that sends its result has finished the job of its hand.
LEMMA GiveMoves ==
    ASSUME PoolInv, NEW w \in Workers, SendResult(w)
    PROVE  /\ Pending' = Pending /\ Finished' = Finished \cup {hand[w]}
           /\ njobs' = njobs /\ pmain' = pmain
           /\ \A v \in Workers \ {w} : wpc'[v] = wpc[v] /\ hand'[v] = hand[v]
           /\ wpc[w] = "work" /\ wpc'[w] = "lock"
<1>1. wpc[w] = "work" /\ UNCHANGED <<njobs, sent, queue, collected, pmain>>
    BY DEF SendResult
<1>2. hand[w] \in Jobs
    BY <1>1, HandIsJob
<1>3. ToSet(resq') = ToSet(resq) \cup {hand[w]}
    BY <1>2, AppendToSet DEF SendResult, PoolInv, PoolTypeOK
<1>4. /\ \A v \in Workers \ {w} : wpc'[v] = wpc[v] /\ hand'[v] = hand[v]
      /\ wpc'[w] = "lock"
    BY DEF SendResult, PoolInv, PoolTypeOK
<1> QED BY <1>1, <1>3, <1>4 DEF Pending, Finished, Unsent

\* When the call has returned every job is finished.
LEMMA ReturnedFinished ==
    ASSUME PoolInv, InOrder, pmain = "returned"
    PROVE  Finished = Jobs
<1>1. collected = [i \in 1..njobs |-> i]
    BY DEF InOrder
<1>2. ToSet(collected) = Jobs
    BY <1>1 DEF ToSet, Jobs
<1> QED BY <1>2, PendingOrFinished DEF Finished

-----------------------------------------------------------------------------
(* The steps of a call.                                                    *)

\* A worker that moves from one place to another is one fewer at the first, one
\* more at the second, and leaves the other places alone.
LEMMA OneWorkerMoves ==
    ASSUME DOMAIN wpc = Workers, NEW w \in Workers,
           NEW a \in {"lock", "recv", "work"}, NEW b \in {"lock", "recv", "work", "exited"},
           a # b, wpc[w] = a, wpc' = [wpc EXCEPT ![w] = b]
    PROVE  /\ Cardinality(WorkersAt(a)') = Cardinality(WorkersAt(a)) - 1
           /\ Cardinality(WorkersAt(b)') = Cardinality(WorkersAt(b)) + 1
           /\ \A p : p # a /\ p # b => WorkersAt(p)' = WorkersAt(p)
<1>1. wpc'[w] = b /\ \A v \in Workers \ {w} : wpc'[v] = wpc[v]
    OBVIOUS
<1>2. \A p : IsFiniteSet(WorkersAt(p))
  <2>1. IsFiniteSet(Workers)
      BY PoolAssumption, FS_Interval DEF Workers
  <2>2. \A p : WorkersAt(p) \subseteq Workers
      BY DEF WorkersAt
  <2> QED BY <2>1, <2>2, FS_Subset
<1>3. WorkersAt(a)' = WorkersAt(a) \ {w} /\ w \in WorkersAt(a)
    BY <1>1 DEF WorkersAt
<1>4. WorkersAt(b)' = WorkersAt(b) \cup {w} /\ w \notin WorkersAt(b)
    BY <1>1 DEF WorkersAt
<1>5. Cardinality(WorkersAt(a)') = Cardinality(WorkersAt(a)) - 1
    BY <1>2, <1>3, FS_RemoveElement
<1>6. Cardinality(WorkersAt(b)') = Cardinality(WorkersAt(b)) + 1
    BY <1>2, <1>4, FS_AddElement
<1>7. \A p : p # a /\ p # b => WorkersAt(p)' = WorkersAt(p)
    BY <1>1 DEF WorkersAt
<1> QED BY <1>5, <1>6, <1>7

\* The terms of StepsLeft are numbers.
LEMMA StepsTyped ==
    ASSUME PoolInv
    PROVE  /\ njobs \in Nat /\ sent \in Nat /\ njobs - sent \in Nat
           /\ Len(queue) \in Nat /\ Len(resq) \in Nat
           /\ \A p : Cardinality(WorkersAt(p)) \in Nat
<1>1. njobs \in 0..MaxJobs /\ sent \in 0..njobs
    BY DEF PoolInv, PoolTypeOK
<1>2. Len(queue) \in Nat /\ Len(resq) \in Nat
    BY LenProperties DEF PoolInv, PoolTypeOK
<1>3. \A p : Cardinality(WorkersAt(p)) \in Nat
  <2>1. IsFiniteSet(Workers)
      BY PoolAssumption, FS_Interval DEF Workers
  <2>2. \A p : WorkersAt(p) \subseteq Workers
      BY DEF WorkersAt
  <2> QED BY <2>1, <2>2, FS_Subset, FS_CardinalityType
<1> QED BY <1>1, <1>2, <1>3, PoolAssumption

\* A call that runs has a step left.
LEMMA StepsPositive == PoolInv /\ AbstractPhase = "running" => StepsLeft >= 1
<1> SUFFICES ASSUME PoolInv, AbstractPhase = "running"  PROVE StepsLeft >= 1
    OBVIOUS
<1> DEFINE At(p) == Cardinality(WorkersAt(p))
<1>1. pmain \in {"send", "collect"}
    BY DEF AbstractPhase, PoolInv, PoolTypeOK
<1>2. PICK u \in Nat, q \in Nat, k \in Nat, l \in Nat, r \in Nat, s \in Nat :
          /\ u = njobs - sent /\ q = Len(queue) /\ s = Len(resq)
          /\ k = At("work") /\ l = At("lock") /\ r = At("recv")
    BY StepsTyped
<1>3. StepsLeft = 5 * u + 4 * q + 4 * k + 2 * l + r + s + MainLeft
    BY <1>2 DEF StepsLeft
<1>4. MainLeft \in {1, 2}
    BY <1>1 DEF MainLeft
<1> QED BY <1>3, <1>4

LEMMA StepsPositiveNext == (PoolInv /\ AbstractPhase = "running" => StepsLeft >= 1)'
BY StepsPositive, PTL

\* Every step of a call takes one off the steps that it has left.
LEMMA StepCounts ==
    ASSUME PoolInv, MainStep \/ \E w \in Workers : WorkerStep(w)
    PROVE  StepsLeft' = StepsLeft - 1
<1> DEFINE Left(u, q, k, l, r, s, m) == 5 * u + 4 * q + 4 * k + 2 * l + r + s + m
           work == Cardinality(WorkersAt("work"))
           lock == Cardinality(WorkersAt("lock"))
           recv == Cardinality(WorkersAt("recv"))
<1>1. PICK u \in Nat, q \in Nat, k \in Nat, l \in Nat, r \in Nat, s \in Nat, m \in Nat :
          /\ u = njobs - sent /\ q = Len(queue) /\ s = Len(resq) /\ m = MainLeft
          /\ k = work /\ l = lock /\ r = recv
  <2>1. work \in Nat /\ lock \in Nat /\ recv \in Nat
      BY StepsTyped
  <2>2. MainLeft \in Nat
      BY DEF MainLeft
  <2> HIDE DEF work, lock, recv
  <2> QED BY <2>1, <2>2, StepsTyped
<1>2. StepsLeft = Left(u, q, k, l, r, s, m)
    BY <1>1 DEF StepsLeft
<1>3. StepsLeft' = Left(njobs' - sent', Len(queue'), work', lock', recv', Len(resq'), MainLeft')
    BY DEF StepsLeft
<1>4. /\ queue \in Seq(Jobs) /\ resq \in Seq(Jobs) /\ DOMAIN wpc = Workers
      /\ njobs \in Nat /\ sent \in Nat
    BY StepsTyped DEF PoolInv, PoolTypeOK
<1>5. wpc' = wpc => work' = k /\ lock' = l /\ recv' = r
    BY <1>1 DEF WorkersAt
<1>6. pmain' = pmain => MainLeft' = m
    BY <1>1 DEF MainLeft
<1>7. njobs' = njobs /\ sent' = sent => njobs' - sent' = u
    BY <1>1
<1> HIDE DEF work, lock, recv
<1>8. CASE Send
  <2>1. /\ sent < njobs /\ sent' = sent + 1 /\ queue' = Append(queue, sent + 1)
        /\ UNCHANGED <<pmain, njobs, resq, wpc>>
      BY <1>8 DEF Send
  <2>2. sent + 1 \in Jobs
      BY <1>4, <2>1 DEF Jobs
  <2>3. Len(queue') = q + 1
      BY <1>1, <1>4, <2>1, <2>2, AppendProperties
  <2>4. njobs' - sent' = u - 1
      BY <1>1, <1>4, <2>1
  <2>5. StepsLeft' = Left(u - 1, q + 1, k, l, r, s, m)
      BY <1>1, <1>3, <1>5, <1>6, <2>1, <2>3, <2>4
  <2> QED BY <1>2, <2>5
<1>9. CASE CloseJobs
  <2>1. pmain = "send" /\ pmain' = "collect" /\ UNCHANGED <<njobs, sent, queue, wpc, resq>>
      BY <1>9 DEF CloseJobs
  <2>2. m = 2 /\ MainLeft' = 1
      BY <1>1, <2>1 DEF MainLeft
  <2>3. StepsLeft' = Left(u, q, k, l, r, s, 1)
      BY <1>1, <1>3, <1>5, <1>7, <2>1, <2>2
  <2> QED BY <1>2, <2>2, <2>3
<1>10. CASE Collect
  <2>1. Len(resq') = s - 1 /\ UNCHANGED <<pmain, njobs, sent, queue, wpc>>
      BY <1>1, <1>4, <1>10, HeadTailProperties DEF Collect
  <2>2. StepsLeft' = Left(u, q, k, l, r, s - 1, m)
      BY <1>1, <1>3, <1>5, <1>6, <1>7, <2>1
  <2> QED BY <1>2, <2>2
<1>11. CASE ReturnResults
  <2>1. pmain = "collect" /\ pmain' = "returned" /\ UNCHANGED <<njobs, sent, queue, wpc, resq>>
      BY <1>11 DEF ReturnResults
  <2>2. m = 1 /\ MainLeft' = 0
      BY <1>1, <2>1 DEF MainLeft
  <2>3. StepsLeft' = Left(u, q, k, l, r, s, 0)
      BY <1>1, <1>3, <1>5, <1>7, <2>1, <2>2
  <2> QED BY <1>2, <2>2, <2>3
<1>12. ASSUME NEW w \in Workers, Lock(w)  PROVE StepsLeft' = StepsLeft - 1
  <2>1. /\ wpc[w] = "lock" /\ wpc' = [wpc EXCEPT ![w] = "recv"]
        /\ UNCHANGED <<pmain, njobs, sent, queue, resq>>
      BY <1>12 DEF Lock
  <2>2. lock' = l - 1 /\ recv' = r + 1 /\ work' = k
    <3>1. /\ Cardinality(WorkersAt("lock")') = Cardinality(WorkersAt("lock")) - 1
          /\ Cardinality(WorkersAt("recv")') = Cardinality(WorkersAt("recv")) + 1
          /\ WorkersAt("work")' = WorkersAt("work")
        BY <1>4, <2>1, OneWorkerMoves
    <3> QED BY <1>1, <3>1 DEF work, lock, recv
  <2>3. StepsLeft' = Left(u, q, k, l - 1, r + 1, s, m)
      BY <1>1, <1>3, <1>6, <1>7, <2>1, <2>2
  <2> QED BY <1>2, <2>3
<1>13. ASSUME NEW w \in Workers, Recv(w)  PROVE StepsLeft' = StepsLeft - 1
  <2>1. /\ wpc[w] = "recv" /\ wpc' = [wpc EXCEPT ![w] = "work"]
        /\ queue # <<>> /\ queue' = Tail(queue)
        /\ UNCHANGED <<pmain, njobs, sent, resq>>
      BY <1>13 DEF Recv
  <2>2. recv' = r - 1 /\ work' = k + 1 /\ lock' = l
    <3>1. /\ Cardinality(WorkersAt("recv")') = Cardinality(WorkersAt("recv")) - 1
          /\ Cardinality(WorkersAt("work")') = Cardinality(WorkersAt("work")) + 1
          /\ WorkersAt("lock")' = WorkersAt("lock")
        BY <1>4, <2>1, OneWorkerMoves
    <3> QED BY <1>1, <3>1 DEF work, lock, recv
  <2>3. Len(queue') = q - 1
      BY <1>1, <1>4, <2>1, HeadTailProperties
  <2>4. StepsLeft' = Left(u, q - 1, k + 1, l, r - 1, s, m)
      BY <1>1, <1>3, <1>6, <1>7, <2>1, <2>2, <2>3
  <2> QED BY <1>2, <2>4
<1>14. ASSUME NEW w \in Workers, RecvClosed(w)  PROVE StepsLeft' = StepsLeft - 1
  <2>1. /\ wpc[w] = "recv" /\ wpc' = [wpc EXCEPT ![w] = "exited"]
        /\ UNCHANGED <<pmain, njobs, sent, queue, resq>>
      BY <1>14 DEF RecvClosed
  <2>2. recv' = r - 1 /\ lock' = l /\ work' = k
    <3>1. /\ Cardinality(WorkersAt("recv")') = Cardinality(WorkersAt("recv")) - 1
          /\ WorkersAt("work")' = WorkersAt("work")
          /\ WorkersAt("lock")' = WorkersAt("lock")
        BY <1>4, <2>1, OneWorkerMoves
    <3> QED BY <1>1, <3>1 DEF work, lock, recv
  <2>3. StepsLeft' = Left(u, q, k, l, r - 1, s, m)
      BY <1>1, <1>3, <1>6, <1>7, <2>1, <2>2
  <2> QED BY <1>2, <2>3
<1>15. ASSUME NEW w \in Workers, SendResult(w)  PROVE StepsLeft' = StepsLeft - 1
  <2>1. /\ wpc[w] = "work" /\ wpc' = [wpc EXCEPT ![w] = "lock"]
        /\ resq' = Append(resq, hand[w])
        /\ UNCHANGED <<pmain, njobs, sent, queue>>
      BY <1>15 DEF SendResult
  <2>2. work' = k - 1 /\ lock' = l + 1 /\ recv' = r
    <3>1. /\ Cardinality(WorkersAt("work")') = Cardinality(WorkersAt("work")) - 1
          /\ Cardinality(WorkersAt("lock")') = Cardinality(WorkersAt("lock")) + 1
          /\ WorkersAt("recv")' = WorkersAt("recv")
        BY <1>4, <2>1, OneWorkerMoves
    <3> QED BY <1>1, <3>1 DEF work, lock, recv
  <2>3. hand[w] \in Jobs
      BY <2>1, HandIsJob
  <2>4. Len(resq') = s + 1
      BY <1>1, <1>4, <2>1, <2>3, AppendProperties
  <2>5. StepsLeft' = Left(u, q, k - 1, l + 1, r, s + 1, m)
      BY <1>1, <1>3, <1>6, <1>7, <2>1, <2>2, <2>4
  <2> QED BY <1>2, <2>5
<1> QED BY <1>8, <1>9, <1>10, <1>11, <1>12, <1>13, <1>14, <1>15 DEF MainStep, WorkerStep

\* A running call has a step left, and no more than it had at its start: five
\* for each job, two for each worker and two for main.
StepsInv ==
    AbstractPhase = "running" => StepsLeft \in 1..(5 * njobs + 2 * Concurrency + 2)

LEMMA StartSteps ==
    ASSUME PoolInv, NEW n \in 0..MaxJobs, StartPool(n)
    PROVE  StepsInv'
<1>1. PoolInit
    BY DEF StartPool, PoolInv, MainInv
<1>2. PoolInv'
    BY StartInv
<1> DEFINE locked == WorkersAt("lock")'
<1>3. /\ njobs' = n /\ sent' = 0 /\ queue' = <<>> /\ resq' = <<>>
      /\ wpc' = [w \in Workers |-> IF w <= n THEN "lock" ELSE "none"]
      /\ pmain' \in {"send", "returned"} /\ n \in Nat
    BY <1>1, PoolAssumption DEF StartPool, PoolInit
<1>4. WorkersAt("work")' = {} /\ WorkersAt("recv")' = {}
    BY <1>3 DEF WorkersAt
<1>5. Cardinality(locked) \in Nat /\ Cardinality(locked) <= Concurrency
  <2>1. IsFiniteSet(Workers) /\ Cardinality(Workers) = Concurrency
      BY PoolAssumption, FS_Interval DEF Workers
  <2>2. locked \subseteq Workers
      BY DEF WorkersAt
  <2> HIDE DEF locked
  <2> QED BY <2>1, <2>2, FS_Subset, FS_CardinalityType
<1>6. /\ Cardinality(WorkersAt("work")') = 0 /\ Cardinality(WorkersAt("recv")') = 0
      /\ Len(queue') = 0 /\ Len(resq') = 0
    BY <1>3, <1>4, FS_EmptySet
<1>7. ASSUME pmain' = "send"
      PROVE  StepsLeft' = 5 * n + 2 * Cardinality(locked) + 2
  <2>1. MainLeft' = 2
      BY <1>7 DEF MainLeft
  <2>2. StepsLeft' = 5 * (n - 0) + 4 * 0 + 4 * 0 + 2 * Cardinality(locked) + 0 + 0 + 2
      BY <1>3, <1>6, <2>1 DEF StepsLeft
  <2> HIDE DEF locked
  <2> QED BY <1>3, <1>5, <2>2
<1> HIDE DEF locked
<1>8. CASE pmain' = "send"
    BY <1>3, <1>5, <1>7, <1>8, PoolAssumption DEF StepsInv
<1>9. CASE pmain' = "returned"
    BY <1>9 DEF StepsInv, AbstractPhase
<1> QED BY <1>3, <1>8, <1>9

LEMMA StepSteps ==
    ASSUME PoolInv, StepsInv, [PoolNext]_poolVars
    PROVE  StepsInv'
<1>0. PoolInv'
    BY StepInv
<1>1. CASE MainStep \/ \E w \in Workers : WorkerStep(w)
  <2>1. StepsLeft' = StepsLeft - 1
      BY <1>1, StepCounts
  <2>2. njobs' = njobs /\ (AbstractPhase' = "running" => AbstractPhase = "running")
      BY <1>1 DEF MainStep, WorkerStep, Send, CloseJobs, Collect, ReturnResults,
                  Lock, Recv, RecvClosed, SendResult, AbstractPhase
  <2>3. AbstractPhase' = "running" => StepsLeft' >= 1
      BY <1>0, StepsPositiveNext
  <2> QED BY <2>1, <2>2, <2>3, StepsTyped, PoolAssumption DEF StepsInv
<1>2. ASSUME NEW n \in 0..MaxJobs, StartPool(n)  PROVE StepsInv'
    BY <1>2, StartSteps
<1>3. CASE PoolGone
    BY <1>3 DEF PoolGone, StepsInv, AbstractPhase
<1>4. CASE UNCHANGED poolVars
    BY <1>4 DEF poolVars, StepsInv, AbstractPhase, StepsLeft, MainLeft, WorkersAt
<1> QED BY <1>1, <1>2, <1>3, <1>4 DEF PoolNext

\* While main waits, no worker is stuck: the mutex is free, or it is held by the
\* one in recv, which a job or the closed channel lets go on.
LEMMA InvNeverStuck == PoolInv => NeverStuck
<1> SUFFICES ASSUME PoolInv, pmain = "collect", ~AllExited
             PROVE  \E w \in Workers : CanStep(w)
    BY DEF NeverStuck
<1>1. ~txOpen
    BY DEF PoolInv, MainInv
<1>2. PICK w \in Workers : wpc[w] \in {"lock", "recv", "work"}
    BY DEF AllExited, PoolInv, PoolTypeOK
<1>3. CASE rxLock = Nobody
    BY <1>1, <1>2, <1>3 DEF CanStep
<1>4. CASE rxLock \in Workers
    BY <1>1, <1>4 DEF CanStep, PoolInv, LockInv
<1> QED BY <1>3, <1>4 DEF PoolInv, PoolTypeOK

-----------------------------------------------------------------------------
(* The results.                                                            *)

\* For every number of jobs and of threads and every interleaving, each job
\* of run_download_jobs / run_conversion_jobs is in exactly one place: none
\* is lost, none is done twice.
THEOREM NoJobLostOrRepeated == PoolSpec => []ExactlyOnce
<1>1. PoolInv => ExactlyOnce
    BY DEF PoolInv
<1> QED BY <1>1, PoolInvariant, PTL

\* A worker leaves only after the last send and with the channel drained.
THEOREM NoWorkerLeavesEarly == PoolSpec => []ExitOnlyWhenDrained
<1>1. PoolInv => ExitOnlyWhenDrained
    BY DEF PoolInv
<1> QED BY <1>1, PoolInvariant, PTL

\* Main and the workers never wait for each other, although a worker holds the
\* mutex while it blocks in recv.
THEOREM CallIsNeverStuck == PoolSpec => []NeverStuck
<1> QED BY InvNeverStuck, PoolInvariant, PTL

\* No step of a call is taken in vain: each is one of those that are left.
THEOREM EveryStepCounts == PoolSpec => CallAdvances
<1>1. ASSUME PoolInv, [PoolNext]_poolVars, AbstractPhase = "running", pmain' # "idle",
             poolVars' # poolVars
      PROVE  StepsLeft' = StepsLeft - 1
    BY <1>1, StepCounts DEF PoolNext, StartPool, PoolGone, AbstractPhase
<1>2. PoolInv /\ [PoolNext]_poolVars =>
          [AbstractPhase = "running" /\ pmain' # "idle" => StepsLeft' = StepsLeft - 1]_poolVars
    BY <1>1
<1> QED BY <1>2, PoolInvariant, PTL DEF PoolSpec, CallAdvances

\* However the threads are scheduled, a call of n jobs has returned after at most
\* 5 * n + 2 * Concurrency + 2 steps: with the two theorems before, what is left
\* of CallReturns is that the system runs a thread that can go on.
THEOREM CallIsBounded == PoolSpec => []StepsInv
<1>1. PoolInit => StepsInv
    BY DEF PoolInit, StepsInv, AbstractPhase
<1>2. PoolInv /\ StepsInv /\ [PoolNext]_poolVars => StepsInv'
    BY StepSteps
<1> QED BY <1>1, <1>2, PoolInvariant, PTL DEF PoolSpec

\* The pool implements the abstract batch: the threads, the channels and the
\* mutex of run_download_jobs / run_conversion_jobs only ever complete jobs
\* once each, and the call returns all their results, in the order of the jobs.
THEOREM PoolImplementsBatch == PoolSpec => ImplementsBatch
<1> DEFINE fin == ToSet(resq) \cup ToSet(collected)
<1>1. PoolInit => Batch!Init
    BY EmptyToSet DEF PoolInit, Batch!Init, AbstractPhase, Returned
<1>2. PoolInv /\ [PoolNext]_poolVars => [Batch!Next]_(Batch!vars)
  <2> SUFFICES ASSUME PoolInv, [PoolNext]_poolVars
               PROVE  [Batch!Next]_(Batch!vars)
      OBVIOUS
  <2> USE DEF Batch!vars, AbstractPhase, Returned
  <2>1. ASSUME NEW m \in 0..MaxJobs, StartPool(m)  PROVE Batch!Begin(m)
    <3>1. PoolInit
        BY <2>1 DEF PoolInv, MainInv, StartPool
    <3> QED BY <2>1, <3>1, EmptyToSet DEF StartPool, PoolInit, Batch!Begin
  <2>2. CASE Send
      BY <2>2 DEF Send
  <2>3. CASE CloseJobs
      BY <2>3 DEF CloseJobs
  <2>4. CASE Collect
    <3>1. resq \in Seq(Jobs) /\ resq # <<>> /\ collected \in Seq(Jobs)
        BY <2>4 DEF Collect, PoolInv, PoolTypeOK
    <3>2. /\ Head(resq) \in Jobs
          /\ ToSet(resq) = ToSet(resq') \cup {Head(resq)}
        BY <2>4, <3>1, HeadTailToSet DEF Collect
    <3>3. ToSet(collected') = ToSet(collected) \cup {Head(resq)}
        BY <2>4, <3>1, <3>2, AppendToSet DEF Collect
    <3>4. fin' = fin
        BY <3>2, <3>3
    <3> QED BY <2>4, <3>4 DEF Collect
  <2>5. CASE ReturnResults
    <3>1. /\ ToSet(collected) = Jobs /\ ToSet(collected') = Jobs
          /\ collected' = [i \in 1..njobs |-> i]
        BY <2>5, ReturnInv
    <3> QED BY <2>5, <3>1, EmptyToSet DEF ReturnResults, Jobs, Batch!Return, Batch!Next
  <2>6. ASSUME NEW w \in Workers, Lock(w) \/ Recv(w) \/ RecvClosed(w)
        PROVE  UNCHANGED Batch!vars
      BY <2>6 DEF Lock, Recv, RecvClosed
  <2>7. ASSUME NEW w \in Workers, SendResult(w)
        PROVE  Batch!Complete(hand[w]) /\ hand[w] \in 1..MaxJobs
    <3>1. hand[w] \in InHand
        BY <2>7 DEF SendResult, InHand
    <3>2. hand[w] \in Jobs /\ hand[w] \notin fin
        BY <3>1 DEF PoolInv, ExactlyOnce, Partition
    <3>3. fin' = fin \cup {hand[w]}
        BY <2>7, <3>2, AppendToSet DEF SendResult, PoolInv, PoolTypeOK
    <3>4. pmain \in {"send", "collect"}
        BY <2>7 DEF SendResult, PoolInv, MainInv, PoolTypeOK, AllExited, PoolInit
    <3>5. hand[w] \in 1..MaxJobs
        BY <3>2, PoolAssumption DEF PoolInv, PoolTypeOK, Jobs
    <3> QED BY <2>7, <3>2, <3>3, <3>4, <3>5 DEF SendResult, Jobs, Batch!Complete
  <2>8. CASE PoolGone
      BY <2>8, EmptyToSet DEF PoolGone, Batch!Gone, Batch!Next
  <2>9. CASE UNCHANGED poolVars
      BY <2>9 DEF poolVars
  <2> QED BY <2>1, <2>2, <2>3, <2>4, <2>5, <2>6, <2>7, <2>8, <2>9
          DEF PoolNext, MainStep, WorkerStep, Batch!Next
<1> QED BY <1>1, <1>2, PoolInvariant, PTL DEF PoolSpec, ImplementsBatch, Batch!Spec
=============================================================================
