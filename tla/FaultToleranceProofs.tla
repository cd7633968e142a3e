------------------------ MODULE FaultToleranceProofs ------------------------
(***************************************************************************)
(* Proofs about the actor guard, for any number of threads and any bounds; *)
(* about the actor union, for any actors, added, removed and dying in any  *)
(* order; and about the actor monitor and the actor status monitor, for    *)
(* any actors and any number of calls.                                     *)
(***************************************************************************)
EXTENDS ActorUnion, ActorGuard, Monitors, FiniteSetTheorems, SequenceTheorems, TLAPS

-----------------------------------------------------------------------------
(* The actor guard.                                                        *)

\* What a call has done so far: no callback while it is under way, and it is
\* under way only if it found the guard active.
CallInv(c) ==
    /\ guardCall[c].at # "returned" => guardCall[c].entered
    /\ callbacks[c] = IF guardCall[c].at = "returned" /\ guardCall[c].entered THEN 1 ELSE 0

GuardInv == GuardTypeOK /\ \A c \in Caller : CallInv(c)

LEMMA GuardInitInv == GuardInit => GuardInv
  BY GuardAssumption DEF GuardInit, GuardInv, GuardTypeOK, CallInv

\* Every step keeps the invariant: a step of one call leaves the others alone.
LEMMA GuardStepInv == GuardInv /\ [GuardNext]_guardVars => GuardInv'
<1> SUFFICES ASSUME GuardInv, [GuardNext]_guardVars PROVE GuardInv'
  OBVIOUS
<1> USE GuardAssumption DEF GuardInv, GuardTypeOK, CallInv
<1>1. CASE KeptActorDies
  BY <1>1 DEF KeptActorDies
<1>2. ASSUME NEW c \in Caller, CallGuard(c) PROVE GuardInv'
  BY <1>2 DEF CallGuard
<1>3. ASSUME NEW c \in Caller, TakeKeeperLock(c) PROVE GuardInv'
  BY <1>3 DEF TakeKeeperLock, CallAt
<1>4. ASSUME NEW c \in Caller, KeptAnswers(c) PROVE GuardInv'
  BY <1>4 DEF KeptAnswers, CallBack, Return, CallAt
<1>5. ASSUME NEW c \in Caller, BusinessError(c) PROVE GuardInv'
  BY <1>5 DEF BusinessError, CallBack, Return, CallAt
<1>6. ASSUME NEW c \in Caller, SystemError(c) PROVE GuardInv'
  <2>1. restarts' \in 0 .. MaxRestarts
    BY <1>6 DEF SystemError
  <2>2. CASE guardActive'
    BY <1>6, <2>1, <2>2 DEF SystemError
  <2>3. CASE ~guardActive'
    BY <1>6, <2>1, <2>3 DEF SystemError, CallBack, Return, CallAt
  <2>4. QED
    BY <2>2, <2>3
<1>7. CASE UNCHANGED guardVars
  BY <1>7 DEF guardVars
<1>8. QED
  BY <1>1, <1>2, <1>3, <1>4, <1>5, <1>6, <1>7 DEF GuardNext

\* The state of the guard keeps its types.
THEOREM GuardTypeCorrect == GuardSpec => []GuardTypeOK
<1>1. GuardInv => GuardTypeOK
  BY DEF GuardInv
<1>2. QED
  BY <1>1, GuardInitInv, GuardStepInv, PTL DEF GuardSpec

\* ActorGuard::SendAndReceive runs one of its callbacks exactly once if it found
\* active_ set, and none otherwise, whatever restarts and other threads do.
THEOREM OneCallback == GuardSpec => []OneCallbackPerCall
<1>1. GuardInv => OneCallbackPerCall
  BY DEF GuardInv, CallInv, OneCallbackPerCall
<1>2. QED
  BY <1>1, GuardInitInv, GuardStepInv, PTL DEF GuardSpec

-----------------------------------------------------------------------------
(* The actor union.                                                        *)

\* A remainder is the only number below the divisor that differs from the
\* dividend by a multiple of it.
LEMMA RemainderIsUnique ==
  ASSUME NEW n \in Nat \ {0}, NEW q \in Nat, NEW r \in 0 .. n - 1
  PROVE  (n * q + r) % n = r
<1> DEFINE x == n * q + r
<1>1. x \in Nat
  OBVIOUS
<1>2. PICK k \in Int, s \in 0 .. n - 1 : x = n * k + s /\ x % n = s
  <2>1. x = n * (x \div n) + (x % n) /\ x % n \in 0 .. n - 1 /\ x \div n \in Int
    BY <1>1
  <2>2. QED
    BY <2>1
<1>3. n * (q - k) = s - r
  BY <1>2
<1>4. ~(q - k >= 1)
  <2>1. q - k >= 1 => n * (q - k) >= n
    OBVIOUS
  <2>2. QED
    BY <1>3, <2>1
<1>5. ~(q - k <= -1)
  <2>1. q - k <= -1 => n * (q - k) <= -n
    OBVIOUS
  <2>2. QED
    BY <1>3, <2>1
<1>6. q = k
  BY <1>4, <1>5
<1>7. QED
  BY <1>2, <1>3, <1>6

\* From any place of a round robin of n, each entry is less than n steps away.
LEMMA RoundRobinReaches ==
  ASSUME NEW n \in Nat \ {0}, NEW p \in Nat, NEW k \in 0 .. n - 1
  PROVE  \E d \in 0 .. n - 1 : (p + d) % n = k
<1>1. PICK q \in Nat, r \in 0 .. n - 1 : p = n * q + r
  <2>1. p = n * (p \div n) + (p % n) /\ p % n \in 0 .. n - 1 /\ p \div n \in Nat
    OBVIOUS
  <2>2. QED
    BY <2>1
<1>2. CASE r <= k
  <2>1. p + (k - r) = n * q + k
    BY <1>1
  <2>2. (n * q + k) % n = k
    BY RemainderIsUnique
  <2>3. k - r \in 0 .. n - 1
    BY <1>2
  <2>4. QED
    BY <2>1, <2>2, <2>3
<1>3. CASE r > k
  <2>1. p + (n + k - r) = n * (q + 1) + k
    BY <1>1
  <2>2. (n * (q + 1) + k) % n = k
    BY RemainderIsUnique
  <2>3. n + k - r \in 0 .. n - 1
    BY <1>3
  <2>4. QED
    BY <2>1, <2>2, <2>3
<1>4. QED
  BY <1>2, <1>3

\* The round robin counts modulo a multiple of its size: a step forward is one.
LEMMA RoundRobinSteps ==
  ASSUME NEW n \in Nat \ {0}, NEW m \in Nat \ {0}, m % n = 0,
         NEW p \in 0 .. m - 1, NEW d \in Nat \ {0}
  PROVE  (((p + 1) % m) + (d - 1)) % n = (p + d) % n
<1>1. CASE p + 1 < m
  <2>1. (p + 1) % m = p + 1
    BY <1>1
  <2>2. (p + 1) + (d - 1) = p + d
    OBVIOUS
  <2>3. QED
    BY <2>1, <2>2
<1>2. CASE p + 1 = m
  <2>1. (p + 1) % m = 0
    BY <1>2
  <2>2. PICK q \in Nat, r \in 0 .. n - 1 : d - 1 = n * q + r
    <3>1. d - 1 = n * ((d - 1) \div n) + ((d - 1) % n)
          /\ (d - 1) % n \in 0 .. n - 1 /\ (d - 1) \div n \in Nat
      OBVIOUS
    <3>2. QED
      BY <3>1
  <2>3. PICK j \in Nat : m = n * j
    <3>1. m = n * (m \div n) + (m % n) /\ m \div n \in Nat
      OBVIOUS
    <3>2. QED
      BY <3>1
  <2>4. p + d = n * (j + q) + r
    BY <1>2, <2>2, <2>3
  <2>5. (d - 1) % n = r
    BY <2>2, RemainderIsUnique
  <2>6. (n * (j + q) + r) % n = r
    BY RemainderIsUnique
  <2>7. QED
    BY <2>1, <2>4, <2>5, <2>6
<1>3. QED
  BY <1>1, <1>2

\* Erasing an entry of a sequence leaves the others, in their order.
LEMMA RemoveAtProperties ==
  ASSUME NEW S, NEW s \in Seq(S), NEW i \in DOMAIN s
  PROVE  /\ RemoveAt(s, i) \in Seq(S)
         /\ Len(RemoveAt(s, i)) = Len(s) - 1
         /\ \A j \in 1 .. Len(s) - 1 :
               RemoveAt(s, i)[j] = IF j < i THEN s[j] ELSE s[j + 1]
<1> DEFINE front == SubSeq(s, 1, i - 1)
           back == SubSeq(s, i + 1, Len(s))
<1>1. i \in 1 .. Len(s) /\ Len(s) \in Nat
  OBVIOUS
<1>2. front \in Seq(S) /\ Len(front) = i - 1 /\ \A j \in 1 .. i - 1 : front[j] = s[j]
  BY <1>1, SubSeqProperties
<1>3. back \in Seq(S) /\ Len(back) = Len(s) - i
      /\ \A j \in 1 .. Len(s) - i : back[j] = s[i + j]
  BY <1>1, SubSeqProperties
<1>4. RemoveAt(s, i) = front \o back
  BY DEF RemoveAt
<1> HIDE DEF front, back
<1>5. /\ front \o back \in Seq(S)
      /\ Len(front \o back) = Len(front) + Len(back)
      /\ \A j \in 1 .. Len(front) + Len(back) :
            (front \o back)[j] = IF j <= Len(front) THEN front[j] ELSE back[j - Len(front)]
  BY <1>2, <1>3, ConcatProperties
<1>6. ASSUME NEW j \in 1 .. Len(s) - 1
      PROVE  RemoveAt(s, i)[j] = IF j < i THEN s[j] ELSE s[j + 1]
  <2>1. j \in 1 .. Len(front) + Len(back)
    BY <1>1, <1>2, <1>3
  <2>2. CASE j < i
    BY <1>1, <1>2, <1>4, <1>5, <2>1, <2>2
  <2>3. CASE ~(j < i)
    <3>1. j - Len(front) \in 1 .. Len(s) - i /\ i + (j - Len(front)) = j + 1
      BY <1>1, <1>2, <2>3
    <3>2. (front \o back)[j] = back[j - Len(front)]
      BY <1>1, <1>2, <1>5, <2>1, <2>3
    <3>3. back[j - Len(front)] = s[i + (j - Len(front))]
      BY <1>3, <3>1
    <3>4. QED
      BY <1>4, <2>3, <3>1, <3>2, <3>3
  <2>4. QED
    BY <2>2, <2>3
<1>7. RemoveAt(s, i) \in Seq(S) /\ Len(RemoveAt(s, i)) = Len(s) - 1
  BY <1>1, <1>2, <1>3, <1>4, <1>5
<1>8. QED
  BY <1>6, <1>7

\* The types of the state, with the attempts of the send under way.
UnionTypes ==
    /\ UnionTypeOK
    /\ send \in [at : Actor \cup {"none", "nobody"}, tries : Nat]

\* The pool holds no actor twice, only added ones; the count is that of the added.
UnionPoolInv ==
    /\ \A i, j \in DOMAIN pool : pool[i] = pool[j] => i = j
    /\ InPool \subseteq added
    /\ actorCount = Cardinality(added)

\* The round robin comes to the actor within the attempts that are left.
Reached(a) ==
    \E d \in 0 .. actorCount - send.tries - 1 : pool[((pos + d) % Len(pool)) + 1] = a

\* What is known of the actors that worked all the send long.
UnionSendInv ==
    /\ \A a \in steady : actorState[a] = "works"
    /\ send # NoSend /\ ~shifted => \A a \in steady : a \in InPool /\ (send.at = a \/ Reached(a))
    /\ send # NoSend => outcome # "outOfWork"
    /\ OutOfWorkIsTrue

UnionInv == UnionTypes /\ UnionPoolInv /\ UnionSendInv

\* actor_count_ counts at least the workers of the pool, and does not wrap.
LEMMA PoolIsCounted ==
  ASSUME UnionTypes, UnionPoolInv
  PROVE  /\ IsFiniteSet(added) /\ Cardinality(added) \in 0 .. Cardinality(Actor)
         /\ Len(pool) \in 0 .. actorCount
         /\ \A n \in 1 .. Len(pool) : PosModulus % n = 0
<1>1. IsFiniteSet(added) /\ Cardinality(added) <= Cardinality(Actor)
  BY UnionAssumption, FS_Subset DEF UnionTypes, UnionTypeOK
<1>2. Cardinality(added) \in Nat /\ Cardinality(Actor) \in Nat
  BY <1>1, UnionAssumption, FS_CardinalityType
<1>3. Len(pool) \in Nat /\ DOMAIN pool = 1 .. Len(pool)
  BY DEF UnionTypes, UnionTypeOK
<1>4. pool \in Injection(1 .. Len(pool), added)
  BY <1>3 DEF UnionTypes, UnionTypeOK, UnionPoolInv, InPool, Injection, IsInjective
<1>5. Cardinality(1 .. Len(pool)) <= Cardinality(added)
  BY <1>1, <1>4, FS_Injection
<1>6. Cardinality(1 .. Len(pool)) = Len(pool)
  <2>1. Cardinality(1 .. Len(pool)) = IF 1 > Len(pool) THEN 0 ELSE Len(pool) - 1 + 1
    BY <1>3, FS_Interval
  <2>2. QED
    BY <1>3, <2>1
<1>7. Len(pool) \in 0 .. actorCount
  BY <1>2, <1>3, <1>5, <1>6 DEF UnionPoolInv
<1>8. \A n \in 1 .. Len(pool) : PosModulus % n = 0
  BY <1>1, <1>2, <1>7, UnionAssumption DEF UnionPoolInv
<1>9. QED
  BY <1>1, <1>2, <1>7, <1>8

\* An actor that the round robin comes to within the attempts has the request, or
\* the round robin comes to it within the attempts that are left after this one.
LEMMA RequestAdvances ==
  ASSUME UnionTypes, UnionPoolInv, NEW tries \in Nat, Request(tries),
         pool' = pool, actorCount' = actorCount,
         NEW a \in InPool,
         NEW d \in 0 .. actorCount - tries, pool[((pos + d) % Len(pool)) + 1] = a
  PROVE  send'.at = a \/ Reached(a)'
<1>1. Len(pool) \in Nat \ {0} /\ actorCount \in Nat /\ pos \in 0 .. PosModulus - 1 /\ pool # <<>>
  BY DEF UnionTypes, UnionTypeOK, InPool
<1>2. /\ send' = [at |-> pool[(pos % Len(pool)) + 1], tries |-> tries]
      /\ pos' = (pos + 1) % PosModulus
  BY <1>1 DEF Request
<1>3. PosModulus \in Nat \ {0} /\ PosModulus % Len(pool) = 0
  BY <1>1, PoolIsCounted, UnionAssumption
<1>4. CASE d = 0
  <2>1. pos + d = pos
    BY <1>1, <1>4
  <2>2. QED
    BY <1>2, <2>1
<1>5. CASE d # 0
  <2>1. d \in Nat \ {0} /\ d - 1 \in 0 .. actorCount - tries - 1
    BY <1>1, <1>5
  <2>2. (((pos + 1) % PosModulus) + (d - 1)) % Len(pool) = (pos + d) % Len(pool)
    <3>1. PICK n \in Nat \ {0} : n = Len(pool)
      BY <1>1
    <3>2. PosModulus % n = 0
      BY <1>3, <3>1
    <3>3. (((pos + 1) % PosModulus) + (d - 1)) % n = (pos + d) % n
      BY <1>1, <1>3, <2>1, <3>2, RoundRobinSteps
    <3>4. QED
      BY <3>1, <3>3
  <2>3. pool'[((pos' + (d - 1)) % Len(pool')) + 1] = a
    <3>1. Len(pool') = Len(pool)
      OBVIOUS
    <3>2. (pos' + (d - 1)) % Len(pool') = (pos + d) % Len(pool)
      BY <1>2, <2>2, <3>1
    <3>3. QED
      BY <3>2
  <2>4. actorCount' - send'.tries - 1 = actorCount - tries - 1
    BY <1>2
  <2>5. Reached(a)'
    <3>1. d - 1 \in 0 .. actorCount' - send'.tries - 1
      BY <2>1, <2>4
    <3>2. QED
      BY <2>3, <3>1 DEF Reached
  <2>6. QED
    BY <2>5
<1>6. QED
  BY <1>4, <1>5

\* Before the first attempt the round robin comes to every actor of the pool.
LEMMA PoolIsReached ==
  ASSUME UnionTypes, UnionPoolInv, NEW a \in InPool
  PROVE  \E d \in 0 .. actorCount : pool[((pos + d) % Len(pool)) + 1] = a
<1>1. PICK i \in 1 .. Len(pool) : pool[i] = a
  BY DEF UnionTypes, UnionTypeOK, InPool
<1>2. Len(pool) \in Nat \ {0} /\ pos \in Nat /\ i - 1 \in 0 .. Len(pool) - 1
  BY UnionAssumption, <1>1 DEF UnionTypes, UnionTypeOK
<1>3. PICK d \in 0 .. Len(pool) - 1 : (pos + d) % Len(pool) = i - 1
  BY <1>2, RoundRobinReaches
<1>4. d \in 0 .. actorCount
  <2>1. Len(pool) \in 0 .. actorCount
    BY PoolIsCounted
  <2>2. actorCount \in Nat
    BY UnionAssumption DEF UnionTypes, UnionTypeOK
  <2>3. QED
    BY <1>2, <2>1, <2>2
<1>5. QED
  BY <1>1, <1>3, <1>4

\* The request of an attempt is with an actor of the pool, or with nobody.
LEMMA RequestTypes ==
  ASSUME UnionTypes, NEW tries \in Nat, Request(tries)
  PROVE  /\ send' \in [at : Actor \cup {"none", "nobody"}, tries : Nat]
         /\ send' # NoSend
         /\ pos' \in 0 .. PosModulus - 1
<1>1. CASE pool = <<>>
  BY <1>1 DEF Request, NoSend, UnionTypes, UnionTypeOK
<1>2. CASE pool # <<>>
  <2>1. Len(pool) \in Nat \ {0} /\ pos \in Nat
    BY <1>2, UnionAssumption DEF UnionTypes, UnionTypeOK
  <2>2. pos % Len(pool) \in 0 .. Len(pool) - 1
    BY <2>1
  <2>3. pool[(pos % Len(pool)) + 1] \in Actor
    BY <2>1, <2>2 DEF UnionTypes, UnionTypeOK
  <2>4. (pos + 1) % PosModulus \in 0 .. PosModulus - 1
    BY <2>1, UnionAssumption
  <2>5. QED
    BY <1>2, <2>3, <2>4, UnionAssumption DEF Request, NoSend
<1>3. QED
  BY <1>1, <1>2

\* Erasing an actor leaves a pool of the others, none of them twice.
LEMMA PoolWithoutProperties ==
  ASSUME UnionTypes, UnionPoolInv, NEW a
  PROVE  /\ PoolWithout(a) \in Seq(Actor)
         /\ \A i, j \in DOMAIN PoolWithout(a) :
               PoolWithout(a)[i] = PoolWithout(a)[j] => i = j
         /\ {PoolWithout(a)[i] : i \in DOMAIN PoolWithout(a)} \subseteq InPool \ {a}
<1>1. pool \in Seq(Actor)
  BY DEF UnionTypes, UnionTypeOK
<1>2. CASE a \notin InPool
  BY <1>1, <1>2 DEF PoolWithout, UnionPoolInv, InPool
<1>3. CASE a \in InPool
  <2>1. PICK k \in DOMAIN pool : pool[k] = a
    BY <1>3 DEF InPool
  <2>2. \A j \in DOMAIN pool : pool[j] = a <=> j = k
    BY <2>1 DEF UnionPoolInv
  <2>3. \A j \in 1 .. k - 1 : j \in DOMAIN pool /\ pool[j] # a
    BY <1>1, <2>1, <2>2
  <2>4. (CHOOSE i \in DOMAIN pool : pool[i] = a /\ \A j \in 1 .. i - 1 : pool[j] # a) = k
    BY <2>1, <2>2, <2>3
  <2>5. PoolWithout(a) = RemoveAt(pool, k)
    BY <1>3, <2>4 DEF PoolWithout
  <2> DEFINE rest == RemoveAt(pool, k)
  <2>6. /\ rest \in Seq(Actor) /\ Len(rest) = Len(pool) - 1
        /\ \A j \in 1 .. Len(pool) - 1 : rest[j] = IF j < k THEN pool[j] ELSE pool[j + 1]
    BY <1>1, <2>1, RemoveAtProperties
  <2> HIDE DEF rest
  <2>7. DOMAIN rest = 1 .. Len(pool) - 1 /\ DOMAIN pool = 1 .. Len(pool) /\ Len(pool) \in Nat
    BY <1>1, <2>6
  <2>8. \A i, j \in DOMAIN rest : rest[i] = rest[j] => i = j
    BY <2>1, <2>6, <2>7 DEF UnionPoolInv
  <2>9. \A i \in DOMAIN rest : rest[i] \in InPool /\ rest[i] # a
    BY <2>1, <2>2, <2>6, <2>7 DEF InPool
  <2>10. QED
    BY <2>5, <2>6, <2>8, <2>9 DEF rest
<1>4. QED
  BY <1>2, <1>3

LEMMA UnionInitInv == UnionInit => UnionInv
<1>1. Cardinality({}) = 0
  BY FS_EmptySet
<1>2. CountModulus \in Nat \ {0}
  BY UnionAssumption, FS_CardinalityType
<1>3. QED
  BY <1>1, <1>2, UnionAssumption
     DEF UnionInit, UnionInv, UnionTypes, UnionTypeOK, UnionPoolInv, UnionSendInv,
         InPool, NoSend, OutOfWorkIsTrue

\* AddActor appends an actor that is not in the pool, and counts it.
LEMMA AddKeepsInv ==
  ASSUME UnionInv, NEW a \in Actor, AddActor(a)
  PROVE  UnionInv'
<1> USE DEF UnionInv
<1>1. pool \in Seq(Actor) /\ pool' = Append(pool, a) /\ pool' \in Seq(Actor)
  BY DEF AddActor, UnionTypes, UnionTypeOK
<1>2. /\ Len(pool') = Len(pool) + 1 /\ Len(pool) \in Nat
      /\ DOMAIN pool' = 1 .. Len(pool) + 1 /\ DOMAIN pool = 1 .. Len(pool)
      /\ pool'[Len(pool) + 1] = a
      /\ \A i \in 1 .. Len(pool) : pool'[i] = pool[i]
  BY <1>1
<1>3. added' = added \cup {a} /\ added' \subseteq Actor /\ a \notin added
  BY DEF AddActor, UnionTypes, UnionTypeOK
<1>4. \A i \in DOMAIN pool : pool[i] \in added /\ pool[i] # a
  BY <1>3 DEF UnionPoolInv, InPool
<1>5. actorCount' = Cardinality(added')
  <2>1. Cardinality(added') = Cardinality(added) + 1 /\ Cardinality(added) \in Nat
    BY <1>3, PoolIsCounted, FS_AddElement, FS_CardinalityType
  <2>2. Cardinality(added') <= Cardinality(Actor) /\ Cardinality(Actor) \in Nat
    BY <1>3, UnionAssumption, FS_Subset, FS_CardinalityType
  <2>3. (actorCount + 1) % CountModulus = actorCount + 1
    BY <2>1, <2>2, UnionAssumption DEF UnionPoolInv
  <2>4. QED
    BY <2>1, <2>3 DEF AddActor, UnionPoolInv
<1>6. actorCount' \in 0 .. CountModulus - 1
  BY UnionAssumption DEF AddActor, UnionTypes, UnionTypeOK
<1>7. UnionTypes'
  BY <1>1, <1>3, <1>6 DEF AddActor, UnionTypes, UnionTypeOK
<1>8. (InPool \subseteq added)'
  <2>1. \A i \in DOMAIN pool' : pool'[i] \in added'
    BY <1>2, <1>3, <1>4
  <2>2. QED
    BY <2>1 DEF InPool
<1>9. \A i, j \in DOMAIN pool' : pool'[i] = pool'[j] => i = j
  BY <1>2, <1>4 DEF UnionPoolInv
<1>10. UnionPoolInv'
  BY <1>5, <1>8, <1>9 DEF UnionPoolInv
<1>11. UnionSendInv'
  BY DEF AddActor, UnionSendInv, OutOfWorkIsTrue
<1>12. QED
  BY <1>7, <1>10, <1>11

\* RemoveActor takes the actor out of the pool, if it is there, and the count.
LEMMA RemoveKeepsInv ==
  ASSUME UnionInv, NEW a \in Actor, RemoveActor(a)
  PROVE  UnionInv'
<1> USE DEF UnionInv
<1>1. /\ pool' \in Seq(Actor)
      /\ \A i, j \in DOMAIN pool' : pool'[i] = pool'[j] => i = j
      /\ {pool'[i] : i \in DOMAIN pool'} \subseteq InPool \ {a}
  <2>1. pool' = PoolWithout(a)
    BY DEF RemoveActor
  <2>2. QED
    BY <2>1, PoolWithoutProperties
<1>2. added' = added \ {a} /\ a \in added
  BY DEF RemoveActor
<1>3. actorCount' = Cardinality(added')
  <2>1. Cardinality(added') = Cardinality(added) - 1
    BY <1>2, PoolIsCounted, FS_RemoveElement
  <2>2. Cardinality(added') \in Nat /\ Cardinality(added) \in Nat
    BY <1>2, PoolIsCounted, FS_RemoveElement, FS_CardinalityType
  <2>3. actorCount \in 1 .. CountModulus - 1 /\ CountModulus \in Nat
    BY <2>1, <2>2, UnionAssumption DEF UnionPoolInv, UnionTypes, UnionTypeOK
  <2>4. (actorCount + CountModulus - 1) % CountModulus = actorCount - 1
    <3>1. actorCount + CountModulus - 1 = CountModulus * 1 + (actorCount - 1)
      BY <2>3
    <3>2. (CountModulus * 1 + (actorCount - 1)) % CountModulus = actorCount - 1
      BY <2>3, RemainderIsUnique
    <3>3. QED
      BY <3>1, <3>2
  <2>5. QED
    BY <2>1, <2>4 DEF RemoveActor, UnionPoolInv
<1>4. actorCount' \in 0 .. CountModulus - 1
  BY UnionAssumption DEF RemoveActor, UnionTypes, UnionTypeOK
<1>5. UnionTypes'
  BY <1>1, <1>2, <1>4 DEF RemoveActor, UnionTypes, UnionTypeOK
<1>6. (InPool \subseteq added)'
  BY <1>1, <1>2 DEF InPool, UnionPoolInv
<1>7. UnionPoolInv'
  BY <1>1, <1>3, <1>6 DEF UnionPoolInv
<1>8. UnionSendInv'
  BY DEF RemoveActor, UnionSendInv, OutOfWorkIsTrue
<1>9. QED
  BY <1>5, <1>7, <1>8

\* The pool drops a dead actor: what the round robin reaches is claimed no more.
LEMMA DropKeepsInv ==
  ASSUME UnionInv, NEW a \in Actor, PoolDrops(a)
  PROVE  UnionInv'
<1> USE DEF UnionInv
<1>1. /\ pool' \in Seq(Actor)
      /\ \A i, j \in DOMAIN pool' : pool'[i] = pool'[j] => i = j
      /\ {pool'[i] : i \in DOMAIN pool'} \subseteq InPool \ {a}
  <2>1. pool' = PoolWithout(a)
    BY DEF PoolDrops
  <2>2. QED
    BY <2>1, PoolWithoutProperties
<1>2. UnionTypes'
  BY <1>1 DEF PoolDrops, UnionTypes, UnionTypeOK
<1>3. (InPool \subseteq added)'
  BY <1>1 DEF PoolDrops, InPool, UnionPoolInv
<1>4. UnionPoolInv'
  BY <1>1, <1>3 DEF PoolDrops, UnionPoolInv
<1>5. UnionSendInv'
  BY DEF PoolDrops, UnionSendInv, OutOfWorkIsTrue, NoSend
<1>6. QED
  BY <1>2, <1>4, <1>5

\* SendAndReceive begins: the round robin comes to every worker of the pool.
LEMMA SendKeepsInv ==
  ASSUME UnionInv, SendAndReceive
  PROVE  UnionInv'
<1> USE DEF UnionInv
<1>1. Request(0) /\ pool' = pool /\ actorCount' = actorCount /\ added' = added
  BY DEF SendAndReceive
<1>2. /\ send' \in [at : Actor \cup {"none", "nobody"}, tries : Nat]
      /\ send' # NoSend
      /\ pos' \in 0 .. PosModulus - 1
  BY <1>1, RequestTypes
<1>3. steady' \subseteq InPool /\ \A a \in steady' : actorState'[a] = "works"
  BY DEF SendAndReceive, Working
<1>4. UnionTypes'
  BY <1>1, <1>2, <1>3 DEF SendAndReceive, UnionTypes, UnionTypeOK, InPool
<1>5. UnionPoolInv'
  BY <1>1 DEF UnionPoolInv, InPool
<1>6. ASSUME NEW a \in InPool PROVE send'.at = a \/ Reached(a)'
  <2>1. PICK d \in 0 .. actorCount : pool[((pos + d) % Len(pool)) + 1] = a
    BY PoolIsReached
  <2>2. actorCount \in Nat /\ actorCount - 0 = actorCount
    BY DEF UnionTypes, UnionTypeOK
  <2>3. d \in 0 .. actorCount - 0
    BY <2>2
  <2>4. QED
    BY <1>1, <2>1, <2>3, RequestAdvances
<1>7. \A a \in steady' : a \in InPool' /\ (send'.at = a \/ Reached(a)')
  BY <1>1, <1>3, <1>6 DEF InPool
<1>8. outcome' = "none"
  BY DEF SendAndReceive
<1>9. UnionSendInv'
  BY <1>3, <1>7, <1>8 DEF UnionSendInv, OutOfWorkIsTrue
<1>10. QED
  BY <1>4, <1>5, <1>9

\* HandleSendFailed: the attempts that are left still come to the steady workers,
\* and when none is left there was no steady worker.
LEMMA FailedKeepsInv ==
  ASSUME UnionInv, Failed
  PROVE  UnionInv'
<1> USE DEF UnionInv
<1>1. /\ send # NoSend /\ ~InGoodHands
      /\ actorState' = actorState /\ pool' = pool /\ actorCount' = actorCount
      /\ steady' = steady /\ shifted' = shifted /\ added' = added
  BY DEF Failed, RetryAfter
<1>2. send.tries \in Nat /\ actorCount \in Nat /\ steady \subseteq Actor
  BY DEF UnionTypes, UnionTypeOK
<1>3. \A a \in steady : send.at # a
  BY <1>1, <1>2 DEF InGoodHands, UnionSendInv
<1>4. UnionPoolInv'
  BY <1>1 DEF UnionPoolInv, InPool
<1>5. CASE send.tries + 1 <= actorCount
  <2>1. Request(send.tries + 1) /\ outcome' = outcome
    BY <1>5 DEF Failed, RetryAfter
  <2>2. /\ send' \in [at : Actor \cup {"none", "nobody"}, tries : Nat]
        /\ send' # NoSend
        /\ pos' \in 0 .. PosModulus - 1
    BY <1>2, <2>1, RequestTypes
  <2>3. UnionTypes'
    BY <1>1, <2>1, <2>2 DEF UnionTypes, UnionTypeOK
  <2>4. ASSUME ~shifted, NEW a \in steady
        PROVE  a \in InPool /\ (send'.at = a \/ Reached(a)')
    <3>1. a \in InPool /\ Reached(a)
      BY <1>1, <1>3, <2>4 DEF UnionSendInv
    <3>2. PICK d \in 0 .. actorCount - send.tries - 1 : pool[((pos + d) % Len(pool)) + 1] = a
      BY <3>1 DEF Reached
    <3>3. d \in 0 .. actorCount - (send.tries + 1) /\ send.tries + 1 \in Nat
      BY <1>2, <3>2
    <3>4. QED
      BY <1>1, <2>1, <3>1, <3>2, <3>3, RequestAdvances
  <2>5. (send # NoSend /\ ~shifted => \A a \in steady : a \in InPool /\ (send.at = a \/ Reached(a)))'
    BY <1>1, <2>4 DEF InPool
  <2>6. UnionSendInv'
    BY <1>1, <2>1, <2>5 DEF UnionSendInv, OutOfWorkIsTrue
  <2>7. QED
    BY <1>4, <2>3, <2>6
<1>6. CASE ~(send.tries + 1 <= actorCount)
  <2>1. send' = NoSend /\ outcome' = "outOfWork" /\ pos' = pos
    BY <1>6 DEF Failed, RetryAfter, Ends
  <2>2. UnionTypes'
    BY <1>1, <2>1 DEF UnionTypes, UnionTypeOK, NoSend
  <2>3. ~shifted => steady = {}
    <3>1. 0 .. actorCount - send.tries - 1 = {}
      BY <1>2, <1>6
    <3>2. QED
      BY <1>1, <1>3, <3>1 DEF UnionSendInv, Reached
  <2>4. UnionSendInv'
    BY <1>1, <2>1, <2>3 DEF UnionSendInv, OutOfWorkIsTrue
  <2>5. QED
    BY <1>4, <2>2, <2>4
<1>7. QED
  BY <1>5, <1>6

\* Every step keeps the invariant.
LEMMA UnionStepInv == UnionInv /\ [UnionNext]_unionVars => UnionInv'
<1> SUFFICES ASSUME UnionInv, [UnionNext]_unionVars PROVE UnionInv'
  OBVIOUS
<1>1. CASE SendAndReceive
  BY <1>1, SendKeepsInv
<1>2. CASE Answered
  <2>1. send' = NoSend /\ outcome' \in {"return", "business"}
    BY <1>2 DEF Answered, Ends
  <2>2. UnionTypes'
    BY <1>2, <2>1 DEF Answered, UnionInv, UnionTypes, UnionTypeOK, NoSend
  <2>3. UnionPoolInv' /\ UnionSendInv'
    BY <1>2, <2>1 DEF Answered, UnionInv, UnionPoolInv, UnionSendInv, InPool, OutOfWorkIsTrue
  <2>4. QED
    BY <2>2, <2>3 DEF UnionInv
<1>3. CASE Failed
  BY <1>3, FailedKeepsInv
<1>4. ASSUME NEW a \in Actor, ActorChanges(a) PROVE UnionInv'
  <2>1. UnionTypes' /\ UnionPoolInv'
    BY <1>4 DEF ActorChanges, UnionInv, UnionTypes, UnionTypeOK, UnionPoolInv, InPool
  <2>2. UnionSendInv'
    <3>1. \A b \in steady' : b \in steady /\ b # a
      BY <1>4 DEF ActorChanges
    <3>2. \A b \in steady' : actorState'[b] = "works"
      BY <1>4, <3>1 DEF ActorChanges, UnionInv, UnionTypes, UnionTypeOK, UnionSendInv
    <3>3. (send # NoSend /\ ~shifted => \A b \in steady : b \in InPool /\ (send.at = b \/ Reached(b)))'
      BY <1>4, <3>1 DEF ActorChanges, UnionInv, UnionSendInv, InPool, Reached
    <3>4. (send # NoSend => outcome # "outOfWork")' /\ OutOfWorkIsTrue'
      BY <1>4, <3>1 DEF ActorChanges, UnionInv, UnionSendInv, OutOfWorkIsTrue
    <3>5. QED
      BY <3>2, <3>3, <3>4 DEF UnionSendInv
  <2>3. QED
    BY <2>1, <2>2 DEF UnionInv
<1>5. CASE UNCHANGED unionVars
  BY <1>5 DEF unionVars, UnionInv, UnionTypes, UnionTypeOK, UnionPoolInv, UnionSendInv,
              InPool, Reached, OutOfWorkIsTrue
<1>6. QED
  BY <1>1, <1>2, <1>3, <1>4, <1>5, AddKeepsInv, RemoveKeepsInv, DropKeepsInv DEF UnionNext

\* The state of the union keeps its types: actor_count_ never wraps, and the round
\* robin never leaves its range.
THEOREM UnionTypeCorrect == UnionSpec => []UnionTypeOK
<1>1. UnionInv => UnionTypeOK
  BY DEF UnionInv, UnionTypes
<1>2. QED
  BY <1>1, UnionInitInv, UnionStepInv, PTL DEF UnionSpec

\* ActorUnion::SendAndReceive reports that it is out of work only if no actor of the
\* union worked all the send long, or the pool dropped one in the middle of it.
THEOREM OutOfWork == UnionSpec => []OutOfWorkIsTrue
<1>1. UnionInv => OutOfWorkIsTrue
  BY DEF UnionInv, UnionSendInv
<1>2. QED
  BY <1>1, UnionInitInv, UnionStepInv, PTL DEF UnionSpec
-----------------------------------------------------------------------------
(* The actor monitor and the actor status monitor.                       *)

Message == [kind : {"describe", "demonitor", "down"}, of : Watched]

\* The mailbox q holds such a message about a.
Says(q, kind, a) == \E i \in 1 .. Len(q) : q[i] = [kind |-> kind, of |-> a]

\* Every down message about a in q is read when a's description is there.
Introduced(q, described, a) ==
    \A i \in 1 .. Len(q) : q[i] = [kind |-> "down", of |-> a] =>
        a \in described \/ \E j \in 1 .. i - 1 : q[j] = [kind |-> "describe", of |-> a]

\* The supervisor has a's description, or will have read it before what comes next.
Told(s, a) == a \in descriptions[s] \/ Says(supervisorMail[s], "describe", a)

TypeInv ==
    /\ MonitorTypeOK
    /\ supervisorMail \in [Supervisor -> Seq(Message)]
    /\ \A s \in Supervisor : attached[s] \subseteq watchedUp

\* Whoever the application has not stopped to monitor is described before a
\* supervisor is attached to it.
DescribedInv ==
    /\ undescribed \subseteq stopped
    /\ \A s \in Supervisor : \A a \in Watched \ stopped :
          /\ ~Says(supervisorMail[s], "demonitor", a)
          /\ a \in attached[s] => Told(s, a)
          /\ Introduced(supervisorMail[s], descriptions[s], a)

\* The steps left of the call of the application's thread.
StepsInv ==
    \/ monitorCall = <<>>
    \/ \E s \in Supervisor, a \in Watched :
          \/ monitorCall = SetMonitor(s, a)
          \/ monitorCall = <<Do("monitor", s, a)>> /\ (a \notin stopped => Told(s, a))
    \/ \E a \in Watched :
          \/ monitorCall = RegisterActor(a)
          \/ monitorCall = StopMonitor("application", a) /\ a \in stopped
          \/ monitorCall = <<Do("detach", "application", a)>>

\* The call will attach the status monitor to a.
WillWatch(a) == \E i \in 1 .. Len(monitorCall) : monitorCall[i] = Do("monitor", "status", a)

\* An actor on the list is watched, or will be, or its end is in the mail.
ListedInv ==
    \A a \in actorStatus :
        \/ a \in attached["status"]
        \/ Says(supervisorMail["status"], "down", a)
        \/ WillWatch(a)

MonitorInv == TypeInv /\ DescribedInv /\ StepsInv /\ ListedInv

-----------------------------------------------------------------------------
(* Mailboxes.                                                              *)

LEMMA AppendSays ==
  ASSUME NEW q \in Seq(Message), NEW m \in Message, NEW kind, NEW a
  PROVE  Says(Append(q, m), kind, a) <=> Says(q, kind, a) \/ m = [kind |-> kind, of |-> a]
<1>1. /\ Len(q) \in Nat /\ Len(Append(q, m)) = Len(q) + 1
      /\ \A i \in 1 .. Len(q) : Append(q, m)[i] = q[i]
      /\ Append(q, m)[Len(q) + 1] = m
  BY LenProperties
<1>2. QED
  BY <1>1 DEF Says

LEMMA AppendIntroduced ==
  ASSUME NEW q \in Seq(Message), NEW m \in Message, NEW described, NEW a,
         Introduced(q, described, a),
         m = [kind |-> "down", of |-> a] => a \in described \/ Says(q, "describe", a)
  PROVE  Introduced(Append(q, m), described, a)
<1>1. /\ Len(q) \in Nat /\ Len(Append(q, m)) = Len(q) + 1
      /\ \A i \in 1 .. Len(q) : Append(q, m)[i] = q[i]
      /\ Append(q, m)[Len(q) + 1] = m
  BY LenProperties
<1>2. QED
  BY <1>1 DEF Introduced, Says

LEMMA TailSays ==
  ASSUME NEW q \in Seq(Message), q # <<>>, NEW kind, NEW a
  PROVE  Says(q, kind, a) <=>
            Head(q) = [kind |-> kind, of |-> a] \/ Says(Tail(q), kind, a)
<1>1. /\ Len(q) \in Nat \ {0} /\ Head(q) = q[1]
      /\ Len(Tail(q)) = Len(q) - 1
      /\ \A i \in 1 .. Len(q) - 1 : Tail(q)[i] = q[i + 1]
  BY HeadTailProperties, EmptySeq
<1>2. ASSUME NEW i \in 1 .. Len(q), q[i] = [kind |-> kind, of |-> a], i # 1
      PROVE  Says(Tail(q), kind, a)
  <2>1. i - 1 \in 1 .. Len(q) - 1 /\ (i - 1) + 1 = i
    BY <1>1, <1>2
  <2>2. QED
    BY <1>1, <1>2, <2>1 DEF Says
<1>3. ASSUME NEW i \in 1 .. Len(Tail(q)), Tail(q)[i] = [kind |-> kind, of |-> a]
      PROVE  Says(q, kind, a)
  <2>1. i + 1 \in 1 .. Len(q) /\ q[i + 1] = Tail(q)[i]
    BY <1>1
  <2>2. QED
    BY <1>3, <2>1 DEF Says
<1>4. QED
  BY <1>1, <1>2, <1>3 DEF Says

\* What was to come is there when the head has been read.
LEMMA TailIntroduced ==
  ASSUME NEW q \in Seq(Message), q # <<>>, NEW before, NEW after, NEW a,
         Introduced(q, before, a),
         a \in before => a \in after,
         Head(q) = [kind |-> "describe", of |-> a] => a \in after
  PROVE  Introduced(Tail(q), after, a)
<1>1. /\ Len(q) \in Nat \ {0} /\ Head(q) = q[1]
      /\ Len(Tail(q)) = Len(q) - 1
      /\ \A i \in 1 .. Len(q) - 1 : Tail(q)[i] = q[i + 1]
  BY HeadTailProperties, EmptySeq
<1> SUFFICES ASSUME NEW i \in 1 .. Len(q) - 1, Tail(q)[i] = [kind |-> "down", of |-> a],
                    a \notin after
             PROVE  \E j \in 1 .. i - 1 : Tail(q)[j] = [kind |-> "describe", of |-> a]
  BY <1>1 DEF Introduced
<1>2. i + 1 \in 1 .. Len(q) /\ q[i + 1] = [kind |-> "down", of |-> a]
  BY <1>1
<1>3. PICK j \in 1 .. (i + 1) - 1 : q[j] = [kind |-> "describe", of |-> a]
  BY <1>2 DEF Introduced
<1>4. j # 1
  BY <1>1, <1>3
<1>5. j - 1 \in 1 .. i - 1 /\ Tail(q)[j - 1] = q[j]
  <2>1. j - 1 \in 1 .. Len(q) - 1 /\ (j - 1) + 1 = j /\ j - 1 \in 1 .. i - 1
    BY <1>1, <1>3, <1>4
  <2>2. QED
    BY <1>1, <2>1
<1>6. QED
  BY <1>3, <1>5

-----------------------------------------------------------------------------

LEMMA MonitorInitInv == MonitorInit => MonitorInv
<1> SUFFICES ASSUME MonitorInit PROVE MonitorInv
  OBVIOUS
<1>1. \A s \in Supervisor : supervisorMail[s] = <<>> /\ attached[s] = {}
  BY DEF MonitorInit
<1>2. TypeInv
  BY <1>1 DEF MonitorInit, TypeInv, MonitorTypeOK
<1>3. DescribedInv
  BY <1>1 DEF MonitorInit, DescribedInv, Says, Introduced
<1>4. QED
  BY <1>2, <1>3 DEF MonitorInit, MonitorInv, StepsInv, ListedInv

\* A step that adds at most one message to each mailbox, of a down only if the
\* description is there or in the mailbox before it.
LEMMA MailGrows ==
  ASSUME TypeInv, DescribedInv, UNCHANGED <<descriptions, stopped, undescribed>>,
         \A t \in Supervisor :
            \/ supervisorMail'[t] = supervisorMail[t]
            \/ \E m \in Message :
                  /\ supervisorMail'[t] = Append(supervisorMail[t], m)
                  /\ \A a \in Watched \ stopped :
                        /\ m # [kind |-> "demonitor", of |-> a]
                        /\ m = [kind |-> "down", of |-> a] => Told(t, a),
         \A t \in Supervisor : \A a \in Watched \ stopped : a \in attached'[t] => Told(t, a)
  PROVE  /\ DescribedInv'
         /\ \A t \in Supervisor, a \in Watched : Told(t, a) => Told(t, a)'
         /\ \A t \in Supervisor, a \in Watched, kind \in {"describe", "demonitor", "down"} :
               Says(supervisorMail[t], kind, a) => Says(supervisorMail[t], kind, a)'
<1>1. ASSUME NEW t \in Supervisor, NEW a \in Watched
      PROVE  /\ \A kind \in {"describe", "demonitor", "down"} :
                   Says(supervisorMail[t], kind, a) => Says(supervisorMail[t], kind, a)'
             /\ a \notin stopped /\ ~Says(supervisorMail[t], "demonitor", a) =>
                   ~Says(supervisorMail[t], "demonitor", a)'
             /\ a \notin stopped /\ Introduced(supervisorMail[t], descriptions[t], a) =>
                   Introduced(supervisorMail[t], descriptions[t], a)'
  <2> DEFINE q == supervisorMail[t]
             r == supervisorMail'[t]
  <2>1. q \in Seq(Message)
    BY DEF TypeInv
  <2>2. \A kind : Says(q, kind, a)' <=> Says(r, kind, a)
    BY DEF Says
  <2>3. Introduced(q, descriptions[t], a)' <=> Introduced(r, descriptions[t], a)
    BY DEF Introduced
  <2>4. r = q \/ \E m \in Message : r = Append(q, m)
    OBVIOUS
  <2>5. a \notin stopped =>
           \/ r = q
           \/ \E m \in Message :
                 /\ r = Append(q, m) /\ m # [kind |-> "demonitor", of |-> a]
                 /\ m = [kind |-> "down", of |-> a] =>
                       a \in descriptions[t] \/ Says(q, "describe", a)
    BY DEF Told
  <2> HIDE DEF q, r
  <2>6. ASSUME NEW kind, Says(q, kind, a) PROVE Says(r, kind, a)
    <3>1. ASSUME NEW m \in Message, r = Append(q, m) PROVE Says(r, kind, a)
      <4>1. Says(Append(q, m), kind, a)
        BY <2>1, <2>6, AppendSays
      <4>2. QED
        BY <3>1, <4>1
    <3>2. QED
      BY <2>4, <2>6, <3>1
  <2>7. ASSUME a \notin stopped, ~Says(q, "demonitor", a) PROVE ~Says(r, "demonitor", a)
    <3>1. ASSUME NEW m \in Message, r = Append(q, m), m # [kind |-> "demonitor", of |-> a]
          PROVE  ~Says(r, "demonitor", a)
      <4>1. ~Says(Append(q, m), "demonitor", a)
        BY <2>1, <2>7, <3>1, AppendSays
      <4>2. QED
        BY <3>1, <4>1
    <3>2. QED
      BY <2>5, <2>7, <3>1
  <2>8. a \notin stopped /\ Introduced(q, descriptions[t], a) =>
           Introduced(r, descriptions[t], a)
    BY <2>1, <2>5, AppendIntroduced
  <2>9. QED
    BY <2>2, <2>3, <2>6, <2>7, <2>8 DEF q
<1>2. ASSUME NEW t \in Supervisor, NEW a \in Watched, Told(t, a) PROVE Told(t, a)'
  BY <1>1, <1>2 DEF Told
<1>3. DescribedInv'
  BY <1>1, <1>2 DEF DescribedInv
<1>4. QED
  BY <1>1, <1>2, <1>3

-----------------------------------------------------------------------------
(* The actions.                                                            *)

\* A call begins; what a StopMonitor is called for needs no description any more.
LEMMA BeginCallInv ==
  ASSUME MonitorInv, NEW steps, BeginCall(steps),
         stopped \subseteq stopped', stopped' \subseteq Watched,
         StepsInv'
  PROVE  MonitorInv'
<1>1. /\ UNCHANGED <<watchedUp, actorStatus, attached, supervisorMail, descriptions, undescribed>>
      /\ monitorCall = <<>>
  BY DEF BeginCall
<1>2. TypeInv'
  BY <1>1 DEF MonitorInv, TypeInv, MonitorTypeOK
<1>3. DescribedInv'
  BY <1>1 DEF MonitorInv, DescribedInv, Told, Says, Introduced
<1>4. ListedInv'
  BY <1>1 DEF MonitorInv, ListedInv, WillWatch, Says
<1>5. QED
  BY <1>2, <1>3, <1>4 DEF MonitorInv

LEMMA CallsInv ==
  ASSUME MonitorInv, NEW a \in Watched,
         CallRegisterActor(a) \/ CallSetMonitor(a) \/ CallStopMonitor(a)
  PROVE  MonitorInv'
<1>1. CASE CallRegisterActor(a)
  <2>1. StepsInv'
    BY <1>1 DEF CallRegisterActor, BeginCall, StepsInv, RegisterActor, SetMonitor, Do
  <2>2. QED
    BY <1>1, <2>1, BeginCallInv DEF CallRegisterActor, MonitorInv, TypeInv, MonitorTypeOK
<1>2. CASE CallSetMonitor(a)
  <2>1. StepsInv'
    BY <1>2 DEF CallSetMonitor, BeginCall, StepsInv, Supervisor, SetMonitor, Do
  <2>2. QED
    BY <1>2, <2>1, BeginCallInv DEF CallSetMonitor, MonitorInv, TypeInv, MonitorTypeOK
<1>3. CASE CallStopMonitor(a)
  <2>1. StepsInv'
    BY <1>3 DEF CallStopMonitor, BeginCall, StepsInv, StopMonitor, Do
  <2>2. QED
    BY <1>3, <2>1, BeginCallInv DEF CallStopMonitor, MonitorInv, TypeInv, MonitorTypeOK
<1>4. QED
  BY <1>1, <1>2, <1>3

\* What the next step of a call does, by its kind.
LEMMA StepEffect ==
  ASSUME MonitorCallStep, NEW s, NEW a, NEW step, Head(monitorCall) = Do(step, s, a)
  PROVE  /\ monitorCall' = Tail(monitorCall)
         /\ UNCHANGED <<watchedUp, descriptions, undescribed, stopped, monitorCalls>>
         /\ step = "list" => /\ actorStatus' = actorStatus \cup {a}
                             /\ UNCHANGED <<attached, supervisorMail>>
         /\ step \in {"describe", "demonitor"} =>
               Mail(s, step, a) /\ UNCHANGED <<actorStatus, attached>>
         /\ step = "monitor" /\ a \in watchedUp =>
               /\ attached' = [attached EXCEPT ![s] = @ \cup {a}]
               /\ UNCHANGED <<actorStatus, supervisorMail>>
         /\ step = "monitor" /\ a \notin watchedUp =>
               Mail(s, "down", a) /\ UNCHANGED <<actorStatus, attached>>
         /\ step = "detach" => /\ attached' = [attached EXCEPT ![s] = @ \ {a}]
                               /\ UNCHANGED <<actorStatus, supervisorMail>>
<1>1. Do(step, s, a).step = step /\ Do(step, s, a).by = s /\ Do(step, s, a).of = a
  BY DEF Do
<1>2. QED
  BY <1>1 DEF MonitorCallStep

\* A message mailed to s keeps what is said of the mailboxes.
LEMMA MailInv ==
  ASSUME MonitorInv, NEW s \in Supervisor, NEW a \in Watched,
         NEW kind \in {"describe", "demonitor", "down"}, Mail(s, kind, a),
         UNCHANGED <<descriptions, stopped, undescribed, attached, watchedUp, actorStatus>>,
         kind = "demonitor" => a \in stopped,
         kind = "down" => a \in stopped \/ Told(s, a)
  PROVE  /\ TypeInv' /\ DescribedInv'
         /\ Says(supervisorMail[s], kind, a)'
         /\ \A t \in Supervisor, b \in Watched : Told(t, b) => Told(t, b)'
         /\ \A b \in Watched : Says(supervisorMail["status"], "down", b) =>
                               Says(supervisorMail["status"], "down", b)'
<1> DEFINE m == [kind |-> kind, of |-> a]
<1>1. m \in Message /\ supervisorMail \in [Supervisor -> Seq(Message)]
  BY DEF Message, MonitorInv, TypeInv
<1>2. supervisorMail' = [supervisorMail EXCEPT ![s] = Append(@, m)]
  BY DEF Mail
<1> HIDE DEF m
<1>3. /\ supervisorMail' \in [Supervisor -> Seq(Message)]
      /\ supervisorMail'[s] = Append(supervisorMail[s], m)
      /\ \A t \in Supervisor : t # s => supervisorMail'[t] = supervisorMail[t]
  BY <1>1, <1>2
<1>4. MonitorTypeOK'
  <2>1. \A t \in Supervisor : \A i \in DOMAIN supervisorMail'[t] :
           supervisorMail'[t][i] \in Message
    BY <1>3, LenProperties, ElementOfSeq
  <2>2. QED
    BY <2>1 DEF MonitorInv, TypeInv, MonitorTypeOK, Message
<1>5. TypeInv'
  BY <1>3, <1>4 DEF MonitorInv, TypeInv
<1>6. Says(supervisorMail[s], kind, a)'
  <2>1. Says(Append(supervisorMail[s], m), kind, a)
    BY <1>1, AppendSays DEF m
  <2>2. QED
    BY <1>3, <2>1 DEF Says
<1>7. \A b \in Watched \ stopped :
         /\ m # [kind |-> "demonitor", of |-> b]
         /\ m = [kind |-> "down", of |-> b] => Told(s, b)
  <2> SUFFICES ASSUME NEW b \in Watched \ stopped
               PROVE  /\ m # [kind |-> "demonitor", of |-> b]
                      /\ m = [kind |-> "down", of |-> b] => Told(s, b)
    OBVIOUS
  <2>1. \A k : m = [kind |-> k, of |-> b] => kind = k /\ a = b
    BY DEF m
  <2>2. QED
    BY <2>1
<1>8. \A t \in Supervisor :
         \/ supervisorMail'[t] = supervisorMail[t]
         \/ \E x \in Message :
               /\ supervisorMail'[t] = Append(supervisorMail[t], x)
               /\ \A b \in Watched \ stopped :
                     /\ x # [kind |-> "demonitor", of |-> b]
                     /\ x = [kind |-> "down", of |-> b] => Told(t, b)
  BY <1>1, <1>3, <1>7
<1>9. \A t \in Supervisor : \A b \in Watched \ stopped : b \in attached'[t] => Told(t, b)
  BY DEF MonitorInv, DescribedInv
<1>10. "status" \in Supervisor
  BY DEF Supervisor
<1>11. QED
  BY <1>5, <1>6, <1>8, <1>9, <1>10, MailGrows DEF MonitorInv

\* The calls, step by step.
LEMMA RegisterActorSteps ==
  ASSUME NEW a
  PROVE  RegisterActor(a) =
            <<Do("list", "status", a), Do("describe", "status", a), Do("monitor", "status", a)>>
<1>1. ASSUME NEW x, NEW y, NEW z PROVE <<x>> \o <<y, z>> = <<x, y, z>>
  <2> DEFINE S == {x, y, z}
             s == <<x>> \o <<y, z>>
             t == <<x, y, z>>
  <2>1. <<x>> \in Seq(S) /\ <<y, z>> \in Seq(S) /\ t \in Seq(S)
    OBVIOUS
  <2>2. s \in Seq(S) /\ Len(s) = 3
    BY <2>1, ConcatProperties
  <2>3. s[1] = x /\ s[2] = y /\ s[3] = z
    BY <2>1, ConcatProperties
  <2>4. Len(t) = 3 /\ t[1] = x /\ t[2] = y /\ t[3] = z
    OBVIOUS
  <2>5. \A i \in 1 .. 3 : s[i] = t[i]
    <3>1. \A i \in 1 .. 3 : i = 1 \/ i = 2 \/ i = 3
      OBVIOUS
    <3>2. QED
      BY <3>1, <2>3, <2>4
  <2>6. Len(s) = Len(t)
    BY <2>2, <2>4
  <2>7. \A i \in 1 .. Len(s) : s[i] = t[i]
    BY <2>2, <2>5
  <2> HIDE DEF s, t, S
  <2>8. s = t
    BY <2>1, <2>2, <2>6, <2>7, SeqEqual
  <2>9. QED
    BY <2>8 DEF s, t
<1>2. QED
  BY <1>1 DEF RegisterActor, SetMonitor

LEMMA ListInv ==
  ASSUME MonitorInv, MonitorCallStep, NEW a \in Watched, monitorCall = RegisterActor(a)
  PROVE  MonitorInv'
<1>1. Head(monitorCall) = Do("list", "status", a) /\ Tail(monitorCall) = SetMonitor("status", a)
  <2>1. ASSUME NEW x, NEW y, NEW z
        PROVE  Head(<<x, y, z>>) = x /\ Tail(<<x, y, z>>) = <<y, z>>
    OBVIOUS
  <2>2. QED
    BY <2>1, RegisterActorSteps DEF SetMonitor
<1>2. /\ monitorCall' = SetMonitor("status", a) /\ actorStatus' = actorStatus \cup {a}
      /\ UNCHANGED <<attached, supervisorMail, watchedUp, descriptions, undescribed, stopped>>
  BY <1>1, StepEffect
<1>3. TypeInv' /\ DescribedInv'
  <2>1. TypeInv'
    BY <1>2 DEF MonitorInv, TypeInv, MonitorTypeOK
  <2>2. DescribedInv'
    BY <1>2 DEF MonitorInv, DescribedInv, Told, Says, Introduced
  <2>3. QED
    BY <2>1, <2>2
<1>4. StepsInv'
  BY <1>2 DEF StepsInv, Supervisor
<1>5. ListedInv'
  <2>1. WillWatch(a)'
    BY <1>2 DEF WillWatch, SetMonitor
  <2>2. ASSUME NEW b, WillWatch(b) PROVE b = a
    BY <2>2, RegisterActorSteps DEF WillWatch, Do
  <2>3. QED
    BY <1>2, <2>1, <2>2 DEF MonitorInv, ListedInv, Says
<1>6. QED
  BY <1>3, <1>4, <1>5 DEF MonitorInv

LEMMA DescribeInv ==
  ASSUME MonitorInv, MonitorCallStep, NEW s \in Supervisor, NEW a \in Watched,
         monitorCall = SetMonitor(s, a)
  PROVE  MonitorInv'
<1>1. /\ Head(monitorCall) = Do("describe", s, a)
      /\ Tail(monitorCall) = <<Do("monitor", s, a)>>
  BY DEF SetMonitor
<1>2. /\ monitorCall' = <<Do("monitor", s, a)>> /\ Mail(s, "describe", a)
      /\ UNCHANGED <<actorStatus, attached, watchedUp, descriptions, undescribed, stopped>>
  BY <1>1, StepEffect
<1>3. /\ TypeInv' /\ DescribedInv' /\ Says(supervisorMail[s], "describe", a)'
      /\ \A b \in Watched : Says(supervisorMail["status"], "down", b) =>
                            Says(supervisorMail["status"], "down", b)'
  BY <1>2, MailInv
<1>4. StepsInv'
  BY <1>2, <1>3 DEF StepsInv, Told
<1>5. ListedInv'
  <2>1. ASSUME NEW b, WillWatch(b) PROVE WillWatch(b)'
    <3>1. Do("monitor", s, a) = Do("monitor", "status", b)
      BY <2>1 DEF WillWatch, SetMonitor, Do
    <3>2. QED
      BY <1>2, <3>1 DEF WillWatch
  <2>2. \A b \in actorStatus : b \in Watched
    BY DEF MonitorInv, TypeInv, MonitorTypeOK
  <2>3. QED
    BY <1>2, <1>3, <2>1, <2>2 DEF MonitorInv, ListedInv
<1>6. QED
  BY <1>3, <1>4, <1>5 DEF MonitorInv

LEMMA AttachInv ==
  ASSUME MonitorInv, MonitorCallStep, NEW s \in Supervisor, NEW a \in Watched,
         monitorCall = <<Do("monitor", s, a)>>, a \notin stopped => Told(s, a)
  PROVE  MonitorInv'
<1>1. Head(monitorCall) = Do("monitor", s, a) /\ Tail(monitorCall) = <<>>
  OBVIOUS
<1>2. /\ monitorCall' = <<>>
      /\ UNCHANGED <<watchedUp, descriptions, undescribed, stopped>>
  BY <1>1, StepEffect
<1>3. StepsInv'
  BY <1>2 DEF StepsInv
<1>4. ASSUME NEW b, WillWatch(b) PROVE s = "status" /\ b = a
  BY <1>4 DEF WillWatch, Do
<1>5. \A b \in actorStatus : b \in Watched
  BY DEF MonitorInv, TypeInv, MonitorTypeOK
<1>6. CASE a \in watchedUp
  <2>1. /\ attached' = [attached EXCEPT ![s] = @ \cup {a}]
        /\ UNCHANGED <<actorStatus, supervisorMail>>
    BY <1>1, <1>6, StepEffect
  <2>2. /\ attached' \in [Supervisor -> SUBSET Watched] /\ attached'[s] = attached[s] \cup {a}
        /\ \A t \in Supervisor : t # s => attached'[t] = attached[t]
    BY <2>1 DEF MonitorInv, TypeInv, MonitorTypeOK
  <2>3. TypeInv'
    BY <1>2, <1>6, <2>1, <2>2 DEF MonitorInv, TypeInv, MonitorTypeOK
  <2>4. DescribedInv'
    <3>1. \A t \in Supervisor : \A b \in Watched \ stopped : b \in attached'[t] => Told(t, b)
      BY <2>2 DEF MonitorInv, DescribedInv
    <3>2. QED
      BY <1>2, <2>1, <3>1, MailGrows DEF MonitorInv
  <2>5. ListedInv'
    BY <1>4, <2>1, <2>2 DEF MonitorInv, ListedInv, Says, Supervisor
  <2>6. QED
    BY <1>3, <2>3, <2>4, <2>5 DEF MonitorInv
<1>7. CASE a \notin watchedUp
  <2>1. Mail(s, "down", a) /\ UNCHANGED <<actorStatus, attached>>
    BY <1>1, <1>7, StepEffect
  <2>2. /\ TypeInv' /\ DescribedInv' /\ Says(supervisorMail[s], "down", a)'
        /\ \A b \in Watched : Says(supervisorMail["status"], "down", b) =>
                              Says(supervisorMail["status"], "down", b)'
    BY <1>2, <2>1, MailInv
  <2>3. ListedInv'
    BY <1>4, <1>5, <2>1, <2>2 DEF MonitorInv, ListedInv
  <2>4. QED
    BY <1>3, <2>2, <2>3 DEF MonitorInv
<1>8. QED
  BY <1>6, <1>7

LEMMA DemonitorInv ==
  ASSUME MonitorInv, MonitorCallStep, NEW a \in stopped,
         monitorCall = StopMonitor("application", a)
  PROVE  MonitorInv'
<1>1. /\ Head(monitorCall) = Do("demonitor", "application", a)
      /\ Tail(monitorCall) = <<Do("detach", "application", a)>>
  BY DEF StopMonitor
<1>2. /\ monitorCall' = <<Do("detach", "application", a)>>
      /\ Mail("application", "demonitor", a)
      /\ UNCHANGED <<actorStatus, attached, watchedUp, descriptions, undescribed, stopped>>
  BY <1>1, StepEffect
<1>3. a \in Watched /\ "application" \in Supervisor
  BY DEF MonitorInv, TypeInv, MonitorTypeOK, Supervisor
<1>4. /\ TypeInv' /\ DescribedInv'
      /\ \A b \in Watched : Says(supervisorMail["status"], "down", b) =>
                            Says(supervisorMail["status"], "down", b)'
  BY <1>2, <1>3, MailInv
<1>5. StepsInv'
  BY <1>2, <1>3 DEF StepsInv
<1>6. ListedInv'
  <2>1. \A b : ~WillWatch(b)
    BY DEF WillWatch, StopMonitor, Do
  <2>2. \A b \in actorStatus : b \in Watched
    BY DEF MonitorInv, TypeInv, MonitorTypeOK
  <2>3. QED
    BY <1>2, <1>4, <2>1, <2>2 DEF MonitorInv, ListedInv
<1>7. QED
  BY <1>4, <1>5, <1>6 DEF MonitorInv

LEMMA DetachInv ==
  ASSUME MonitorInv, MonitorCallStep, NEW a \in Watched,
         monitorCall = <<Do("detach", "application", a)>>
  PROVE  MonitorInv'
<1>1. Head(monitorCall) = Do("detach", "application", a) /\ Tail(monitorCall) = <<>>
  OBVIOUS
<1>2. /\ monitorCall' = <<>>
      /\ attached' = [attached EXCEPT !["application"] = @ \ {a}]
      /\ UNCHANGED <<actorStatus, supervisorMail, watchedUp, descriptions, undescribed, stopped>>
  BY <1>1, StepEffect
<1>3. /\ attached' \in [Supervisor -> SUBSET Watched]
      /\ attached'["status"] = attached["status"]
      /\ \A t \in Supervisor : attached'[t] \subseteq attached[t]
  BY <1>2 DEF MonitorInv, TypeInv, MonitorTypeOK, Supervisor
<1>4. TypeInv'
  BY <1>2, <1>3 DEF MonitorInv, TypeInv, MonitorTypeOK
<1>5. DescribedInv'
  BY <1>2, <1>3 DEF MonitorInv, DescribedInv, Told, Says, Introduced
<1>6. ListedInv'
  <2>1. \A b : ~WillWatch(b)
    BY DEF WillWatch, Do
  <2>2. QED
    BY <1>2, <1>3, <2>1 DEF MonitorInv, ListedInv, Says
<1>7. QED
  BY <1>2, <1>4, <1>5, <1>6 DEF MonitorInv, StepsInv

LEMMA MonitorCallStepInv ==
  ASSUME MonitorInv, MonitorCallStep
  PROVE  MonitorInv'
<1>1. monitorCall # <<>>
  BY DEF MonitorCallStep
<1>2. StepsInv
  BY DEF MonitorInv
<1>3. QED
  BY <1>1, <1>2, ListInv, DescribeInv, AttachInv, DemonitorInv, DetachInv DEF StepsInv

\* A death is mailed to the supervisors that are attached, which were told before.
LEMMA WatchedEndsInv ==
  ASSUME MonitorInv, NEW a \in Watched, WatchedEnds(a)
  PROVE  MonitorInv'
<1> DEFINE m == [kind |-> "down", of |-> a]
<1>1. /\ watchedUp' = watchedUp \ {a}
      /\ supervisorMail' = [s \in Supervisor |-> IF a \in attached[s]
                               THEN Append(supervisorMail[s], m) ELSE supervisorMail[s]]
      /\ attached' = [s \in Supervisor |-> attached[s] \ {a}]
      /\ UNCHANGED <<actorStatus, descriptions, monitorCall, undescribed, stopped>>
  BY DEF WatchedEnds
<1>2. m \in Message /\ supervisorMail \in [Supervisor -> Seq(Message)]
  BY DEF Message, MonitorInv, TypeInv
<1>3. \A k, b : [kind |-> k, of |-> b] = m => k = "down" /\ b = a
  OBVIOUS
<1> HIDE DEF m
<1>4. /\ supervisorMail' \in [Supervisor -> Seq(Message)]
      /\ \A t \in Supervisor : supervisorMail'[t] =
            IF a \in attached[t] THEN Append(supervisorMail[t], m) ELSE supervisorMail[t]
  BY <1>1, <1>2
<1>5. MonitorTypeOK'
  <2>1. \A t \in Supervisor : \A i \in DOMAIN supervisorMail'[t] :
           supervisorMail'[t][i] \in Message
    BY <1>4, LenProperties, ElementOfSeq
  <2>2. attached' \in [Supervisor -> SUBSET Watched]
    BY <1>1 DEF MonitorInv, TypeInv, MonitorTypeOK
  <2>3. QED
    BY <1>1, <2>1, <2>2 DEF MonitorInv, TypeInv, MonitorTypeOK, Message
<1>6. TypeInv'
  BY <1>1, <1>4, <1>5 DEF MonitorInv, TypeInv
<1>7. \A t \in Supervisor :
         \/ supervisorMail'[t] = supervisorMail[t]
         \/ \E x \in Message :
               /\ supervisorMail'[t] = Append(supervisorMail[t], x)
               /\ \A b \in Watched \ stopped :
                     /\ x # [kind |-> "demonitor", of |-> b]
                     /\ x = [kind |-> "down", of |-> b] => Told(t, b)
  <2> SUFFICES ASSUME NEW t \in Supervisor, a \in attached[t], NEW b \in Watched \ stopped
               PROVE  /\ m # [kind |-> "demonitor", of |-> b]
                      /\ m = [kind |-> "down", of |-> b] => Told(t, b)
    BY <1>2, <1>4
  <2>1. b = a => Told(t, b)
    BY DEF MonitorInv, DescribedInv
  <2>2. QED
    BY <1>3, <2>1
<1>8. \A t \in Supervisor : \A b \in Watched \ stopped : b \in attached'[t] => Told(t, b)
  BY <1>1 DEF MonitorInv, DescribedInv
<1>9. /\ DescribedInv'
      /\ \A t \in Supervisor, b \in Watched : Told(t, b) => Told(t, b)'
      /\ \A t \in Supervisor, b \in Watched : Says(supervisorMail[t], "down", b) =>
                                             Says(supervisorMail[t], "down", b)'
  BY <1>1, <1>7, <1>8, MailGrows DEF MonitorInv
<1>10. StepsInv'
  BY <1>1, <1>9 DEF MonitorInv, StepsInv
<1>11. ListedInv'
  <2>1. "status" \in Supervisor
    BY DEF Supervisor
  <2>2. ASSUME a \in attached["status"] PROVE Says(supervisorMail["status"], "down", a)'
    <3>1. Says(Append(supervisorMail["status"], m), "down", a)
      BY <1>2, <2>1, AppendSays DEF m
    <3>2. QED
      BY <1>4, <2>1, <2>2, <3>1 DEF Says
  <2>3. \A b \in actorStatus : b \in Watched
    BY DEF MonitorInv, TypeInv, MonitorTypeOK
  <2>4. QED
    BY <1>1, <1>9, <2>1, <2>2, <2>3 DEF MonitorInv, ListedInv, WillWatch
<1>12. QED
  BY <1>6, <1>9, <1>10, <1>11 DEF MonitorInv

\* A supervisor reads its next message: what was to come is now there.
LEMMA SupervisorReceivesInv ==
  ASSUME MonitorInv, NEW s \in Supervisor, SupervisorReceives(s)
  PROVE  MonitorInv'
<1> DEFINE q == supervisorMail[s]
           m == Head(q)
<1>1. q \in Seq(Message) /\ q # <<>>
  BY DEF MonitorInv, TypeInv, SupervisorReceives
<1>2. m \in Message /\ Tail(q) \in Seq(Message)
  BY <1>1, HeadTailProperties
<1>3. /\ supervisorMail' = [supervisorMail EXCEPT ![s] = Tail(@)]
      /\ descriptions' = [descriptions EXCEPT ![s] =
            CASE m.kind = "describe" -> @ \cup {m.of}
              [] m.kind = "demonitor" -> @ \ {m.of}
              [] m.kind = "down" -> @]
      /\ actorStatus' = IF m.kind = "down" /\ s = "status" THEN actorStatus \ {m.of}
                                                        ELSE actorStatus
      /\ undescribed' = IF m.kind = "down" /\ m.of \notin descriptions[s]
                        THEN undescribed \cup {m.of} ELSE undescribed
      /\ UNCHANGED <<watchedUp, attached, monitorCall, stopped, monitorCalls>>
  BY DEF SupervisorReceives
<1>4. \A k, b : m = [kind |-> k, of |-> b] <=> m.kind = k /\ m.of = b
  BY <1>2 DEF Message
<1>5. m.kind \in {"describe", "demonitor", "down"} /\ m.of \in Watched
  BY <1>2 DEF Message
<1>6. /\ supervisorMail' \in [Supervisor -> Seq(Message)] /\ supervisorMail'[s] = Tail(q)
      /\ \A t \in Supervisor : t # s => supervisorMail'[t] = supervisorMail[t]
  BY <1>1, <1>2, <1>3 DEF MonitorInv, TypeInv
<1> HIDE DEF m
<1>7. /\ descriptions' \in [Supervisor -> SUBSET Watched]
      /\ \A t \in Supervisor : t # s => descriptions'[t] = descriptions[t]
      /\ m.kind = "describe" => descriptions'[s] = descriptions[s] \cup {m.of}
      /\ m.kind = "demonitor" => descriptions'[s] = descriptions[s] \ {m.of}
      /\ m.kind = "down" => descriptions'[s] = descriptions[s]
  BY <1>3, <1>5 DEF MonitorInv, TypeInv, MonitorTypeOK
<1> HIDE DEF q
<1>8. /\ \A kind, b : Says(q, kind, b) <=>
            (m.kind = kind /\ m.of = b) \/ Says(supervisorMail[s], kind, b)'
  <2> SUFFICES ASSUME NEW kind, NEW b
               PROVE  Says(q, kind, b) <=>
                         (m.kind = kind /\ m.of = b) \/ Says(supervisorMail[s], kind, b)'
    OBVIOUS
  <2>1. Says(q, kind, b) <=> m = [kind |-> kind, of |-> b] \/ Says(Tail(q), kind, b)
    BY <1>1, TailSays DEF m
  <2>2. Says(supervisorMail[s], kind, b)' <=> Says(Tail(q), kind, b)
    BY <1>6 DEF Says
  <2>3. QED
    BY <1>4, <2>1, <2>2
<1>9. \A b \in Watched \ stopped : m.kind # "demonitor" \/ m.of # b
  BY <1>8 DEF MonitorInv, DescribedInv, q
<1>10. \A t \in Supervisor, b \in Watched \ stopped : Told(t, b) => Told(t, b)'
  <2> SUFFICES ASSUME NEW t \in Supervisor, NEW b \in Watched \ stopped, Told(t, b)
               PROVE  Told(t, b)'
    OBVIOUS
  <2>1. CASE t # s
    BY <1>6, <1>7, <2>1 DEF Told, Says
  <2>2. CASE t = s
    <3>1. b \in descriptions[s] \/ Says(q, "describe", b)
      BY <2>2 DEF Told, q
    <3>2. b \in descriptions[s] => b \in descriptions'[s]
      BY <1>5, <1>7, <1>9
    <3>3. QED
      BY <1>7, <1>8, <2>2, <3>1, <3>2 DEF Told
  <2>3. QED
    BY <2>1, <2>2
<1>11. undescribed' \subseteq stopped
  <2>1. ASSUME m.kind = "down", m.of \notin descriptions[s], m.of \notin stopped PROVE FALSE
    <3>1. Introduced(q, descriptions[s], m.of)
      BY <1>5, <2>1 DEF MonitorInv, DescribedInv, q
    <3>2. q[1] = [kind |-> "down", of |-> m.of] /\ 1 \in 1 .. Len(q)
      <4>1. m = q[1] /\ 1 \in 1 .. Len(q)
        BY <1>1, HeadTailProperties, EmptySeq DEF m
      <4>2. QED
        BY <1>4, <2>1, <4>1
    <3>3. QED
      BY <2>1, <3>1, <3>2 DEF Introduced
  <2>2. QED
    BY <1>3, <1>5, <2>1 DEF MonitorInv, DescribedInv
<1>12. \A t \in Supervisor, b \in Watched \ stopped :
          Introduced(supervisorMail[t], descriptions[t], b)'
  <2> SUFFICES ASSUME NEW t \in Supervisor, NEW b \in Watched \ stopped
               PROVE  Introduced(supervisorMail[t], descriptions[t], b)'
    OBVIOUS
  <2>1. Introduced(supervisorMail[t], descriptions[t], b)
    BY DEF MonitorInv, DescribedInv
  <2>2. CASE t # s
    BY <1>6, <1>7, <2>1, <2>2 DEF Introduced
  <2>3. CASE t = s
    <3>1. Introduced(q, descriptions[s], b)
      BY <2>1, <2>3 DEF q
    <3>2. b \in descriptions[s] => b \in descriptions'[s]
      BY <1>5, <1>7, <1>9
    <3>3. m = [kind |-> "describe", of |-> b] => b \in descriptions'[s]
      BY <1>4, <1>7
    <3>4. Introduced(Tail(q), descriptions'[s], b)
      BY <1>1, <3>1, <3>2, <3>3, TailIntroduced DEF m
    <3>5. QED
      BY <1>6, <2>3, <3>4 DEF Introduced
  <2>4. QED
    BY <2>2, <2>3
<1>13. \A t \in Supervisor, b \in Watched \ stopped : ~Says(supervisorMail[t], "demonitor", b)'
  <2> SUFFICES ASSUME NEW t \in Supervisor, NEW b \in Watched \ stopped
               PROVE  ~Says(supervisorMail[t], "demonitor", b)'
    OBVIOUS
  <2>1. ~Says(supervisorMail[t], "demonitor", b)
    BY DEF MonitorInv, DescribedInv
  <2>2. CASE t # s
    BY <1>6, <2>1, <2>2 DEF Says
  <2>3. CASE t = s
    BY <1>8, <2>1, <2>3 DEF q
  <2>4. QED
    BY <2>2, <2>3
<1>14. DescribedInv'
  <2>1. \A t \in Supervisor, b \in Watched \ stopped : b \in attached'[t] => Told(t, b)'
    BY <1>3, <1>10 DEF MonitorInv, DescribedInv
  <2>2. QED
    BY <1>3, <1>11, <1>12, <1>13, <2>1 DEF DescribedInv
<1>15. TypeInv'
  <2>1. \A t \in Supervisor : \A i \in DOMAIN supervisorMail'[t] :
           supervisorMail'[t][i] \in Message
    BY <1>6, LenProperties, ElementOfSeq
  <2>2. actorStatus' \subseteq Watched /\ undescribed' \subseteq Watched
    BY <1>3, <1>5 DEF MonitorInv, TypeInv, MonitorTypeOK
  <2>3. QED
    BY <1>3, <1>6, <1>7, <2>1, <2>2 DEF MonitorInv, TypeInv, MonitorTypeOK, Message
<1>16. StepsInv'
  BY <1>3, <1>10 DEF MonitorInv, StepsInv
<1>17. ListedInv'
  <2> SUFFICES ASSUME NEW b \in actorStatus'
               PROVE  \/ b \in attached["status"] \/ WillWatch(b)
                      \/ Says(supervisorMail["status"], "down", b)'
    BY <1>3 DEF ListedInv, WillWatch
  <2>1. /\ b \in actorStatus
        /\ \/ b \in attached["status"] \/ WillWatch(b)
           \/ Says(supervisorMail["status"], "down", b)
    BY <1>3 DEF MonitorInv, ListedInv
  <2>2. CASE s = "status"
    BY <1>3, <1>8, <2>1, <2>2 DEF q
  <2>3. CASE s # "status"
    <3>1. supervisorMail'["status"] = supervisorMail["status"]
      BY <1>6, <2>3 DEF Supervisor
    <3>2. QED
      BY <2>1, <3>1 DEF Says
  <2>4. QED
    BY <2>2, <2>3
<1>18. QED
  BY <1>14, <1>15, <1>16, <1>17 DEF MonitorInv

LEMMA MonitorNextInv == MonitorInv /\ [MonitorNext]_monitorVars => MonitorInv'
<1> SUFFICES ASSUME MonitorInv, [MonitorNext]_monitorVars PROVE MonitorInv'
  OBVIOUS
<1>1. CASE UNCHANGED monitorVars
  <2>1. /\ watchedUp' = watchedUp /\ actorStatus' = actorStatus /\ attached' = attached
        /\ supervisorMail' = supervisorMail /\ descriptions' = descriptions
        /\ monitorCall' = monitorCall /\ undescribed' = undescribed /\ stopped' = stopped
    BY <1>1 DEF monitorVars
  <2>2. TypeInv'
    BY <2>1 DEF MonitorInv, TypeInv, MonitorTypeOK
  <2>3. DescribedInv'
    BY <2>1 DEF MonitorInv, DescribedInv, Told, Says, Introduced
  <2>4. StepsInv'
    BY <2>1, Zenon DEF MonitorInv, StepsInv, Told, Says
  <2>5. ListedInv'
    BY <2>1 DEF MonitorInv, ListedInv, Says, WillWatch
  <2>6. QED
    BY <2>2, <2>3, <2>4, <2>5 DEF MonitorInv
<1>2. CASE MonitorCallStep
  BY <1>2, MonitorCallStepInv
<1>3. ASSUME NEW a \in Watched,
             CallRegisterActor(a) \/ CallSetMonitor(a) \/ CallStopMonitor(a)
      PROVE  MonitorInv'
  BY <1>3, CallsInv
<1>4. ASSUME NEW a \in Watched, WatchedEnds(a)
      PROVE  MonitorInv'
  BY <1>4, WatchedEndsInv
<1>5. ASSUME NEW s \in Supervisor, SupervisorReceives(s)
      PROVE  MonitorInv'
  BY <1>5, SupervisorReceivesInv
<1>6. CASE MonitorNext
  <2>1. CASE \E a \in Watched : CallRegisterActor(a) \/ CallSetMonitor(a) \/ CallStopMonitor(a)
    <3>1. PICK a \in Watched : CallRegisterActor(a) \/ CallSetMonitor(a) \/ CallStopMonitor(a)
      BY <2>1
    <3>2. QED
      BY <3>1, <1>3
  <2>2. CASE \E a \in Watched : WatchedEnds(a)
    <3>1. PICK a \in Watched : WatchedEnds(a)
      BY <2>2
    <3>2. QED
      BY <3>1, <1>4
  <2>3. CASE \E s \in Supervisor : SupervisorReceives(s)
    <3>1. PICK s \in Supervisor : SupervisorReceives(s)
      BY <2>3
    <3>2. QED
      BY <3>1, <1>5
  <2>4. \/ MonitorCallStep
        \/ \E a \in Watched : CallRegisterActor(a) \/ CallSetMonitor(a) \/ CallStopMonitor(a)
        \/ \E a \in Watched : WatchedEnds(a)
        \/ \E s \in Supervisor : SupervisorReceives(s)
    BY <1>6, Zenon DEF MonitorNext
  <2>5. QED
    BY <1>2, <2>1, <2>2, <2>3, <2>4
<1>7. QED
  BY <1>1, <1>6

LEMMA MonitorInvariant == MonitorSpec => []MonitorInv
  BY MonitorInitInv, MonitorNextInv, PTL DEF MonitorSpec

\* The state of ActorMonitor and ActorStatusMonitor keeps its types.
THEOREM MonitorTypeCorrect == MonitorSpec => []MonitorTypeOK
<1>1. MonitorInv => MonitorTypeOK
  BY DEF MonitorInv, TypeInv
<1>2. QED
  BY <1>1, MonitorInvariant, PTL

\* ActorMonitor's handler of a down finds the description that SetMonitor mailed,
\* whenever the actor ended, unless StopMonitor was called for it.
THEOREM DownDescribed == MonitorSpec => []DownIsDescribed
<1>1. MonitorInv => DownIsDescribed
  BY DEF MonitorInv, DescribedInv, DownIsDescribed
<1>2. QED
  BY <1>1, MonitorInvariant, PTL

\* GetActorStatus lists only actors that run once the calls have returned and the
\* status monitor's mail is read, even if RegisterActor was called with a dead one.
THEOREM DeadUnlisted == MonitorSpec => []DeadAreUnlisted
<1>1. ASSUME MonitorInv PROVE DeadAreUnlisted
  <2> SUFFICES ASSUME monitorCall = <<>>, supervisorMail["status"] = <<>>,
                      NEW a \in actorStatus
               PROVE  a \in watchedUp
    BY DEF DeadAreUnlisted, GetActorStatus
  <2>1. a \in attached["status"]
    BY <1>1 DEF MonitorInv, ListedInv, Says, WillWatch
  <2>2. QED
    BY <1>1, <2>1 DEF MonitorInv, TypeInv, Supervisor
<1>2. QED
  BY <1>1, MonitorInvariant, PTL
=============================================================================
