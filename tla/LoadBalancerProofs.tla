------------------------- MODULE LoadBalancerProofs -------------------------
(***************************************************************************)
(* Theorems about LoadBalancer, for any clients and workers, any threshold *)
(* and any commands.                                                       *)
(***************************************************************************)
EXTENDS LoadBalancer, FiniteSetTheorems, TLAPS

(* Sequences, remainders and maps.                                         *)

\* Erasing from a vector without duplicates takes just that element out.
LEMMA RemoveAtFacts ==
    ASSUME NEW S, NEW s \in Seq(S), IsInjective(s), NEW i \in DOMAIN s
    PROVE  /\ RemoveAt(s, i) \in Seq(S)
           /\ IsInjective(RemoveAt(s, i))
           /\ ToSet(RemoveAt(s, i)) = ToSet(s) \ {s[i]}
<1> DEFINE r == RemoveAt(s, i)
<1>1. i \in 1..Len(s) /\ Len(s) \in Nat /\ DOMAIN s = 1..Len(s)
  OBVIOUS
<1>2. SubSeq(s, 1, i - 1) \in Seq(S) /\ SubSeq(s, i + 1, Len(s)) \in Seq(S)
  BY <1>1
<1>3. r \in Seq(S)
  BY <1>2 DEF RemoveAt
<1>4. Len(r) = Len(s) - 1
  BY <1>1, <1>2 DEF RemoveAt
<1>5. \A j \in 1..(Len(s) - 1) : r[j] = IF j < i THEN s[j] ELSE s[j + 1]
  <2> DEFINE u == SubSeq(s, 1, i - 1)
             v == SubSeq(s, i + 1, Len(s))
  <2>1. Len(u) = i - 1 /\ \A j \in 1..(i - 1) : u[j] = s[j]
    BY <1>1
  <2>2. Len(v) = Len(s) - i /\ \A j \in 1..(Len(s) - i) : v[j] = s[i + j]
    BY <1>1
  <2>3. u \in Seq(S) /\ v \in Seq(S) /\ r = u \o v
    BY <1>2 DEF RemoveAt
  <2> HIDE DEF u, v, r
  <2>4. ASSUME NEW j \in 1..(Len(s) - 1), j < i PROVE r[j] = s[j]
    BY <1>1, <2>1, <2>2, <2>3, <2>4
  <2>5. ASSUME NEW j \in 1..(Len(s) - 1), ~(j < i) PROVE r[j] = s[j + 1]
    <3>1. j - (i - 1) \in 1..(Len(s) - i) /\ r[j] = v[j - (i - 1)]
      BY <1>1, <2>1, <2>2, <2>3, <2>5
    <3> QED
      BY <1>1, <2>2, <3>1
  <2> QED
    BY <2>4, <2>5
<1>6. DOMAIN r = 1..(Len(s) - 1)
  BY <1>3, <1>4
<1> HIDE DEF r
<1>7. IsInjective(r)
  <2> SUFFICES ASSUME NEW x \in DOMAIN r, NEW y \in DOMAIN r, r[x] = r[y]
               PROVE  x = y
    BY DEF IsInjective
  <2>1. x \in 1..(Len(s) - 1) /\ y \in 1..(Len(s) - 1)
    BY <1>6
  <2>2. \A p, q \in 1..Len(s) : s[p] = s[q] => p = q
    BY <1>1 DEF IsInjective
  <2> DEFINE at(j) == IF j < i THEN j ELSE j + 1
  <2>3. r[x] = s[at(x)] /\ r[y] = s[at(y)] /\ at(x) \in 1..Len(s) /\ at(y) \in 1..Len(s)
    BY <1>1, <1>5, <2>1
  <2>4. at(x) = at(y)
    BY <2>2, <2>3
  <2> QED
    BY <1>1, <2>1, <2>4
<1>8. ToSet(r) \subseteq ToSet(s) \ {s[i]}
  BY <1>1, <1>5, <1>6 DEF IsInjective, ToSet
<1>9. ASSUME NEW j \in DOMAIN s, j # i PROVE s[j] \in ToSet(r)
  <2>1. PICK k \in 1..(Len(s) - 1) : k = IF j < i THEN j ELSE j - 1
    BY <1>1, <1>9
  <2>2. r[k] = s[j]
    BY <1>1, <1>5, <1>9, <2>1
  <2> QED
    BY <1>6, <2>1, <2>2 DEF ToSet
<1>10. ToSet(s) \ {s[i]} \subseteq ToSet(r)
  BY <1>9 DEF ToSet
<1> QED
  BY <1>3, <1>7, <1>8, <1>10 DEF r

\* Appending a new element.
LEMMA AppendFacts ==
    ASSUME NEW S, NEW s \in Seq(S), NEW x \in S
    PROVE  /\ Append(s, x) \in Seq(S)
           /\ ToSet(Append(s, x)) = ToSet(s) \cup {x}
           /\ IsInjective(s) /\ x \notin ToSet(s) => IsInjective(Append(s, x))
<1>1. /\ Append(s, x) \in Seq(S)
      /\ Len(Append(s, x)) = Len(s) + 1
      /\ \A j \in 1..Len(s) : Append(s, x)[j] = s[j]
      /\ Append(s, x)[Len(s) + 1] = x
  OBVIOUS
<1>2. DOMAIN s = 1..Len(s) /\ DOMAIN Append(s, x) = 1..(Len(s) + 1) /\ Len(s) \in Nat
  BY <1>1
<1>3. ToSet(Append(s, x)) = ToSet(s) \cup {x}
  BY <1>1, <1>2 DEF ToSet
<1>4. IsInjective(s) /\ x \notin ToSet(s) => IsInjective(Append(s, x))
  BY <1>1, <1>2 DEF ToSet, IsInjective
<1> QED
  BY <1>1, <1>3, <1>4

\* The first element of a vector without duplicates is not in the rest.
LEMMA TailFacts ==
    ASSUME NEW S, NEW s \in Seq(S), s # <<>>
    PROVE  /\ Head(s) \in ToSet(s) /\ Head(s) \in S
           /\ Tail(s) \in Seq(S)
           /\ ToSet(Tail(s)) \subseteq ToSet(s)
           /\ IsInjective(s) => IsInjective(Tail(s)) /\ Head(s) \notin ToSet(Tail(s))
<1>1. /\ Tail(s) \in Seq(S) /\ Head(s) = s[1] /\ Len(s) \in Nat \ {0}
      /\ Len(Tail(s)) = Len(s) - 1
      /\ \A j \in 1..(Len(s) - 1) : Tail(s)[j] = s[j + 1]
  OBVIOUS
<1>2. DOMAIN s = 1..Len(s) /\ DOMAIN Tail(s) = 1..(Len(s) - 1)
  BY <1>1
<1>3. ToSet(Tail(s)) \subseteq ToSet(s) /\ Head(s) \in ToSet(s) /\ Head(s) \in S
  BY <1>1, <1>2 DEF ToSet
<1>4. IsInjective(s) => IsInjective(Tail(s)) /\ Head(s) \notin ToSet(Tail(s))
  BY <1>1, <1>2 DEF ToSet, IsInjective
<1> QED
  BY <1>1, <1>3, <1>4

\* A size_t wraps.
LEMMA WrapFact ==
    ASSUME NEW x \in Int
    PROVE  x % (SizeMax + 1) \in 0..SizeMax
<1>1. SizeMax + 1 \in Nat \ {0}
  BY SizeAssumption
<1> QED
  BY <1>1, SizeAssumption, SMT

\* metrics_ after emplace or operator[] for a worker, and tickets_ after emplace.
LEMMA EmplaceLoad ==
    ASSUME TypeOK, NEW w \in Worker
    PROVE  LET new == Emplace(load, w, 0)
           IN  /\ DOMAIN new = DOMAIN load \cup {w}
               /\ DOMAIN new \subseteq Worker
               /\ new \in [DOMAIN new -> 0..SizeMax]
               /\ ToSet(workers) \subseteq DOMAIN new
<1>1. /\ DOMAIN load \subseteq Worker /\ load \in [DOMAIN load -> 0..SizeMax]
      /\ 0 \in 0..SizeMax /\ ToSet(workers) \subseteq DOMAIN load
  BY SizeAssumption DEF TypeOK
<1> QED
  BY <1>1 DEF Emplace, Set

LEMMA EmplaceTicket ==
    ASSUME NEW map, DOMAIN map \subseteq Nat, map \in [DOMAIN map -> Client \cup {Nobody}],
           NEW id \in Nat, NEW v \in Client \cup {Nobody}
    PROVE  LET new == Emplace(map, id, v)
           IN  /\ DOMAIN new = DOMAIN map \cup {id}
               /\ new \in [DOMAIN new -> Client \cup {Nobody}]
               /\ \A i \in DOMAIN map : new[i] = map[i]
               /\ id \notin DOMAIN map => new[id] = v
BY DEF Emplace, Set

-----------------------------------------------------------------------------
(* Types.                                                                  *)

LEMMA IdleIsCall == Idle \in Call
BY DEF Idle, Call, Steps

LEMMA StartIsCall ==
    ASSUME NEW step \in Steps, NEW mail \in Client \cup {Nobody}
    PROVE  Start(step, mail) \in Call
BY IdleIsCall DEF Start, Call

LEMMA FinishedIsCall == ASSUME NEW a PROVE Finished(a) \in Call
BY IdleIsCall DEF Finished, Call, Steps

\* A snapshot of the metrics is a sequence of loads.
LEMMA MetricsType == TypeOK => GetMetrics \in Seq(0..SizeMax)
<1> SUFFICES ASSUME TypeOK PROVE GetMetrics \in Seq(0..SizeMax)
  OBVIOUS
<1>1. \A i \in 1..Len(workers) : load[workers[i]] \in 0..SizeMax
  BY DEF TypeOK, ToSet
<1>2. Len(workers) \in Nat
  BY DEF TypeOK
<1> QED
  BY <1>1, <1>2 DEF GetMetrics

LEMMA InitTypes == Init => TypeOK
<1> SUFFICES ASSUME Init PROVE TypeOK
  OBVIOUS
<1>1. workers \in Seq(Worker) /\ IsInjective(workers)
  BY InitialAssumption DEF Init
<1>2. DOMAIN load = ToSet(workers) /\ load \in [DOMAIN load -> 0..SizeMax]
  BY SizeAssumption DEF Init
<1>3. ToSet(workers) \subseteq Worker
  BY <1>1 DEF ToSet
<1>4. call \in [Actors -> Call]
  BY IdleIsCall DEF Init
<1>5. DOMAIN tickets \subseteq Nat /\ tickets \in [DOMAIN tickets -> Client \cup {Nobody}]
  BY DEF Init
<1>6. /\ rotated \in Nat /\ mails \in Seq(Client) /\ lastId \in Nat
      /\ lock \in Actors \cup {Nobody} /\ commands \in 0..MaxCommands
  BY SizeAssumption, CommandsAssumption DEF Init
<1>7. /\ inbox \in [Worker -> Seq(Mail)]
      /\ replies \in [Client -> Seq(Client \cup {EmptyMessage})]
      /\ {dead, exiting, downs, removed} \subseteq SUBSET Worker
      /\ cleaned \in BOOLEAN /\ aborted \in BOOLEAN
      /\ served \in [Client -> Nat]
  <2>1. <<>> \in Seq(Mail) /\ <<>> \in Seq(Client \cup {EmptyMessage})
    OBVIOUS
  <2> QED
    BY <2>1 DEF Init
<1> QED
  BY <1>1, <1>2, <1>3, <1>4, <1>5, <1>6, <1>7 DEF TypeOK

LEMMA ReplyEmptyTypes == ASSUME TypeOK, NEW c \in Client, ReplyEmpty(c) PROVE TypeOK'
<1>1. call' \in [Actors -> Call]
  <2>1. call[c] \in Call
    BY DEF TypeOK, Actors
  <2>2. [call[c] EXCEPT !.step = "done"] \in Call
    BY <2>1 DEF Call, Steps
  <2> QED
    BY <2>2 DEF TypeOK, ReplyEmpty
<1>2. replies' \in [Client -> Seq(Client \cup {EmptyMessage})]
  BY DEF TypeOK, ReplyEmpty
<1> QED
  BY <1>1, <1>2 DEF TypeOK, ReplyEmpty, outside, workerVars, policyVars, proxyVars

LEMMA SendTypes == ASSUME TypeOK, NEW c \in Client, Send(c) PROVE TypeOK'
<1>1. [Start("policy", c) EXCEPT !.metrics = GetMetrics] \in Call
  BY StartIsCall, MetricsType DEF Call, Steps
<1>2. call' \in [Actors -> Call] /\ lock' \in Actors \cup {Nobody}
  BY <1>1 DEF TypeOK, Send, Actors
<1> QED
  BY <1>2 DEF TypeOK, Send, outside, workerVars, policyVars, proxyVars, clientVars

LEMMA AnswerTypes == ASSUME TypeOK, NEW w \in Worker, Answer(w) PROVE TypeOK'
<1> DEFINE m == Head(inbox[w])
<1>1. m \in Mail /\ Tail(inbox[w]) \in Seq(Mail)
  BY DEF TypeOK, Answer
<1>2. /\ DOMAIN load' \subseteq Worker /\ load' \in [DOMAIN load' -> 0..SizeMax]
      /\ ToSet(workers) \subseteq DOMAIN load'
  BY EmplaceLoad DEF Answer
<1>3. LoadOf(w) \in Nat
  BY DEF TypeOK, LoadOf
<1> HIDE DEF m
<1>4. [Start("settle", m.mail) EXCEPT !.read = LoadOf(w), !.id = m.id] \in Call
  <2>1. Start("settle", m.mail) \in Call
    BY <1>1, StartIsCall DEF Steps, Mail
  <2> QED
    BY <1>1, <1>3, <2>1 DEF Call, Mail
<1>5. call' \in [Actors -> Call] /\ lock' \in Actors \cup {Nobody}
  BY <1>4 DEF TypeOK, Answer, Actors, m
<1>6. inbox' \in [Worker -> Seq(Mail)] /\ served' \in [Client -> Nat]
  <2>1. inbox' = [inbox EXCEPT ![w] = Tail(inbox[w])]
    BY DEF TypeOK, Answer
  <2>2. served' = [served EXCEPT ![m.mail] = served[m.mail] + 1] /\ m.mail \in Client
    BY <1>1 DEF TypeOK, Answer, m, Mail
  <2> QED
    BY <1>1, <2>1, <2>2 DEF TypeOK
<1> QED
  BY <1>2, <1>5, <1>6 DEF TypeOK, Answer, outside, workerVars, policyVars, proxyVars

LEMMA SettleTypes == ASSUME TypeOK, NEW w \in Worker, Settle(w) PROVE TypeOK'
<1> DEFINE client == ResponseTo(w, call[w].id)
<1>1. call[w] \in Call /\ client \in Client \cup {Nobody}
  BY DEF TypeOK, Actors, ResponseTo
<1>2. (call[w].read - 1) % (SizeMax + 1) \in 0..SizeMax
  <2> DEFINE x == call[w].read - 1
  <2>1. x \in Int
    BY <1>1 DEF Call
  <2> HIDE DEF x
  <2>2. x % (SizeMax + 1) \in 0..SizeMax
    BY <2>1, WrapFact
  <2> QED
    BY <2>2 DEF x
<1>3. load' \in [DOMAIN load' -> 0..SizeMax] /\ DOMAIN load' = DOMAIN load
  BY <1>2 DEF TypeOK, Settle
<1>4. DOMAIN tickets' \subseteq Nat /\ tickets' \in [DOMAIN tickets' -> Client \cup {Nobody}]
  BY DEF TypeOK, Settle, Without
<1>5. replies' \in [Client -> Seq(Client \cup {EmptyMessage})]
  <2>1. CASE client = Nobody
    BY <2>1 DEF TypeOK, Settle
  <2>2. CASE client # Nobody
    <3>1. client \in Client /\ call[w].mail \in Client \cup {EmptyMessage}
      BY <1>1, <2>2 DEF Call, EmptyMessage
    <3>2. replies' = [replies EXCEPT ![client] = Append(replies[client], call[w].mail)]
      BY <2>2 DEF Settle
    <3>3. Append(replies[client], call[w].mail) \in Seq(Client \cup {EmptyMessage})
      BY <3>1 DEF TypeOK
    <3> QED
      BY <3>2, <3>3 DEF TypeOK
  <2> QED
    BY <2>1, <2>2
<1>6. call' \in [Actors -> Call]
  BY StartIsCall DEF TypeOK, Settle, Steps
<1> QED
  BY <1>3, <1>4, <1>5, <1>6 DEF TypeOK, Settle, outside, workerVars, policyVars

LEMMA ReadMetricsTypes == ASSUME TypeOK, NEW w \in Worker, ReadMetrics(w) PROVE TypeOK'
<1>1. [Start("policy", Nobody) EXCEPT !.metrics = GetMetrics] \in Call
  BY StartIsCall, MetricsType DEF Call, Steps
<1>2. call' \in [Actors -> Call]
  BY <1>1 DEF TypeOK, ReadMetrics
<1> QED
  BY <1>2 DEF TypeOK, ReadMetrics, outside, workerVars, policyVars, proxyVars, clientVars

\* The queue of the policy with the new mail.
LEMMA HoldType ==
    ASSUME TypeOK, NEW mail \in Client \cup {Nobody}
    PROVE  /\ Hold(mail) \in Seq(Client)
           /\ mail # Nobody \/ mails # <<>> => Hold(mail) # <<>>
<1>1. mails \in Seq(Client)
  BY DEF TypeOK
<1>2. CASE mail = Nobody
  BY <1>1, <1>2 DEF Hold
<1>3. CASE mail # Nobody
  <2>1. mail \in Client
    BY <1>3
  <2>2. Append(mails, mail) \in Seq(Client) /\ Len(Append(mails, mail)) = Len(mails) + 1
        /\ Len(mails) \in Nat
    BY <1>1, <2>1
  <2> QED
    BY <1>3, <2>2 DEF Hold
<1> QED
  BY <1>2, <1>3

\* Where the policy hands out a mail: of the queue, to one of the workers.
PolicyHandsOut(a, selected) ==
    LET metrics == call[a].metrics
        n == Len(metrics)
    IN
    /\ selected \in 0..(n - 1)
    /\ Hold(call[a].mail) # <<>>
    /\ Len(workers) = n
    /\ rotated' = Pivot(n)
    /\ mails' = Tail(Hold(call[a].mail))
    /\ call' = [call EXCEPT ![a].step = "load",
                            ![a].mail = Head(Hold(call[a].mail)),
                            ![a].to = workers[((rotated' + selected) % n) + 1]]

PolicyHolds(a) == mails' = Hold(call[a].mail) /\ call' = [call EXCEPT ![a] = Finished(a)]

PolicyIdle(a) == mails' = mails /\ call' = [call EXCEPT ![a] = Finished(a)]

LEMMA PolicyCases ==
    ASSUME TypeOK, NEW a \in Actors, Policy(a)
    PROVE  /\ \/ PolicyIdle(a) /\ call[a].mail = Nobody
              \/ PolicyHolds(a)
              \/ \E selected \in Nat : PolicyHandsOut(a, selected)
           /\ call[a].step = "policy"
<1>1. CASE NothingToDo(a)
  BY <1>1 DEF Policy, PolicyIdle, policyVars, NothingToDo
<1>2. CASE ~NothingToDo(a)
  <2>1. call[a].mail \in Client \cup {Nobody}
    BY DEF TypeOK, Call
  <2>2. Hold(call[a].mail) # <<>>
    BY <1>2, <2>1, HoldType DEF NothingToDo
  <2>3. Len(call[a].metrics) \in Nat
    BY DEF TypeOK, Call
  <2>4. PICK selected \in 0..(Len(call[a].metrics) - 1) :
          /\ rotated' = Pivot(Len(call[a].metrics))
          /\ \/ PolicyHolds(a)
             \/ /\ mails' = Release(call[a].mail).rest
                /\ call' = [call EXCEPT
                      ![a].step = "load",
                      ![a].mail = Release(call[a].mail).first,
                      ![a].to = workers[((rotated' + selected) % Len(workers)) + 1]]
    BY <1>2 DEF Policy, PolicyHolds
  <2>5. Len(workers) = Len(call[a].metrics)
    BY DEF Policy, SizesAgree
  <2>6. selected \in Nat
    BY <2>3
  <2>7. PolicyHolds(a) \/ PolicyHandsOut(a, selected)
    BY <2>2, <2>4, <2>5 DEF PolicyHandsOut, Release
  <2> QED
    BY <2>6, <2>7 DEF Policy
<1> QED
  BY <1>1, <1>2 DEF Policy

LEMMA HandOutFacts ==
    ASSUME TypeOK, NEW a \in Actors, NEW selected \in Nat, PolicyHandsOut(a, selected)
    PROVE  /\ Hold(call[a].mail) \in Seq(Client) /\ Hold(call[a].mail) # <<>>
           /\ Head(Hold(call[a].mail)) \in Client
           /\ mails' = Tail(Hold(call[a].mail)) /\ mails' \in Seq(Client)
           /\ \E w \in Worker :
                call' = [call EXCEPT ![a].step = "load",
                                     ![a].mail = Head(Hold(call[a].mail)),
                                     ![a].to = w]
<1> DEFINE n == Len(call[a].metrics)
           k == (rotated' + selected) % n
           q == Hold(call[a].mail)
<1>1. call[a] \in Call /\ call[a].mail \in Client \cup {Nobody}
  BY DEF TypeOK, Call
<1>2. n \in Nat \ {0} /\ Len(workers) = n
  BY <1>1 DEF PolicyHandsOut, Call
<1>3. rotated' \in Int
  <2>1. ((rotated + 1) % (SizeMax + 1)) \in Int
    BY SizeAssumption DEF TypeOK
  <2> QED
    BY <1>2, <2>1 DEF PolicyHandsOut, Pivot
<1>4. k \in 0..(n - 1)
  <2>1. \A x \in Int : \A m \in Nat \ {0} : x % m \in 0..(m - 1)
    BY SMT
  <2>2. rotated' + selected \in Int
    BY <1>3
  <2> QED
    BY <1>2, <2>1, <2>2
<1>5. workers[k + 1] \in Worker
  BY <1>2, <1>4 DEF TypeOK
<1>6. q \in Seq(Client) /\ q # <<>>
  BY <1>1, HoldType DEF PolicyHandsOut
<1>7. Head(q) \in Client /\ Tail(q) \in Seq(Client)
  BY <1>6
<1> HIDE DEF q, k, n
<1>8. /\ mails' = Tail(q)
      /\ call' = [call EXCEPT ![a].step = "load", ![a].mail = Head(q),
                              ![a].to = workers[k + 1]]
  BY DEF PolicyHandsOut, q, k, n
<1> QED
  BY <1>5, <1>6, <1>7, <1>8 DEF q

LEMMA UnlockedType == ASSUME TypeOK, NEW a PROVE Unlocked(a) \in Actors \cup {Nobody}
BY DEF TypeOK, Unlocked

LEMMA PolicyTypes == ASSUME TypeOK, NEW a \in Actors, Policy(a) PROVE TypeOK'
<1>1. call[a] \in Call /\ call[a].mail \in Client \cup {Nobody}
  BY DEF TypeOK, Call
<1>2. mails' \in Seq(Client) /\ call' \in [Actors -> Call]
  <2>1. CASE PolicyIdle(a)
    BY <2>1, FinishedIsCall DEF PolicyIdle, TypeOK
  <2>2. CASE PolicyHolds(a)
    BY <2>2, <1>1, FinishedIsCall, HoldType DEF PolicyHolds, TypeOK
  <2>3. ASSUME NEW selected \in Nat, PolicyHandsOut(a, selected)
        PROVE  mails' \in Seq(Client) /\ call' \in [Actors -> Call]
    <3>1. PICK m \in Client, w \in Worker :
            call' = [call EXCEPT ![a].step = "load", ![a].mail = m, ![a].to = w]
      BY <2>3, HandOutFacts
    <3>2. [call[a] EXCEPT !.step = "load", !.mail = m, !.to = w] \in Call
      BY <1>1 DEF Call, Steps
    <3> QED
      BY <2>3, <3>1, <3>2, HandOutFacts DEF TypeOK
  <2> QED
    BY <2>1, <2>2, <2>3, PolicyCases
<1>3. rotated' \in Nat
  <2>1. CASE rotated' = rotated
    BY <2>1 DEF TypeOK
  <2>2. CASE ~NothingToDo(a)
    <3>1. PICK selected \in 0..(Len(call[a].metrics) - 1) : rotated' = Pivot(Len(call[a].metrics))
      BY <2>2 DEF Policy
    <3>2. Len(call[a].metrics) \in Nat \ {0}
      BY <3>1, <1>1 DEF Call
    <3>3. \A x \in Int : \A m \in Nat \ {0} : x % m \in 0..(m - 1)
      BY SMT
    <3>4. ((rotated + 1) % (SizeMax + 1)) \in Int
      BY SizeAssumption DEF TypeOK
    <3>5. Pivot(Len(call[a].metrics)) \in 0..(Len(call[a].metrics) - 1)
      BY <3>2, <3>3, <3>4 DEF Pivot
    <3> QED
      BY <3>1, <3>2, <3>5
  <2> QED
    BY <2>1, <2>2 DEF Policy, policyVars
<1>4. lock' \in Actors \cup {Nobody}
  BY UnlockedType DEF Policy, TypeOK
<1> QED
  BY <1>2, <1>3, <1>4 DEF TypeOK, Policy, workerVars, proxyVars, clientVars

LEMMA AbortTypes == ASSUME TypeOK, Abort PROVE TypeOK'
BY DEF TypeOK, Abort, workerVars, policyVars, proxyVars, clientVars

LEMMA ReadLoadTypes == ASSUME TypeOK, NEW a \in Actors, ReadLoad(a), call[a].to \in Worker
                       PROVE  TypeOK'
<1>1. /\ DOMAIN load' \subseteq Worker /\ load' \in [DOMAIN load' -> 0..SizeMax]
      /\ ToSet(workers) \subseteq DOMAIN load'
  BY EmplaceLoad DEF ReadLoad
<1>2. call[a] \in Call /\ LoadOf(call[a].to) \in Nat
  BY DEF TypeOK, LoadOf
<1>3. [call[a] EXCEPT !.step = "count", !.read = LoadOf(call[a].to)] \in Call
  BY <1>2 DEF Call, Steps
<1>4. call' \in [Actors -> Call]
  BY <1>3 DEF TypeOK, ReadLoad
<1> QED
  BY <1>1, <1>4 DEF TypeOK, ReadLoad, outside, workerVars, policyVars, proxyVars, clientVars

LEMMA WriteLoadTypes == ASSUME TypeOK, NEW a \in Actors, WriteLoad(a) PROVE TypeOK'
<1>1. call[a] \in Call
  BY DEF TypeOK
<1>2. (call[a].read + 1) % (SizeMax + 1) \in 0..SizeMax
  <2> DEFINE x == call[a].read + 1
  <2>1. x \in Int
    BY <1>1 DEF Call
  <2> HIDE DEF x
  <2>2. x % (SizeMax + 1) \in 0..SizeMax
    BY <2>1, WrapFact
  <2> QED
    BY <2>2 DEF x
<1>3. load' \in [DOMAIN load' -> 0..SizeMax] /\ DOMAIN load' = DOMAIN load
  BY <1>2 DEF TypeOK, WriteLoad
<1>4. [call[a] EXCEPT !.step = "id", !.read = 0] \in Call
  BY <1>1 DEF Call, Steps
<1>5. call' \in [Actors -> Call]
  BY <1>4 DEF TypeOK, WriteLoad
<1> QED
  BY <1>3, <1>5 DEF TypeOK, WriteLoad, outside, workerVars, policyVars, proxyVars, clientVars

LEMMA ReadIdTypes == ASSUME TypeOK, NEW a \in Actors, ReadId(a) PROVE TypeOK'
<1>1. call[a] \in Call /\ lastId + 1 \in Nat
  BY DEF TypeOK
<1>2. [call[a] EXCEPT !.step = "ticket", !.id = lastId + 1] \in Call
  BY <1>1 DEF Call, Steps
<1>3. call' \in [Actors -> Call]
  BY <1>2 DEF TypeOK, ReadId
<1> QED
  BY <1>3 DEF TypeOK, ReadId, outside, workerVars, policyVars, proxyVars, clientVars

LEMMA PlaceTicketTypes == ASSUME TypeOK, NEW a \in Actors, PlaceTicket(a) PROVE TypeOK'
<1>1. call[a] \in Call
  BY DEF TypeOK
<1>2. call[a].id \in Nat /\ call[a].mail \in Client \cup {Nobody}
  BY <1>1 DEF Call
<1>3. DOMAIN tickets' \subseteq Nat /\ tickets' \in [DOMAIN tickets' -> Client \cup {Nobody}]
  <2> DEFINE client == IF call[a].mail \in Anonymous THEN Nobody ELSE call[a].mail
  <2>1. client \in Client \cup {Nobody}
    BY <1>2
  <2>2. tickets' = Emplace(tickets, call[a].id, client)
    BY DEF PlaceTicket
  <2>3. /\ DOMAIN tickets \subseteq Nat
        /\ tickets \in [DOMAIN tickets -> Client \cup {Nobody}]
    BY DEF TypeOK
  <2> HIDE DEF client
  <2>4. DOMAIN tickets' = DOMAIN tickets \cup {call[a].id}
        /\ tickets' \in [DOMAIN tickets' -> Client \cup {Nobody}]
    BY <1>2, <2>1, <2>2, <2>3 DEF Emplace, Set
  <2> QED
    BY <1>2, <2>3, <2>4
<1>4. [call[a] EXCEPT !.step = "deliver"] \in Call
  BY <1>1 DEF Call, Steps
<1>5. call' \in [Actors -> Call] /\ lastId' \in Nat /\ lock' \in Actors \cup {Nobody}
  BY <1>2, <1>4, UnlockedType DEF TypeOK, PlaceTicket
<1> QED
  BY <1>3, <1>5 DEF TypeOK, PlaceTicket, outside, workerVars, policyVars, clientVars

LEMMA DeliverTypes == ASSUME TypeOK, NEW a \in Actors, Deliver(a), call[a].mail \in Client,
                             call[a].to \in Worker
                      PROVE  TypeOK'
<1> DEFINE w == call[a].to
           request == [id |-> call[a].id, mail |-> call[a].mail]
<1>1. request \in Mail
  BY DEF TypeOK, Call, Mail
<1>2. inbox' \in [Worker -> Seq(Mail)]
  <2>1. CASE w \in dead
    BY <2>1 DEF TypeOK, Deliver
  <2>2. CASE w \notin dead
    <3>1. inbox' = [inbox EXCEPT ![w] = Append(inbox[w], request)]
      BY <2>2 DEF Deliver
    <3>2. w \in Worker /\ inbox \in [Worker -> Seq(Mail)]
      BY DEF TypeOK
    <3> HIDE DEF w, request
    <3>3. Append(inbox[w], request) \in Seq(Mail)
      BY <1>1, <3>2
    <3> QED
      BY <3>1, <3>2, <3>3
  <2> QED
    BY <2>1, <2>2
<1>3. call' \in [Actors -> Call]
  BY FinishedIsCall DEF TypeOK, Deliver
<1> QED
  BY <1>2, <1>3 DEF TypeOK, Deliver, outside, workerVars, policyVars, proxyVars, clientVars

\* Taking a worker out of the vector and out of the map.
LEMMA TakeOutTypes ==
    ASSUME TypeOK, NEW w \in Worker, TakeOut(w)
    PROVE  /\ workers' \in Seq(Worker)
           /\ IsInjective(workers')
           /\ DOMAIN load' \subseteq Worker
           /\ load' \in [DOMAIN load' -> 0..SizeMax]
           /\ ToSet(workers') \subseteq DOMAIN load'
           /\ removed' \subseteq Worker
<1>1. /\ workers \in Seq(Worker) /\ IsInjective(workers)
      /\ ToSet(workers) \subseteq DOMAIN load
  BY DEF TypeOK
<1>2. PICK i \in DOMAIN workers : workers[i] = w /\ workers' = RemoveAt(workers, i)
  BY DEF TakeOut
<1>3. /\ workers' \in Seq(Worker) /\ IsInjective(workers')
      /\ ToSet(workers') \subseteq ToSet(workers) \ {w}
  BY <1>1, <1>2, RemoveAtFacts
<1>4. DOMAIN load' = DOMAIN load \ {w}
      /\ load' \in [DOMAIN load' -> 0..SizeMax] /\ DOMAIN load' \subseteq Worker
  BY DEF TakeOut, Without, TypeOK
<1>5. removed' \subseteq Worker
  BY DEF TakeOut, TypeOK
<1> QED
  BY <1>1, <1>3, <1>4, <1>5

LEMMA DeleteWorkerTypes == ASSUME TypeOK, NEW w \in Worker, DeleteWorker(w) PROVE TypeOK'
<1>1. TakeOut(w)
  BY DEF DeleteWorker
<1>2. commands' \in 0..MaxCommands
  BY CommandsAssumption DEF DeleteWorker, Command, TypeOK
<1>3. UNCHANGED <<inside, inbox, dead, exiting, downs, cleaned>>
  BY DEF DeleteWorker
<1> QED
  BY <1>1, <1>2, <1>3, TakeOutTypes DEF TypeOK, inside, policyVars, proxyVars, clientVars

LEMMA DownTypes == ASSUME TypeOK, NEW w \in Worker, Down(w) PROVE TypeOK'
<1>1. /\ workers' \in Seq(Worker)
      /\ IsInjective(workers')
      /\ DOMAIN load' \subseteq Worker
      /\ load' \in [DOMAIN load' -> 0..SizeMax]
      /\ ToSet(workers') \subseteq DOMAIN load'
      /\ removed' \subseteq Worker
  <2>1. CASE w \in ToSet(workers)
    BY <2>1, TakeOutTypes DEF Down
  <2>2. CASE w \notin ToSet(workers)
    <3>1. workers' = workers /\ load' = load /\ removed' = removed
      BY <2>2 DEF Down
    <3> QED
      BY <3>1 DEF TypeOK
  <2> QED
    BY <2>1, <2>2
<1>2. downs' \subseteq Worker /\ cleaned' \in BOOLEAN
  BY DEF Down, TypeOK
<1>3. UNCHANGED <<inside, inbox, dead, exiting, commands>>
  BY DEF Down
<1> QED
  BY <1>1, <1>2, <1>3 DEF TypeOK, inside, policyVars, proxyVars, clientVars

LEMMA AddWorkerTypes == ASSUME TypeOK, NEW w \in Worker, AddWorker(w) PROVE TypeOK'
<1>1. workers \in Seq(Worker) /\ IsInjective(workers) /\ w \notin ToSet(workers)
  BY DEF TypeOK, AddWorker
<1>2. /\ workers' \in Seq(Worker) /\ IsInjective(workers')
      /\ ToSet(workers') = ToSet(workers) \cup {w}
  BY <1>1, AppendFacts DEF AddWorker
<1>3. /\ DOMAIN load' \subseteq Worker /\ load' \in [DOMAIN load' -> 0..SizeMax]
      /\ ToSet(workers') \subseteq DOMAIN load'
  <2>1. load' = Emplace(load, w, 0)
    BY DEF AddWorker
  <2>2. /\ DOMAIN load' = DOMAIN load \cup {w}
        /\ DOMAIN load' \subseteq Worker /\ load' \in [DOMAIN load' -> 0..SizeMax]
        /\ ToSet(workers) \subseteq DOMAIN load'
    BY <2>1, EmplaceLoad
  <2> QED
    BY <1>2, <2>2
<1>4. commands' \in 0..MaxCommands
  <2>1. commands < MaxCommands /\ commands' = commands + 1
    BY DEF AddWorker, Command
  <2> QED
    BY <2>1, CommandsAssumption DEF TypeOK
<1>5. UNCHANGED <<inside, inbox, dead, exiting, downs, cleaned, removed>>
  BY DEF AddWorker
<1>6. workers' \in Seq(Worker) /\ IsInjective(workers')
  BY <1>2
<1> QED
  BY <1>3, <1>4, <1>5, <1>6 DEF TypeOK, inside, policyVars, proxyVars, clientVars

\* The vector and the map are emptied together.
LEMMA ClearedTypes ==
    ASSUME TypeOK, workers' = <<>>, load' = [w \in {} |-> 0],
           removed' = removed \cup ToSet(workers)
    PROVE  /\ workers' \in Seq(Worker)
           /\ IsInjective(workers')
           /\ DOMAIN load' \subseteq Worker
           /\ load' \in [DOMAIN load' -> 0..SizeMax]
           /\ ToSet(workers') \subseteq DOMAIN load'
           /\ removed' \subseteq Worker
           /\ ToSet(workers) \subseteq Worker
<1>1. ToSet(workers) \subseteq Worker /\ removed \subseteq Worker
  BY DEF TypeOK
<1>2. DOMAIN <<>> = {} /\ <<>> \in Seq(Worker)
  OBVIOUS
<1>3. IsInjective(workers') /\ ToSet(workers') = {} /\ workers' \in Seq(Worker)
  BY <1>2 DEF IsInjective, ToSet
<1>4. DOMAIN load' = {} /\ load' \in [DOMAIN load' -> 0..SizeMax]
  OBVIOUS
<1> QED
  BY <1>1, <1>3, <1>4

LEMMA ClearWorkerTypes == ASSUME TypeOK, ClearWorker PROVE TypeOK'
<1>1. commands' \in 0..MaxCommands
  BY CommandsAssumption DEF ClearWorker, Command, TypeOK
<1>2. workers' = <<>> /\ load' = [w \in {} |-> 0] /\ removed' = removed \cup ToSet(workers)
  BY DEF ClearWorker
<1>3. UNCHANGED <<inside, inbox, dead, exiting, downs, cleaned>>
  BY DEF ClearWorker
<1> QED
  BY <1>1, <1>2, <1>3, ClearedTypes DEF TypeOK, inside, policyVars, proxyVars, clientVars

LEMMA ExitTypes == ASSUME TypeOK, Exit PROVE TypeOK'
<1>1. commands' \in 0..MaxCommands
  BY CommandsAssumption DEF Exit, Command, TypeOK
<1>2. UNCHANGED <<inside, inbox, dead, downs>>
  BY DEF Exit
<1>3. CASE cleaned
  <2>1. UNCHANGED <<workers, load, exiting, cleaned, removed>>
    BY <1>3 DEF Exit
  <2> QED
    BY <1>1, <1>2, <2>1 DEF TypeOK, inside, policyVars, proxyVars, clientVars
<1>4. CASE ~cleaned
  <2>1. workers' = <<>> /\ load' = [w \in {} |-> 0] /\ removed' = removed \cup ToSet(workers)
        /\ exiting' = exiting \cup ToSet(workers) /\ cleaned' = TRUE
    BY <1>4 DEF Exit
  <2>2. exiting' \subseteq Worker
    BY <2>1, ClearedTypes DEF TypeOK
  <2> QED
    BY <1>1, <1>2, <2>1, <2>2, ClearedTypes
    DEF TypeOK, inside, policyVars, proxyVars, clientVars
<1> QED
  BY <1>3, <1>4

LEMMA TerminateTypes == ASSUME TypeOK, NEW w \in Worker, Terminate(w) PROVE TypeOK'
<1>1. commands' \in 0..MaxCommands
  BY CommandsAssumption DEF Terminate, Command, TypeOK
<1>2. dead' \subseteq Worker /\ downs' \subseteq Worker
  BY DEF Terminate, TypeOK
<1>3. inbox' \in [Worker -> Seq(Mail)]
  <2>1. <<>> \in Seq(Mail)
    OBVIOUS
  <2> QED
    BY <2>1 DEF Terminate, TypeOK
<1>4. UNCHANGED <<inside, workers, load, exiting, cleaned, removed>>
  BY DEF Terminate
<1> QED
  BY <1>1, <1>2, <1>3, <1>4 DEF TypeOK, inside, policyVars, proxyVars, clientVars

-----------------------------------------------------------------------------
(* The type invariant.                                                     *)

Relaying == {"load", "count", "id", "ticket", "deliver"}

\* A call that relays has the mail of a client and the worker it goes to.
RelaysMail ==
    \A a \in Actors : call[a].step \in Relaying => /\ call[a].mail \in Client
                                                   /\ call[a].to \in Worker

TypeInv == TypeOK /\ RelaysMail

\* The call of a becomes one with this step, mail and worker; the others stay.
Becomes(a, step, mail, to) ==
    /\ \A b \in Actors \ {a} : call'[b] = call[b]
    /\ call'[a].step = step /\ call'[a].mail = mail /\ call'[a].to = to

Ended(a) == IF a \in Client THEN "done" ELSE "idle"

\* What the steps do to the call that takes them.
LEMMA Effects ==
    ASSUME TypeOK, NEW a \in Actors
    PROVE  /\ ReplyEmpty(a) => Becomes(a, "done", call[a].mail, call[a].to)
           /\ Send(a) => Becomes(a, "policy", a, Nobody)
           /\ Answer(a) => Becomes(a, "settle", Head(inbox[a]).mail, Nobody)
           /\ Settle(a) => Becomes(a, "metrics", Nobody, Nobody)
           /\ ReadMetrics(a) => Becomes(a, "policy", Nobody, Nobody)
           /\ ReadLoad(a) => Becomes(a, "count", call[a].mail, call[a].to)
           /\ WriteLoad(a) => Becomes(a, "id", call[a].mail, call[a].to)
           /\ ReadId(a) => Becomes(a, "ticket", call[a].mail, call[a].to)
           /\ PlaceTicket(a) => Becomes(a, "deliver", call[a].mail, call[a].to)
           /\ Deliver(a) => Becomes(a, Ended(a), Nobody, Nobody)
           /\ PolicyIdle(a) \/ PolicyHolds(a) => Becomes(a, Ended(a), Nobody, Nobody)
<1>1. call \in [Actors -> Call] /\ call[a] \in Call
  BY DEF TypeOK
<1>2. ReplyEmpty(a) => Becomes(a, "done", call[a].mail, call[a].to)
  BY <1>1 DEF Becomes, ReplyEmpty, Call
<1>3. Send(a) => Becomes(a, "policy", a, Nobody)
  BY <1>1 DEF Becomes, Send, Start, Idle
<1>4. Answer(a) => Becomes(a, "settle", Head(inbox[a]).mail, Nobody)
  BY <1>1 DEF Becomes, Answer, Start, Idle
<1>5. Settle(a) => Becomes(a, "metrics", Nobody, Nobody)
  BY <1>1 DEF Becomes, Settle, Start, Idle
<1>6. ReadMetrics(a) => Becomes(a, "policy", Nobody, Nobody)
  BY <1>1 DEF Becomes, ReadMetrics, Start, Idle
<1>7. ReadLoad(a) => Becomes(a, "count", call[a].mail, call[a].to)
  BY <1>1 DEF Becomes, ReadLoad, Call
<1>8. WriteLoad(a) => Becomes(a, "id", call[a].mail, call[a].to)
  BY <1>1 DEF Becomes, WriteLoad, Call
<1>9. ReadId(a) => Becomes(a, "ticket", call[a].mail, call[a].to)
  BY <1>1 DEF Becomes, ReadId, Call
<1>10. PlaceTicket(a) => Becomes(a, "deliver", call[a].mail, call[a].to)
  BY <1>1 DEF Becomes, PlaceTicket, Call
<1>11. Deliver(a) => Becomes(a, Ended(a), Nobody, Nobody)
  BY <1>1 DEF Becomes, Deliver, Finished, Idle, Ended
<1>12. PolicyIdle(a) \/ PolicyHolds(a) => Becomes(a, Ended(a), Nobody, Nobody)
  BY <1>1 DEF Becomes, PolicyIdle, PolicyHolds, Finished, Idle, Ended
<1> QED
  BY <1>2, <1>3, <1>4, <1>5, <1>6, <1>7, <1>8, <1>9, <1>10, <1>11, <1>12

LEMMA HandOutEffect ==
    ASSUME TypeOK, NEW a \in Actors, NEW selected \in Nat, PolicyHandsOut(a, selected)
    PROVE  \E w \in Worker : Becomes(a, "load", Head(Hold(call[a].mail)), w)
<1>1. PICK w \in Worker :
        call' = [call EXCEPT ![a].step = "load", ![a].mail = Head(Hold(call[a].mail)),
                             ![a].to = w]
  BY HandOutFacts
<1>2. call \in [Actors -> Call] /\ call[a] \in Call
  BY DEF TypeOK
<1> QED
  BY <1>1, <1>2 DEF Becomes, Call

LEMMA RelaysFrom ==
    ASSUME TypeInv, NEW a \in Actors, NEW step, NEW mail, NEW to,
           Becomes(a, step, mail, to),
           step \in Relaying => mail \in Client /\ to \in Worker
    PROVE  RelaysMail'
BY DEF TypeInv, RelaysMail, Becomes

LEMMA StepOfCall == ASSUME TypeInv, NEW a \in Actors, Proceed(a) PROVE TypeInv'
<1> USE DEF TypeInv
<1>0. Ended(a) \notin Relaying
  BY DEF Ended, Relaying
<1>1. CASE Policy(a)
  <2>1. CASE PolicyIdle(a) \/ PolicyHolds(a)
    BY <1>0, <1>1, <2>1, Effects, RelaysFrom, PolicyTypes
  <2>2. ASSUME NEW selected \in Nat, PolicyHandsOut(a, selected) PROVE RelaysMail'
    BY <2>2, HandOutEffect, HandOutFacts, RelaysFrom
  <2> QED
    BY <1>1, <2>1, <2>2, PolicyCases, PolicyTypes
<1>2. CASE PolicyAborts(a)
  BY <1>2, AbortTypes DEF PolicyAborts, Abort, RelaysMail
<1>3. CASE ReadLoad(a)
  <2>1. call[a].mail \in Client /\ call[a].to \in Worker
    BY <1>3 DEF ReadLoad, RelaysMail, Relaying
  <2> QED
    BY <1>3, <2>1, Effects, RelaysFrom, ReadLoadTypes
<1>4. CASE WriteLoad(a)
  <2>1. call[a].mail \in Client /\ call[a].to \in Worker
    BY <1>4 DEF WriteLoad, RelaysMail, Relaying
  <2> QED
    BY <1>4, <2>1, Effects, RelaysFrom, WriteLoadTypes
<1>5. CASE ReadId(a)
  <2>1. call[a].mail \in Client /\ call[a].to \in Worker
    BY <1>5 DEF ReadId, RelaysMail, Relaying
  <2> QED
    BY <1>5, <2>1, Effects, RelaysFrom, ReadIdTypes
<1>6. CASE PlaceTicket(a)
  <2>1. call[a].mail \in Client /\ call[a].to \in Worker
    BY <1>6 DEF PlaceTicket, RelaysMail, Relaying
  <2> QED
    BY <1>6, <2>1, Effects, RelaysFrom, PlaceTicketTypes
<1>7. CASE Deliver(a)
  <2>1. call[a].mail \in Client /\ call[a].to \in Worker
    BY <1>7 DEF Deliver, RelaysMail, Relaying
  <2> QED
    BY <1>0, <1>7, <2>1, Effects, RelaysFrom, DeliverTypes
<1> QED
  BY <1>1, <1>2, <1>3, <1>4, <1>5, <1>6, <1>7 DEF Proceed

LEMMA NextTypes == ASSUME TypeInv, [Next]_vars PROVE TypeInv'
<1> USE DEF TypeInv
<1>0. {"done", "policy", "settle", "metrics"} \cap Relaying = {}
  BY DEF Relaying
<1>1. ASSUME NEW c \in Client, ReplyEmpty(c) PROVE TypeInv'
  BY <1>0, <1>1, Effects, RelaysFrom, ReplyEmptyTypes DEF Actors
<1>2. ASSUME NEW c \in Client, Send(c) PROVE TypeInv'
  BY <1>0, <1>2, Effects, RelaysFrom, SendTypes DEF Actors
<1>3. ASSUME NEW a \in Actors, Proceed(a) PROVE TypeInv'
  BY <1>3, StepOfCall
<1>4. ASSUME NEW w \in Worker, Answer(w) PROVE TypeInv'
  BY <1>0, <1>4, Effects, RelaysFrom, AnswerTypes DEF Actors
<1>5. ASSUME NEW w \in Worker, Settle(w) PROVE TypeInv'
  BY <1>0, <1>5, Effects, RelaysFrom, SettleTypes DEF Actors
<1>6. ASSUME NEW w \in Worker, ReadMetrics(w) PROVE TypeInv'
  BY <1>0, <1>6, Effects, RelaysFrom, ReadMetricsTypes DEF Actors
<1>7. ASSUME NEW w \in Worker, AddWorker(w) \/ DeleteWorker(w) \/ Terminate(w) \/ Down(w)
      PROVE TypeInv'
  <2>1. call' = call
    BY <1>7 DEF AddWorker, DeleteWorker, Terminate, Down, inside
  <2> QED
    BY <1>7, <2>1, AddWorkerTypes, DeleteWorkerTypes, TerminateTypes, DownTypes DEF RelaysMail
<1>8. CASE ClearWorker \/ Exit
  <2>1. call' = call
    BY <1>8 DEF ClearWorker, Exit, inside
  <2> QED
    BY <1>8, <2>1, ClearWorkerTypes, ExitTypes DEF RelaysMail
<1>9. CASE UNCHANGED vars
  BY <1>9 DEF vars, TypeOK, RelaysMail, inside, workerVars, policyVars, proxyVars, clientVars
<1> QED
  BY <1>1, <1>2, <1>3, <1>4, <1>5, <1>6, <1>7, <1>8, <1>9 DEF Next, Actors

\* The state of the load balancer stays well formed: in particular no worker is
\* twice behind the router, every worker behind it has a load, and every load
\* fits into a size_t, whatever calls of enqueue overlap with each other and
\* with the commands.
THEOREM TypeCorrect == Spec => []TypeOK
<1>1. Init => TypeInv
  BY InitTypes DEF Init, TypeInv, RelaysMail, Relaying, Idle
<1>2. TypeInv /\ [Next]_vars => TypeInv'
  BY NextTypes
<1>3. TypeInv => TypeOK
  BY DEF TypeInv
<1> QED
  BY <1>1, <1>2, <1>3, PTL DEF Spec

-----------------------------------------------------------------------------
(* One answer to a request.                                                *)

\* The mail of c is in a call that has not yet placed its ticket.
OnTheWay == {"policy", "load", "count", "id", "ticket"}
Upstream(a, c) == call[a].mail = c /\ call[a].step \in OnTheWay

Queued(c) == c \in ToSet(mails)
Ticketed(c) == \E id \in DOMAIN tickets : tickets[id] = c

\* The request of c is in at most one place: unsent, in one call, in the queue
\* of the policy, in one ticket, or answered.
OnePlace(c) ==
    /\ call[c].step = "idle" => /\ \A a \in Actors : ~Upstream(a, c)
                                /\ ~Queued(c) /\ ~Ticketed(c) /\ replies[c] = <<>>
    /\ Queued(c) => /\ \A a \in Actors : ~Upstream(a, c)
                    /\ ~Ticketed(c) /\ replies[c] = <<>>
    /\ \A a \in Actors : Upstream(a, c) => ~Ticketed(c) /\ replies[c] = <<>>
    /\ Ticketed(c) => replies[c] = <<>>
    /\ \A a, b \in Actors : Upstream(a, c) /\ Upstream(b, c) => a = b
    /\ \A i, j \in DOMAIN tickets : tickets[i] = c /\ tickets[j] = c => i = j
    /\ Len(replies[c]) <= 1

OnceInv == IsInjective(mails) /\ \A c \in Client : OnePlace(c)

Inv == TypeInv /\ OnceInv

LEMMA InitOnce == Init => OnceInv
<1> SUFFICES ASSUME Init PROVE OnceInv
  OBVIOUS
<1>1. IsInjective(mails) /\ ToSet(mails) = {}
  BY DEF Init, IsInjective, ToSet
<1>2. \A a \in Actors : call[a].step = "idle"
  BY DEF Init, Idle
<1>3. DOMAIN tickets = {}
  BY DEF Init
<1>4. \A c \in Client : replies[c] = <<>> /\ Len(replies[c]) <= 1
  BY DEF Init
<1> QED
  BY <1>1, <1>2, <1>3, <1>4 DEF OnceInv, OnePlace, Upstream, OnTheWay, Queued, Ticketed

\* A step of a that brings no mail anywhere, at most its own further on the way.
LEMMA QuietOnce ==
    ASSUME Inv, NEW a \in Actors, NEW step, NEW mail, NEW to, Becomes(a, step, mail, to),
           a \in Client => step # "idle",
           step \in OnTheWay => \/ mail = Nobody
                                \/ mail = call[a].mail /\ call[a].step \in OnTheWay,
           UNCHANGED <<mails, tickets, replies>>
    PROVE  OnceInv'
<1>1. Nobody \notin Client
  BY NobodyAssumption
<1>2. \A b \in Actors : \A c \in Client : Upstream(b, c)' => Upstream(b, c)
  BY <1>1 DEF Upstream, Becomes
<1>3. \A c \in Client : call'[c].step = "idle" => call[c].step = "idle"
  BY DEF Becomes, Actors
<1>4. \A c \in Client : (Queued(c)' <=> Queued(c)) /\ (Ticketed(c)' <=> Ticketed(c))
  BY DEF Queued, Ticketed
<1>5. ASSUME NEW c \in Client PROVE OnePlace(c)'
  <2>1. OnePlace(c)
    BY DEF Inv, OnceInv
  <2> QED
    BY <1>2, <1>3, <1>4, <2>1 DEF OnePlace
<1> QED
  BY <1>5 DEF Inv, OnceInv

LEMMA OutsideOnce ==
    ASSUME Inv, UNCHANGED <<mails, tickets, replies, call>>
    PROVE  OnceInv'
BY DEF Inv, OnceInv, OnePlace, Upstream, Queued, Ticketed

LEMMA ReplyEmptyOnce == ASSUME Inv, NEW c \in Client, ReplyEmpty(c) PROVE OnceInv'
<1>1. Becomes(c, "done", call[c].mail, call[c].to)
  BY Effects DEF Inv, TypeInv, Actors
<1>2. \A b \in Actors : \A d \in Client : Upstream(b, d)' => Upstream(b, d)
  BY <1>1 DEF Upstream, Becomes, OnTheWay
<1>3. \A d \in Client : (Queued(d)' <=> Queued(d)) /\ (Ticketed(d)' <=> Ticketed(d))
  BY DEF Queued, Ticketed, ReplyEmpty, policyVars, proxyVars
<1>4. tickets' = tickets /\ mails' = mails
  BY DEF ReplyEmpty, policyVars, proxyVars
<1>5. ASSUME NEW d \in Client, d # c PROVE OnePlace(d)'
  <2>1. OnePlace(d) /\ replies'[d] = replies[d] /\ call'[d] = call[d]
    BY <1>1, <1>5 DEF Inv, TypeInv, TypeOK, OnceInv, ReplyEmpty, Becomes, Actors
  <2> QED
    BY <1>2, <1>3, <1>4, <2>1 DEF OnePlace
<1>6. OnePlace(c)'
  <2>1. OnePlace(c) /\ call[c].step = "idle" /\ call'[c].step = "done"
    BY <1>1 DEF Inv, OnceInv, ReplyEmpty, Becomes
  <2>2. ~Queued(c)' /\ ~Ticketed(c)' /\ replies[c] = <<>>
        /\ \A b \in Actors : ~Upstream(b, c)'
    BY <1>2, <1>3, <2>1 DEF OnePlace
  <2>3. Len(replies'[c]) = 1
    <3>1. replies'[c] = Append(<<>>, EmptyMessage)
      BY <2>2 DEF ReplyEmpty, Inv, TypeInv, TypeOK
    <3> QED
      BY <3>1
  <2> QED
    BY <1>4, <2>1, <2>2, <2>3 DEF OnePlace, Ticketed
<1> QED
  BY <1>4, <1>5, <1>6 DEF Inv, OnceInv

LEMMA SendOnce == ASSUME Inv, NEW c \in Client, Send(c) PROVE OnceInv'
<1>1. Becomes(c, "policy", c, Nobody)
  BY Effects DEF Inv, TypeInv, Actors
<1>2. UNCHANGED <<mails, tickets, replies>>
  BY DEF Send, policyVars, proxyVars, clientVars
<1>3. \A d \in Client : (Queued(d)' <=> Queued(d)) /\ (Ticketed(d)' <=> Ticketed(d))
  BY <1>2 DEF Queued, Ticketed
<1>4. \A b \in Actors : \A d \in Client : Upstream(b, d)' => Upstream(b, d) \/ (b = c /\ d = c)
  BY <1>1 DEF Upstream, Becomes
<1>5. OnePlace(c) /\ call[c].step = "idle"
  BY DEF Inv, OnceInv, Send
<1>6. ASSUME NEW d \in Client PROVE OnePlace(d)'
  <2>1. call'[d].step = "idle" => call[d].step = "idle" /\ d # c
    BY <1>1 DEF Becomes, Actors
  <2>2. OnePlace(d)
    BY DEF Inv, OnceInv
  <2> QED
    BY <1>2, <1>3, <1>4, <1>5, <2>1, <2>2 DEF OnePlace
<1> QED
  BY <1>2, <1>6 DEF Inv, OnceInv

LEMMA SettleOnce == ASSUME Inv, NEW w \in Worker, Settle(w) PROVE OnceInv'
<1> DEFINE id == call[w].id
           client == ResponseTo(w, id)
<1>1. Becomes(w, "metrics", Nobody, Nobody) /\ w \in Actors /\ w \notin Client
  BY Effects, ActorsAssumption DEF Inv, TypeInv, Actors
<1>2. \A b \in Actors : \A c \in Client : Upstream(b, c)' => Upstream(b, c)
  BY <1>1 DEF Upstream, Becomes, OnTheWay
<1>3. \A c \in Client : call'[c] = call[c]
  BY <1>1 DEF Becomes, Actors
<1>4. mails' = mails
  BY DEF Settle, policyVars
<1>5. DOMAIN tickets' = DOMAIN tickets \ {id} /\ \A i \in DOMAIN tickets' : tickets'[i] = tickets[i]
  BY DEF Settle, Without
<1>6. replies \in [Client -> Seq(Client \cup {EmptyMessage})]
      /\ call[w].mail \in Client \cup {EmptyMessage}
  BY <1>1 DEF Inv, TypeInv, TypeOK, Call, EmptyMessage
<1>7. ASSUME NEW c \in Client PROVE OnePlace(c)'
  <2>1. OnePlace(c)
    BY DEF Inv, OnceInv
  <2>2. Ticketed(c)' => Ticketed(c)
    BY <1>5 DEF Ticketed
  <2>3. Queued(c)' <=> Queued(c)
    BY <1>4 DEF Queued
  <2>4. CASE c # client
    <3>1. replies'[c] = replies[c]
      BY <1>6, <2>4 DEF Settle
    <3> QED
      BY <1>2, <1>3, <1>5, <2>1, <2>2, <2>3, <3>1 DEF OnePlace
  <2>5. CASE c = client
    <3>1. id \in DOMAIN tickets /\ tickets[id] = c
      BY <2>5, NobodyAssumption DEF ResponseTo
    <3>2. ~Ticketed(c)' /\ Ticketed(c)
      BY <1>5, <2>1, <3>1 DEF Ticketed, OnePlace
    <3>3. replies[c] = <<>>
      BY <2>1, <3>2 DEF OnePlace
    <3>4. Len(replies'[c]) = 1
      <4>1. replies'[c] = Append(<<>>, call[w].mail)
        BY <1>6, <2>5, <3>3, NobodyAssumption DEF Settle
      <4> QED
        BY <1>6, <4>1
    <3>5. ~Queued(c)' /\ call'[c].step # "idle" /\ \A a \in Actors : ~Upstream(a, c)'
      BY <1>2, <1>3, <2>1, <2>3, <3>2 DEF OnePlace
    <3> QED
      BY <1>5, <2>1, <3>2, <3>4, <3>5 DEF OnePlace
  <2> QED
    BY <2>4, <2>5
<1> QED
  BY <1>4, <1>7 DEF Inv, OnceInv

LEMMA PlaceTicketOnce == ASSUME Inv, NEW a \in Actors, PlaceTicket(a) PROVE OnceInv'
<1> DEFINE m == call[a].mail
           id == call[a].id
<1>1. Becomes(a, "deliver", call[a].mail, call[a].to)
  BY Effects DEF Inv, TypeInv
<1>2. \A b \in Actors : \A c \in Client : Upstream(b, c)' => b # a /\ Upstream(b, c)
  BY <1>1 DEF Upstream, Becomes, OnTheWay
<1>3. \A c \in Client : call'[c].step = "idle" => call[c].step = "idle"
  BY <1>1 DEF Becomes, Actors
<1>4. mails' = mails /\ replies' = replies
  BY DEF PlaceTicket, policyVars, clientVars
<1>5. \/ tickets' = tickets
      \/ /\ id \notin DOMAIN tickets
         /\ DOMAIN tickets' = DOMAIN tickets \cup {id}
         /\ \A i \in DOMAIN tickets : tickets'[i] = tickets[i]
         /\ tickets'[id] \in {m, Nobody}
  BY DEF PlaceTicket, Emplace, Set
<1>6. \A c \in Client : m = c => Upstream(a, c)
  BY DEF Upstream, OnTheWay, PlaceTicket
<1>7. ASSUME NEW c \in Client PROVE OnePlace(c)'
  <2>1. OnePlace(c) /\ c # Nobody
    BY NobodyAssumption DEF Inv, OnceInv
  <2>2. Queued(c)' <=> Queued(c)
    BY <1>4 DEF Queued
  <2>3. Ticketed(c)' => Ticketed(c) \/ m = c
    BY <1>5, <2>1 DEF Ticketed
  <2>4. CASE m = c
    <3>1. Upstream(a, c)
      BY <1>6, <2>4
    <3>2. /\ ~Queued(c)' /\ replies'[c] = <<>> /\ call'[c].step # "idle"
          /\ \A b \in Actors : ~Upstream(b, c)'
          /\ ~Ticketed(c)
      BY <1>2, <1>3, <1>4, <2>1, <2>2, <3>1 DEF OnePlace
    <3>3. \A i, j \in DOMAIN tickets' : tickets'[i] = c /\ tickets'[j] = c => i = j
      BY <1>5, <3>2 DEF Ticketed
    <3> QED
      BY <1>4, <2>1, <3>2, <3>3 DEF OnePlace
  <2>5. CASE m # c
    <3>1. \A i \in DOMAIN tickets' : tickets'[i] = c => i \in DOMAIN tickets /\ tickets[i] = c
      BY <1>5, <2>1, <2>5
    <3>2. \A i, j \in DOMAIN tickets' : tickets'[i] = c /\ tickets'[j] = c => i = j
      BY <2>1, <3>1 DEF OnePlace
    <3> QED
      BY <1>2, <1>3, <1>4, <2>1, <2>2, <2>3, <2>5, <3>2 DEF OnePlace
  <2> QED
    BY <2>4, <2>5
<1> QED
  BY <1>4, <1>7 DEF Inv, OnceInv

\* The queue with the mail of a call: still nothing twice.
LEMMA HoldOnce ==
    ASSUME Inv, NEW a \in Actors, call[a].step = "policy"
    PROVE  /\ IsInjective(Hold(call[a].mail))
           /\ \A c \in Client : c \in ToSet(Hold(call[a].mail)) => Queued(c) \/ Upstream(a, c)
<1> DEFINE m == call[a].mail
<1>1. /\ mails \in Seq(Client) /\ IsInjective(mails) /\ m \in Client \cup {Nobody}
      /\ \A c \in Client : m = c => Upstream(a, c)
  BY DEF Inv, TypeInv, TypeOK, OnceInv, Call, Upstream, OnTheWay
<1>2. CASE m = Nobody
  BY <1>1, <1>2 DEF Hold, Queued
<1>3. CASE m # Nobody
  <2>1. m \in Client /\ Upstream(a, m)
    BY <1>1, <1>3
  <2>2. m \notin ToSet(mails)
    BY <2>1 DEF Inv, OnceInv, OnePlace, Queued
  <2>3. Hold(m) = Append(mails, m)
    BY <1>3 DEF Hold
  <2>4. IsInjective(Hold(m)) /\ ToSet(Hold(m)) = ToSet(mails) \cup {m}
    BY <1>1, <2>1, <2>2, <2>3, AppendFacts
  <2> QED
    BY <1>1, <2>4 DEF Queued
<1> QED
  BY <1>2, <1>3

\* The call of a ends up without a mail or with the mail of first; the queue has
\* only mails from the queue and from a, and not the mail of first.
LEMMA QueueOnce ==
    ASSUME Inv, NEW a \in Actors, call[a].step = "policy",
           UNCHANGED <<tickets, replies>>,
           NEW step, NEW mail, NEW to, Becomes(a, step, mail, to),
           a \in Client => step # "idle",
           IsInjective(mails'),
           \A c \in Client : Queued(c)' => Queued(c) \/ Upstream(a, c),
           \A c \in Client : Upstream(a, c)' => ~Queued(c)' /\ (Queued(c) \/ Upstream(a, c))
    PROVE  OnceInv'
<1>1. \A b \in Actors \ {a} : \A c \in Client : Upstream(b, c)' => Upstream(b, c)
  BY DEF Upstream, Becomes
<1>2. \A c \in Client : call'[c].step = "idle" => call[c].step = "idle"
  BY DEF Becomes, Actors
<1>3. ASSUME NEW c \in Client PROVE OnePlace(c)'
  <2>1. OnePlace(c) /\ (Ticketed(c)' <=> Ticketed(c))
    BY DEF Inv, OnceInv, Ticketed
  <2>2. CASE Queued(c)'
    <3>1. \A b \in Actors : ~Upstream(b, c)'
      BY <1>1, <2>1, <2>2 DEF OnePlace
    <3> QED
      BY <1>2, <2>1, <2>2, <3>1 DEF OnePlace
  <2>3. CASE ~Queued(c)'
    <3>1. \A b, d \in Actors : Upstream(b, c)' /\ Upstream(d, c)' => b = d
      BY <1>1, <2>1 DEF OnePlace
    <3> QED
      BY <1>1, <1>2, <2>1, <2>3, <3>1 DEF OnePlace
  <2> QED
    BY <2>2, <2>3
<1> QED
  BY <1>3 DEF OnceInv

LEMMA PolicyOnce == ASSUME Inv, NEW a \in Actors, Policy(a) PROVE OnceInv'
<1> USE DEF Inv, TypeInv
<1>1. call[a].step = "policy" /\ UNCHANGED <<tickets, replies>>
  BY DEF Policy, proxyVars, clientVars
<1>2. (a \in Client => Ended(a) # "idle") /\ Ended(a) \notin OnTheWay
  BY DEF Ended, OnTheWay
<1>3. CASE PolicyIdle(a)
  BY <1>1, <1>2, <1>3, Effects, QuietOnce DEF PolicyIdle
<1>4. CASE PolicyHolds(a)
  <2>1. Becomes(a, Ended(a), Nobody, Nobody) /\ mails' = Hold(call[a].mail)
    BY <1>4, Effects DEF PolicyHolds
  <2>2. \A c \in Client : ~Upstream(a, c)'
    BY <1>2, <2>1 DEF Becomes, Upstream
  <2>3. IsInjective(mails') /\ \A c \in Client : Queued(c)' => Queued(c) \/ Upstream(a, c)
    BY <1>1, <2>1, HoldOnce DEF Queued
  <2> QED
    BY <1>1, <1>2, <2>1, <2>2, <2>3, QueueOnce
<1>5. ASSUME NEW selected \in Nat, PolicyHandsOut(a, selected) PROVE OnceInv'
  <2> DEFINE q == Hold(call[a].mail)
  <2>1. PICK w \in Worker : Becomes(a, "load", Head(q), w)
    BY <1>5, HandOutEffect
  <2>2. q \in Seq(Client) /\ q # <<>> /\ mails' = Tail(q)
    BY <1>5, HandOutFacts
  <2>3. IsInjective(q) /\ \A c \in Client : c \in ToSet(q) => Queued(c) \/ Upstream(a, c)
    BY <1>1, HoldOnce
  <2> HIDE DEF q
  <2>4. /\ Head(q) \in ToSet(q) /\ ToSet(Tail(q)) \subseteq ToSet(q)
        /\ IsInjective(Tail(q)) /\ Head(q) \notin ToSet(Tail(q))
    BY <2>2, <2>3, TailFacts
  <2>5. \A c \in Client : Upstream(a, c)' => c = Head(q)
    BY <2>1 DEF Becomes, Upstream
  <2>6. \A c \in Client : Queued(c)' <=> c \in ToSet(Tail(q))
    BY <2>2 DEF Queued
  <2>7. /\ IsInjective(mails')
        /\ \A c \in Client : Queued(c)' => Queued(c) \/ Upstream(a, c)
        /\ \A c \in Client : Upstream(a, c)' => ~Queued(c)' /\ (Queued(c) \/ Upstream(a, c))
    BY <2>2, <2>3, <2>4, <2>5, <2>6
  <2> QED
    BY <1>1, <2>1, <2>7, QueueOnce
<1> QED
  BY <1>3, <1>4, <1>5, PolicyCases

LEMMA NextOnce == ASSUME Inv, [Next]_vars PROVE OnceInv'
<1> USE DEF Inv, TypeInv
<1>1. ASSUME NEW a \in Actors, Proceed(a) PROVE OnceInv'
  <2>1. CASE Policy(a)
    BY <2>1, PolicyOnce
  <2>2. CASE PolicyAborts(a)
    BY <2>2, OutsideOnce DEF PolicyAborts, Abort, policyVars, proxyVars, clientVars
  <2>3. CASE ReadLoad(a)
    BY <2>3, Effects, QuietOnce DEF ReadLoad, policyVars, proxyVars, clientVars, OnTheWay
  <2>4. CASE WriteLoad(a)
    BY <2>4, Effects, QuietOnce DEF WriteLoad, policyVars, proxyVars, clientVars, OnTheWay
  <2>5. CASE ReadId(a)
    BY <2>5, Effects, QuietOnce DEF ReadId, policyVars, proxyVars, clientVars, OnTheWay
  <2>6. CASE PlaceTicket(a)
    BY <2>6, PlaceTicketOnce
  <2>7. CASE Deliver(a)
    BY <2>7, Effects, QuietOnce DEF Deliver, policyVars, proxyVars, clientVars, OnTheWay, Ended
  <2> QED
    BY <1>1, <2>1, <2>2, <2>3, <2>4, <2>5, <2>6, <2>7 DEF Proceed
<1>2. ASSUME NEW w \in Worker, Answer(w) \/ ReadMetrics(w) PROVE OnceInv'
  <2>1. w \in Actors /\ w \notin Client
    BY ActorsAssumption DEF Actors
  <2>2. UNCHANGED <<mails, tickets, replies>>
    BY <1>2 DEF Answer, ReadMetrics, policyVars, proxyVars, clientVars
  <2>3. \/ Becomes(w, "settle", Head(inbox[w]).mail, Nobody)
        \/ Becomes(w, "policy", Nobody, Nobody)
    BY <1>2, <2>1, Effects
  <2>4. "settle" \notin OnTheWay
    BY DEF OnTheWay
  <2> QED
    BY <2>1, <2>2, <2>3, <2>4, QuietOnce
<1>3. ASSUME NEW w \in Worker, AddWorker(w) \/ DeleteWorker(w) \/ Terminate(w) \/ Down(w)
      PROVE OnceInv'
  BY <1>3, OutsideOnce
  DEF AddWorker, DeleteWorker, Terminate, Down, inside, policyVars, proxyVars, clientVars
<1>4. CASE ClearWorker \/ Exit
  BY <1>4, OutsideOnce DEF ClearWorker, Exit, inside, policyVars, proxyVars, clientVars
<1>5. CASE UNCHANGED vars
  BY <1>5, OutsideOnce DEF vars, inside, policyVars, proxyVars, clientVars
<1> QED
  BY <1>1, <1>2, <1>3, <1>4, <1>5, ReplyEmptyOnce, SendOnce, SettleOnce DEF Next, Actors

\* A client gets at most one answer to its request, for any number of clients,
\* workers and overlapping calls, at the threshold or not: the mail of a client
\* is in one place (OnePlace), and a ticket is gone once it has been used.
THEOREM AnswerOnce == Spec => []AnsweredAtMostOnce
<1>1. Init => Inv
  BY InitTypes, InitOnce DEF Init, Inv, TypeInv, RelaysMail, Relaying, Idle
<1>2. Inv /\ [Next]_vars => Inv'
  BY NextTypes, NextOnce DEF Inv
<1>3. Inv => AnsweredAtMostOnce
  BY DEF Inv, OnceInv, OnePlace, AnsweredAtMostOnce
<1> QED
  BY <1>1, <1>2, <1>3, PTL DEF Spec

-----------------------------------------------------------------------------
(* No ticket is left behind.                                               *)

\* A step that leaves the tickets, the inboxes and the calls that deliver or
\* settle as they are.
LEMMA QuietTickets ==
    ASSUME TicketsAreOpen, dead' = {} => dead = {}, tickets' = tickets, inbox' = inbox,
           \A a \in Actors : call[a].step \in {"deliver", "settle"} => call'[a] = call[a]
    PROVE  TicketsAreOpen'
BY DEF TicketsAreOpen

LEMMA PolicyTouchesItsCall ==
    ASSUME TypeOK, NEW a \in Actors, Policy(a)
    PROVE  call[a].step = "policy" /\ \A b \in Actors \ {a} : call'[b] = call[b]
<1>1. CASE PolicyIdle(a) \/ PolicyHolds(a)
  BY <1>1, Effects DEF Becomes, Policy
<1>2. ASSUME NEW selected \in Nat, PolicyHandsOut(a, selected)
      PROVE  \A b \in Actors \ {a} : call'[b] = call[b]
  BY <1>2, HandOutEffect DEF Becomes
<1> QED
  BY <1>1, <1>2, PolicyCases DEF Policy

\* The request that a worker begins to answer keeps its ticket open.
LEMMA AnswerTickets ==
    ASSUME TypeOK, TicketsAreOpen, NEW w \in Worker, Answer(w)
    PROVE  TicketsAreOpen'
<1>1. /\ inbox[w] \in Seq(Mail) /\ inbox[w] # <<>>
      /\ inbox' = [inbox EXCEPT ![w] = Tail(inbox[w])] /\ call[w].step = "idle"
  BY DEF Answer, TypeOK
<1>2. dead' = dead /\ tickets' = tickets
  BY DEF Answer, outside, workerVars, proxyVars
<1>3. call'[w].id = inbox[w][1].id /\ call'[w].step = "settle"
      /\ \A a \in Actors \ {w} : call'[a] = call[a]
  BY <1>1 DEF Answer, Start, Idle, TypeOK, Actors
<1>4. /\ Len(inbox[w]) \in Nat /\ DOMAIN inbox[w] = 1..Len(inbox[w])
      /\ DOMAIN Tail(inbox[w]) = 1..(Len(inbox[w]) - 1)
      /\ \A j \in 1..(Len(inbox[w]) - 1) : Tail(inbox[w])[j] = inbox[w][j + 1]
  BY <1>1
<1>5. ASSUME dead' = {}, NEW id \in DOMAIN tickets'
      PROVE  \/ \E a \in Actors : call'[a].id = id /\ call'[a].step \in {"deliver", "settle"}
             \/ \E v \in Worker : \E i \in DOMAIN inbox'[v] : inbox'[v][i].id = id
  <2>1. \/ \E a \in Actors : call[a].id = id /\ call[a].step \in {"deliver", "settle"}
        \/ \E v \in Worker : \E i \in DOMAIN inbox[v] : inbox[v][i].id = id
    BY <1>2, <1>5 DEF TicketsAreOpen
  <2>2. CASE \E a \in Actors : call[a].id = id /\ call[a].step \in {"deliver", "settle"}
    BY <1>1, <1>3, <2>2
  <2>3. ASSUME NEW v \in Worker, NEW i \in DOMAIN inbox[v], inbox[v][i].id = id
        PROVE  \/ \E a \in Actors : call'[a].id = id /\ call'[a].step \in {"deliver", "settle"}
               \/ \E u \in Worker : \E j \in DOMAIN inbox'[u] : inbox'[u][j].id = id
    <3>1. CASE v # w
      <4>1. inbox'[v] = inbox[v]
        BY <1>1, <3>1 DEF TypeOK
      <4> QED
        BY <2>3, <4>1
    <3>2. CASE v = w /\ i = 1
      BY <1>3, <2>3, <3>2 DEF Actors
    <3>3. CASE v = w /\ i # 1
      <4>1. inbox'[w] = Tail(inbox[w])
        BY <1>1 DEF TypeOK
      <4>2. i - 1 \in 1..(Len(inbox[w]) - 1) /\ (i - 1) + 1 = i
        BY <1>4, <2>3, <3>3
      <4>3. inbox'[w][i - 1].id = id /\ i - 1 \in DOMAIN inbox'[w]
        BY <1>4, <2>3, <3>3, <4>1, <4>2
      <4> QED
        BY <4>3
    <3> QED
      BY <3>1, <3>2, <3>3
  <2> QED
    BY <2>1, <2>2, <2>3
<1> QED
  BY <1>5 DEF TicketsAreOpen

\* The ticket goes with the call that settles.
LEMMA SettleTickets ==
    ASSUME TypeOK, TicketsAreOpen, NEW w \in Worker, Settle(w)
    PROVE  TicketsAreOpen'
<1>1. /\ dead' = dead /\ inbox' = inbox
      /\ DOMAIN tickets' = DOMAIN tickets \ {call[w].id}
  BY DEF Settle, Without, outside, workerVars
<1>2. \A a \in Actors \ {w} : call'[a] = call[a]
  BY DEF Settle, TypeOK
<1> QED
  BY <1>1, <1>2 DEF TicketsAreOpen

LEMMA PlaceTickets ==
    ASSUME TypeOK, TicketsAreOpen, NEW a \in Actors, PlaceTicket(a)
    PROVE  TicketsAreOpen'
<1>1. dead' = dead /\ inbox' = inbox
  BY DEF PlaceTicket, outside, workerVars
<1>2. DOMAIN tickets' = DOMAIN tickets \cup {call[a].id}
  BY DEF PlaceTicket, Emplace, Set
<1>3. /\ \A b \in Actors \ {a} : call'[b] = call[b]
      /\ call'[a].id = call[a].id /\ call'[a].step = "deliver" /\ call[a].step = "ticket"
  BY DEF PlaceTicket, TypeOK, Call
<1> QED
  BY <1>1, <1>2, <1>3 DEF TicketsAreOpen

\* The request goes from the call into the inbox, while no worker is dead.
LEMMA DeliverTickets ==
    ASSUME TypeInv, TicketsAreOpen, NEW a \in Actors, Deliver(a)
    PROVE  TicketsAreOpen'
<1> DEFINE w == call[a].to
           request == [id |-> call[a].id, mail |-> call[a].mail]
<1>1. w \in Worker /\ request \in Mail /\ inbox[w] \in Seq(Mail)
  BY DEF TypeInv, TypeOK, RelaysMail, Relaying, Deliver, Mail, Call
<1>2. dead' = dead /\ tickets' = tickets
  BY DEF Deliver, outside, workerVars, proxyVars
<1>3. \A b \in Actors \ {a} : call'[b] = call[b]
  BY DEF Deliver, TypeInv, TypeOK
<1>4. CASE dead = {}
  <2>1. inbox' = [inbox EXCEPT ![w] = Append(inbox[w], request)]
    BY <1>4 DEF Deliver
  <2>2. request.id = call[a].id
    OBVIOUS
  <2> HIDE DEF request, w
  <2>3. /\ inbox'[w] = Append(inbox[w], request)
        /\ \A v \in Worker \ {w} : inbox'[v] = inbox[v]
    BY <1>1, <2>1 DEF TypeInv, TypeOK
  <2>4. /\ DOMAIN inbox[w] \subseteq DOMAIN inbox'[w]
        /\ \A i \in DOMAIN inbox[w] : inbox'[w][i] = inbox[w][i]
        /\ Len(inbox[w]) + 1 \in DOMAIN inbox'[w] /\ inbox'[w][Len(inbox[w]) + 1] = request
    BY <1>1, <2>3
  <2>5. ASSUME NEW id \in DOMAIN tickets
        PROVE  \/ \E b \in Actors : call'[b].id = id /\ call'[b].step \in {"deliver", "settle"}
               \/ \E v \in Worker : \E i \in DOMAIN inbox'[v] : inbox'[v][i].id = id
    <3>1. CASE id = call[a].id
      BY <1>1, <2>2, <2>4, <3>1 DEF w
    <3>2. ASSUME NEW b \in Actors \ {a}, call[b].id = id, call[b].step \in {"deliver", "settle"}
          PROVE  \E d \in Actors : call'[d].id = id /\ call'[d].step \in {"deliver", "settle"}
      BY <1>3, <3>2
    <3>3. ASSUME NEW v \in Worker, NEW i \in DOMAIN inbox[v], inbox[v][i].id = id
          PROVE  i \in DOMAIN inbox'[v] /\ inbox'[v][i].id = id
      BY <2>3, <2>4, <3>3
    <3> QED
      BY <1>4, <3>1, <3>2, <3>3 DEF TicketsAreOpen
  <2> QED
    BY <1>2, <2>5 DEF TicketsAreOpen
<1>5. CASE dead # {}
  BY <1>2, <1>5 DEF TicketsAreOpen
<1> QED
  BY <1>4, <1>5

LEMMA NextTickets == ASSUME TypeInv, TicketsAreOpen, [Next]_vars PROVE TicketsAreOpen'
<1> USE DEF TypeInv
<1>1. ASSUME NEW a \in Actors, Proceed(a) PROVE TicketsAreOpen'
  <2>1. CASE Policy(a)
    <3>1. call[a].step = "policy" /\ \A b \in Actors \ {a} : call'[b] = call[b]
      BY <2>1, PolicyTouchesItsCall
    <3> QED
      BY <2>1, <3>1, QuietTickets DEF Policy, workerVars, proxyVars
  <2>2. CASE PolicyAborts(a)
    BY <2>2, QuietTickets DEF PolicyAborts, Abort, workerVars, proxyVars
  <2>3. CASE ReadLoad(a) \/ WriteLoad(a) \/ ReadId(a)
    <3>1. call[a].step \in {"load", "count", "id"} /\ \A b \in Actors \ {a} : call'[b] = call[b]
      BY <2>3, Effects DEF Becomes, ReadLoad, WriteLoad, ReadId
    <3>2. tickets' = tickets /\ inbox' = inbox /\ dead' = dead
      BY <2>3 DEF ReadLoad, WriteLoad, ReadId, proxyVars, outside, workerVars
    <3> QED
      BY <3>1, <3>2, QuietTickets
  <2>4. CASE PlaceTicket(a) \/ Deliver(a)
    BY <2>4, PlaceTickets, DeliverTickets
  <2> QED
    BY <1>1, <2>1, <2>2, <2>3, <2>4 DEF Proceed
<1>2. ASSUME NEW a \in Actors, ReplyEmpty(a) \/ Send(a) \/ ReadMetrics(a) PROVE TicketsAreOpen'
  <2>1. call[a].step \in {"idle", "metrics"} /\ \A b \in Actors \ {a} : call'[b] = call[b]
    BY <1>2, Effects DEF Becomes, ReplyEmpty, Send, ReadMetrics
  <2>2. tickets' = tickets /\ inbox' = inbox /\ dead' = dead
    BY <1>2 DEF ReplyEmpty, Send, ReadMetrics, proxyVars, outside, workerVars
  <2> QED
    BY <2>1, <2>2, QuietTickets
<1>3. ASSUME NEW w \in Worker, AddWorker(w) \/ DeleteWorker(w) \/ Down(w) PROVE TicketsAreOpen'
  BY <1>3, QuietTickets DEF AddWorker, DeleteWorker, Down, inside, proxyVars
<1>4. ASSUME NEW w \in Worker, Terminate(w) PROVE TicketsAreOpen'
  BY <1>4 DEF Terminate, TicketsAreOpen
<1>5. CASE ClearWorker \/ Exit
  BY <1>5, QuietTickets DEF ClearWorker, Exit, inside, proxyVars
<1>6. CASE UNCHANGED vars
  BY <1>6, QuietTickets DEF vars, workerVars, inside, proxyVars
<1> QED
  BY <1>1, <1>2, <1>3, <1>4, <1>5, <1>6, AnswerTickets, SettleTickets DEF Next, Actors

\* tickets_ does not grow with what goes wrong: while no worker is dead, a ticket is
\* that of a request under way, for any overlap of the calls and any commands.
THEOREM NoTicketIsLeft == Spec => []TicketsAreOpen
<1>1. Init => TypeInv /\ TicketsAreOpen
  BY InitTypes DEF Init, TypeInv, RelaysMail, Relaying, Idle, TicketsAreOpen
<1>2. TypeInv /\ TicketsAreOpen /\ [Next]_vars => TypeInv' /\ TicketsAreOpen'
  BY NextTypes, NextTickets
<1> QED
  BY <1>1, <1>2, PTL DEF Spec

-----------------------------------------------------------------------------
(* No mail is lost, none is duplicated.                                    *)

Carrying == {"policy", "load", "count", "id", "ticket", "deliver"}

\* The mail of c is in an inbox.
Waits(c) == \E w \in Worker : InInbox(c, w) # {}

\* The mail of c has at most one copy: in one call, in the queue, in one inbox or
\* with the worker that took it.
OneCopy(c) ==
    /\ \A a, b \in Carried(c) : a = b
    /\ \A w, v \in Worker : \A i \in InInbox(c, w), j \in InInbox(c, v) : w = v /\ i = j
    /\ Carried(c) # {} => ~Queued(c) /\ ~Waits(c) /\ served[c] = 0
    /\ Queued(c) => ~Waits(c) /\ served[c] = 0
    /\ Waits(c) => served[c] = 0
    /\ served[c] \in {0, 1}
    /\ call[c].step = "idle" => Carried(c) = {} /\ ~Queued(c) /\ ~Waits(c) /\ served[c] = 0

\* While no worker is dead, a mail that was accepted has a copy.
SomeCopy(c) ==
    dead = {} /\ call[c].step # "idle" /\ replies[c] # <<EmptyMessage>>
        => Carried(c) # {} \/ Queued(c) \/ Waits(c) \/ served[c] = 1

CopyInv == \A c \in Client : OneCopy(c) /\ SomeCopy(c)

LEMMA CarriedAfter ==
    ASSUME NEW a \in Actors, NEW step, NEW mail, NEW to, Becomes(a, step, mail, to), NEW c
    PROVE  Carried(c)' = (Carried(c) \ {a})
                         \cup (IF mail = c /\ step \in Carrying THEN {a} ELSE {})
BY DEF Becomes, Carried, Carrying

\* Two steps of the same kind carry the same mail.
LEMMA CarriedSame ==
    ASSUME NEW a \in Actors, NEW step, NEW to, Becomes(a, step, call[a].mail, to),
           step \in Carrying <=> call[a].step \in Carrying, NEW c
    PROVE  Carried(c)' = Carried(c)
BY CarriedAfter DEF Carried, Carrying

\* A step that moves no mail, and starts no call of a client but an empty reply's.
LEMMA QuietCopies ==
    ASSUME CopyInv, mails' = mails, inbox' = inbox, served' = served, dead' = dead,
           \A c \in Client :
               /\ Carried(c)' = Carried(c)
               /\ call'[c].step = "idle" => call[c].step = "idle"
               /\ call'[c].step # "idle" /\ replies'[c] # <<EmptyMessage>>
                      => call[c].step # "idle" /\ replies[c] # <<EmptyMessage>>
    PROVE  CopyInv'
<1> SUFFICES ASSUME NEW c \in Client PROVE (OneCopy(c) /\ SomeCopy(c))'
  BY DEF CopyInv
<1>1. OneCopy(c) /\ SomeCopy(c)
  BY DEF CopyInv
<1>2. /\ Queued(c)' <=> Queued(c)
      /\ Waits(c)' <=> Waits(c)
      /\ \A w \in Worker : InInbox(c, w)' = InInbox(c, w)
  BY DEF Queued, Waits, InInbox
<1>3. Carried(c)' = Carried(c) /\ served'[c] = served[c]
  OBVIOUS
<1>4. OneCopy(c)'
  BY <1>1, <1>2, <1>3 DEF OneCopy
<1>5. SomeCopy(c)'
  BY <1>1, <1>2, <1>3 DEF SomeCopy
<1> QED
  BY <1>4, <1>5

LEMMA SendCopies == ASSUME Inv, CopyInv, NEW c \in Client, Send(c) PROVE CopyInv'
<1>1. Becomes(c, "policy", c, Nobody) /\ c \in Actors /\ call[c].step = "idle"
  BY Effects DEF Inv, TypeInv, Actors, Send
<1>2. mails' = mails /\ inbox' = inbox /\ served' = served /\ dead' = dead /\ replies' = replies
  BY DEF Send, policyVars, clientVars, outside, workerVars
<1> SUFFICES ASSUME NEW d \in Client PROVE (OneCopy(d) /\ SomeCopy(d))'
  BY DEF CopyInv
<1>3. OneCopy(d) /\ SomeCopy(d)
  BY DEF CopyInv
<1>4. /\ Queued(d)' <=> Queued(d)
      /\ Waits(d)' <=> Waits(d)
      /\ \A w \in Worker : InInbox(d, w)' = InInbox(d, w)
      /\ served'[d] = served[d]
  BY <1>2 DEF Queued, Waits, InInbox
<1>5. c \notin Carried(d) /\ Carried(d)' = Carried(d) \cup (IF d = c THEN {c} ELSE {})
  BY <1>1, CarriedAfter DEF Carrying, Carried
<1>6. CASE d = c
  <2>1. Carried(d)' = {c} /\ ~Queued(d) /\ ~Waits(d) /\ served[d] = 0 /\ call'[d].step = "policy"
    BY <1>1, <1>3, <1>5, <1>6 DEF OneCopy, Becomes
  <2>2. OneCopy(d)'
    BY <1>3, <1>4, <2>1 DEF OneCopy
  <2> QED
    BY <2>1, <2>2 DEF SomeCopy
<1>7. CASE d # c
  <2>1. Carried(d)' = Carried(d) /\ call'[d] = call[d]
    BY <1>1, <1>5, <1>7 DEF Becomes, Actors
  <2>2. OneCopy(d)'
    BY <1>3, <1>4, <2>1 DEF OneCopy
  <2>3. SomeCopy(d)'
    BY <1>2, <1>3, <1>4, <2>1 DEF SomeCopy
  <2> QED
    BY <2>2, <2>3
<1> QED
  BY <1>6, <1>7

\* What a call of the policy brings into the queue and out of it.
LEMMA PolicyCopies ==
    ASSUME CopyInv, NEW a \in Actors, call[a].step = "policy",
           UNCHANGED <<inbox, served, dead, replies>>,
           NEW step, NEW mail, NEW to, Becomes(a, step, mail, to),
           a \in Client => step # "idle",
           \A c \in Client :
               /\ a \in Carried(c)' => ~Queued(c)'
               /\ (a \in Carried(c)' \/ Queued(c)') <=> (a \in Carried(c) \/ Queued(c))
    PROVE  CopyInv'
<1> SUFFICES ASSUME NEW c \in Client PROVE (OneCopy(c) /\ SomeCopy(c))'
  BY DEF CopyInv
<1>1. OneCopy(c) /\ SomeCopy(c)
  BY DEF CopyInv
<1>2. /\ Waits(c)' <=> Waits(c)
      /\ \A w \in Worker : InInbox(c, w)' = InInbox(c, w)
      /\ served'[c] = served[c]
  BY DEF Waits, InInbox
<1>3. \A b \in Actors \ {a} : b \in Carried(c)' <=> b \in Carried(c)
  BY CarriedAfter
<1>4. Carried(c) \subseteq Actors /\ Carried(c)' \subseteq Actors
  BY DEF Carried
<1>5. /\ call'[c].step = "idle" => call[c].step = "idle"
      /\ call'[c].step # "idle" => call[c].step # "idle" \/ c = a
  BY DEF Becomes, Actors
<1>6. Carried(c)' # {} \/ Queued(c)' <=> Carried(c) # {} \/ Queued(c)
  BY <1>3, <1>4
<1>7. \A b, d \in Carried(c)' : b = d
  BY <1>1, <1>3, <1>4 DEF OneCopy
<1>8. Carried(c)' # {} => ~Queued(c)'
  BY <1>1, <1>3, <1>4 DEF OneCopy
<1>9. OneCopy(c)'
  BY <1>1, <1>2, <1>5, <1>6, <1>7, <1>8 DEF OneCopy
<1>10. SomeCopy(c)'
  BY <1>1, <1>2, <1>5, <1>6 DEF SomeCopy
<1> QED
  BY <1>9, <1>10

LEMMA PolicyKeepsCopies == ASSUME Inv, CopyInv, NEW a \in Actors, Policy(a) PROVE CopyInv'
<1> USE DEF Inv, TypeInv
<1>1. call[a].step = "policy" /\ UNCHANGED <<inbox, served, dead, replies>>
  BY DEF Policy, clientVars, workerVars
<1>2. (a \in Client => Ended(a) # "idle") /\ Ended(a) \notin Carrying /\ "load" \in Carrying
  BY DEF Ended, Carrying
<1>3. \A c \in Client : a \in Carried(c) <=> call[a].mail = c
  BY <1>1 DEF Carried
<1>4. mails \in Seq(Client) /\ call[a].mail \in Client \cup {Nobody} /\ Nobody \notin Client
  BY NobodyAssumption DEF TypeOK, Call
<1>5. \A c \in Client : c \in ToSet(Hold(call[a].mail)) <=> Queued(c) \/ a \in Carried(c)
  <2>1. CASE call[a].mail = Nobody
    BY <1>3, <1>4, <2>1 DEF Hold, Queued
  <2>2. CASE call[a].mail # Nobody
    <3>1. ToSet(Append(mails, call[a].mail)) = ToSet(mails) \cup {call[a].mail}
      BY <1>4, <2>2, AppendFacts
    <3> QED
      BY <1>3, <2>2, <3>1 DEF Hold, Queued
  <2> QED
    BY <2>1, <2>2
<1>6. CASE PolicyIdle(a) /\ call[a].mail = Nobody
  <2>1. Becomes(a, Ended(a), Nobody, Nobody) /\ mails' = mails
    BY <1>6, Effects DEF PolicyIdle
  <2>2. \A c \in Client : a \notin Carried(c)' /\ a \notin Carried(c) /\ (Queued(c)' <=> Queued(c))
    BY <1>2, <1>3, <1>4, <1>6, <2>1, CarriedAfter DEF Queued
  <2> QED
    BY <1>1, <1>2, <2>1, <2>2, PolicyCopies
<1>7. CASE PolicyHolds(a)
  <2>1. Becomes(a, Ended(a), Nobody, Nobody) /\ mails' = Hold(call[a].mail)
    BY <1>7, Effects DEF PolicyHolds
  <2>2. \A c \in Client : a \notin Carried(c)' /\ (Queued(c)' <=> c \in ToSet(Hold(call[a].mail)))
    BY <1>2, <2>1, CarriedAfter DEF Queued
  <2> QED
    BY <1>1, <1>2, <1>5, <2>1, <2>2, PolicyCopies
<1>8. ASSUME NEW selected \in Nat, PolicyHandsOut(a, selected) PROVE CopyInv'
  <2> DEFINE q == Hold(call[a].mail)
  <2>1. PICK w \in Worker : Becomes(a, "load", Head(q), w)
    BY <1>8, HandOutEffect
  <2>2. q \in Seq(Client) /\ q # <<>> /\ mails' = Tail(q)
    BY <1>8, HandOutFacts
  <2>3. IsInjective(q)
    BY <1>1, HoldOnce
  <2>4. \A c \in Client : c \in ToSet(q) <=> Queued(c) \/ a \in Carried(c)
    BY <1>5
  <2> HIDE DEF q
  <2>5. ToSet(q) = ToSet(Tail(q)) \cup {Head(q)} /\ Head(q) \notin ToSet(Tail(q))
    <3>1. /\ Tail(q) \in Seq(Client) /\ Head(q) = q[1] /\ Len(q) \in Nat \ {0}
          /\ DOMAIN q = 1..Len(q) /\ DOMAIN Tail(q) = 1..(Len(q) - 1)
          /\ \A j \in 1..(Len(q) - 1) : Tail(q)[j] = q[j + 1]
      BY <2>2
    <3>2. ToSet(q) \subseteq ToSet(Tail(q)) \cup {Head(q)}
      <4> SUFFICES ASSUME NEW i \in 1..Len(q) PROVE q[i] \in ToSet(Tail(q)) \cup {Head(q)}
        BY <3>1 DEF ToSet
      <4>1. CASE i = 1
        BY <3>1, <4>1
      <4>2. CASE i # 1
        <5>1. i - 1 \in 1..(Len(q) - 1) /\ (i - 1) + 1 = i
          BY <3>1, <4>2
        <5>2. Tail(q)[i - 1] = q[i]
          BY <3>1, <5>1
        <5> QED
          BY <3>1, <5>1, <5>2 DEF ToSet
      <4> QED
        BY <4>1, <4>2
    <3> QED
      BY <2>2, <2>3, <3>2, TailFacts
  <2>6. \A c \in Client : (a \in Carried(c)' <=> c = Head(q)) /\ (Queued(c)' <=> c \in ToSet(Tail(q)))
    BY <1>2, <2>1, <2>2, CarriedAfter DEF Queued
  <2> QED
    BY <1>1, <2>1, <2>4, <2>5, <2>6, PolicyCopies
<1> QED
  BY <1>6, <1>7, <1>8, PolicyCases

\* The mail goes from the call into the inbox of its worker.
LEMMA DeliverCopies == ASSUME Inv, CopyInv, NEW a \in Actors, Deliver(a) PROVE CopyInv'
<1>0. PICK m \in Client, w \in Worker, request \in Mail :
        /\ m = call[a].mail /\ w = call[a].to
        /\ request = [id |-> call[a].id, mail |-> call[a].mail]
  <2>1. call[a].mail \in Client /\ call[a].to \in Worker
        /\ [id |-> call[a].id, mail |-> call[a].mail] \in Mail
    BY DEF Inv, TypeInv, TypeOK, RelaysMail, Relaying, Deliver, Mail, Call
  <2> QED
    BY <2>1
<1>1. Becomes(a, Ended(a), Nobody, Nobody) /\ (a \in Client => Ended(a) # "idle")
      /\ Ended(a) \notin Carrying
  BY Effects DEF Inv, TypeInv, Ended, Carrying
<1>2. a \in Carried(m) /\ inbox \in [Worker -> Seq(Mail)]
  BY <1>0 DEF Inv, TypeInv, TypeOK, Deliver, Carried
<1>3. /\ dead' = dead /\ mails' = mails /\ served' = served /\ replies' = replies
      /\ call[a].step = "deliver"
  BY DEF Deliver, outside, workerVars, policyVars, clientVars
<1>4. /\ inbox'[w] = inbox[w] \/ inbox'[w] = Append(inbox[w], request)
      /\ dead = {} => inbox'[w] = Append(inbox[w], request)
      /\ \A v \in Worker \ {w} : inbox'[v] = inbox[v]
  BY <1>0, <1>2 DEF Deliver
<1>5. request.mail = m
  BY <1>0
<1> SUFFICES ASSUME NEW c \in Client PROVE (OneCopy(c) /\ SomeCopy(c))'
  BY DEF CopyInv
<1>6. OneCopy(c) /\ SomeCopy(c) /\ OneCopy(m)
  BY <1>2 DEF CopyInv
<1>7. Carried(c)' = Carried(c) \ {a}
  BY <1>1, CarriedAfter
<1>8. Queued(c)' <=> Queued(c)
  BY <1>3 DEF Queued
<1>9. /\ call'[c].step = "idle" => call[c].step = "idle"
      /\ call'[c].step # "idle" => call[c].step # "idle" \/ c = a
      /\ call[a].step # "idle"
  BY <1>1, <1>3 DEF Becomes, Actors
<1>10. inbox[w] \in Seq(Mail) /\ Len(inbox[w]) \in Nat /\ DOMAIN inbox[w] = 1..Len(inbox[w])
  BY <1>2
<1>11. /\ DOMAIN Append(inbox[w], request) = 1..(Len(inbox[w]) + 1)
       /\ \A i \in 1..Len(inbox[w]) : Append(inbox[w], request)[i] = inbox[w][i]
       /\ Append(inbox[w], request)[Len(inbox[w]) + 1] = request
  BY <1>2, <1>10
<1>12. \A v \in Worker \ {w} : InInbox(c, v)' = InInbox(c, v)
  BY <1>4 DEF InInbox
<1>13. CASE c # m
  <2>1. a \notin Carried(c)
    BY <1>0, <1>13 DEF Carried
  <2>2. InInbox(c, w)' = InInbox(c, w)
    BY <1>4, <1>5, <1>10, <1>11, <1>13 DEF InInbox
  <2>3. \A v \in Worker : InInbox(c, v)' = InInbox(c, v)
    BY <1>12, <2>2
  <2>4. (Waits(c)' <=> Waits(c)) /\ Carried(c)' = Carried(c) /\ served'[c] = served[c]
    BY <1>3, <1>7, <2>1, <2>3 DEF Waits
  <2>5. OneCopy(c)'
    BY <1>6, <1>8, <1>9, <2>3, <2>4 DEF OneCopy
  <2>6. c = a => call[c].step # "idle"
    BY <1>9
  <2>7. SomeCopy(c)'
    BY <1>3, <1>6, <1>8, <1>9, <2>4, <2>6 DEF SomeCopy
  <2> QED
    BY <2>5, <2>7
<1>14. CASE c = m
  <2>1. Carried(c)' = {} /\ ~Queued(c)' /\ served'[c] = 0 /\ call[c].step # "idle"
        /\ \A v \in Worker : InInbox(c, v) = {}
    BY <1>2, <1>3, <1>6, <1>7, <1>8, <1>14 DEF OneCopy, Waits
  <2>2. \A v \in Worker : \A i \in InInbox(c, v)' : v = w /\ i = Len(inbox[w]) + 1
    <3>1. \A i \in InInbox(c, w)' : i = Len(inbox[w]) + 1
      <4>1. CASE inbox'[w] = inbox[w]
        BY <1>2, <2>1, <4>1 DEF InInbox
      <4>2. CASE inbox'[w] = Append(inbox[w], request)
        <5>1. \A i \in 1..Len(inbox[w]) : inbox[w][i].mail # c
          BY <1>2, <1>10, <2>1 DEF InInbox
        <5>2. \A i \in DOMAIN inbox'[w] : inbox'[w][i].mail = c => i = Len(inbox[w]) + 1
          BY <1>10, <1>11, <4>2, <5>1
        <5> QED
          BY <5>2 DEF InInbox
      <4> QED
        BY <1>4, <4>1, <4>2
    <3>2. \A v \in Worker \ {w} : InInbox(c, v)' = {}
      BY <1>12, <2>1
    <3> QED
      BY <3>1, <3>2
  <2>3. dead = {} => Len(inbox[w]) + 1 \in InInbox(c, w)'
    BY <1>4, <1>5, <1>10, <1>11, <1>14 DEF InInbox
  <2>4. OneCopy(c)'
    BY <1>9, <2>1, <2>2 DEF OneCopy
  <2>5. dead = {} => Waits(c)'
    BY <1>2, <2>3 DEF Waits
  <2> QED
    BY <1>3, <2>4, <2>5 DEF SomeCopy
<1> QED
  BY <1>13, <1>14

\* The worker takes the mail at the head of its inbox.
LEMMA AnswerCopies == ASSUME Inv, CopyInv, NEW w \in Worker, Answer(w) PROVE CopyInv'
<1>1. /\ inbox \in [Worker -> Seq(Mail)] /\ inbox[w] \in Seq(Mail) /\ inbox[w] # <<>>
      /\ served \in [Client -> Nat]
  BY DEF Inv, TypeInv, TypeOK, Answer
<1>2. PICK m \in Client : m = Head(inbox[w]).mail
  <2>1. Head(inbox[w]) \in Mail
    BY <1>1
  <2> QED
    BY <2>1 DEF Mail
<1>3. Becomes(w, "settle", m, Nobody) /\ w \in Actors /\ w \notin Client /\ call[w].step = "idle"
  BY <1>2, Effects, ActorsAssumption DEF Inv, TypeInv, Actors, Answer
<1>4. dead' = dead /\ mails' = mails /\ replies' = replies
  BY DEF Answer, outside, workerVars, policyVars
<1>5. /\ inbox'[w] = Tail(inbox[w]) /\ (\A v \in Worker \ {w} : inbox'[v] = inbox[v])
      /\ served'[m] = served[m] + 1 /\ \A c \in Client \ {m} : served'[c] = served[c]
  BY <1>1, <1>2 DEF Answer
<1>6. /\ Len(inbox[w]) \in Nat \ {0} /\ DOMAIN inbox[w] = 1..Len(inbox[w])
      /\ DOMAIN Tail(inbox[w]) = 1..(Len(inbox[w]) - 1)
      /\ \A j \in 1..(Len(inbox[w]) - 1) : Tail(inbox[w])[j] = inbox[w][j + 1]
      /\ inbox[w][1].mail = m
  BY <1>1, <1>2
<1> SUFFICES ASSUME NEW c \in Client PROVE (OneCopy(c) /\ SomeCopy(c))'
  BY DEF CopyInv
<1>7. OneCopy(c) /\ SomeCopy(c)
  BY DEF CopyInv
<1>8. Carried(c)' = Carried(c) \ {w} /\ w \notin Carried(c)
  BY <1>3, CarriedAfter DEF Carrying, Carried
<1>9. (Queued(c)' <=> Queued(c)) /\ call'[c] = call[c]
  BY <1>3, <1>4 DEF Queued, Becomes, Actors
<1>10. \A v \in Worker \ {w} : InInbox(c, v)' = InInbox(c, v)
  BY <1>5 DEF InInbox
<1>11. \A i \in InInbox(c, w)' : i + 1 \in InInbox(c, w) /\ i \in Nat
  BY <1>5, <1>6 DEF InInbox
<1>12. CASE c = m
  <2>1. 1 \in InInbox(c, w)
    BY <1>6, <1>12 DEF InInbox
  <2>2. Waits(c)
    BY <2>1 DEF Waits
  <2>3. \A v \in Worker : InInbox(c, v)' = {}
    <3>1. InInbox(c, w)' = {}
      <4> SUFFICES ASSUME NEW i \in InInbox(c, w)' PROVE FALSE
        OBVIOUS
      <4>1. i + 1 = 1 /\ i \in Nat
        BY <1>7, <1>11, <2>1 DEF OneCopy
      <4>2. i \in 1..(Len(inbox[w]) - 1)
        BY <1>5, <1>6 DEF InInbox
      <4> QED
        BY <4>1, <4>2
    <3>2. \A v \in Worker \ {w} : InInbox(c, v)' = {}
      BY <1>7, <1>10, <2>1 DEF OneCopy
    <3> QED
      BY <3>1, <3>2
  <2>4. ~Waits(c)' /\ served'[c] = 1 /\ Carried(c)' = {} /\ ~Queued(c)' /\ call[c].step # "idle"
    BY <1>5, <1>7, <1>8, <1>9, <1>12, <2>2, <2>3 DEF OneCopy, Waits
  <2>5. OneCopy(c)'
    BY <1>9, <2>3, <2>4 DEF OneCopy
  <2> QED
    BY <2>4, <2>5 DEF SomeCopy
<1>13. CASE c # m
  <2>1. \A i \in InInbox(c, w) : i # 1 /\ i - 1 \in InInbox(c, w)'
    <3> SUFFICES ASSUME NEW i \in InInbox(c, w) PROVE i # 1 /\ i - 1 \in InInbox(c, w)'
      OBVIOUS
    <3>1. i \in 1..Len(inbox[w]) /\ i # 1
      BY <1>6, <1>13 DEF InInbox
    <3>2. i - 1 \in 1..(Len(inbox[w]) - 1) /\ (i - 1) + 1 = i
      BY <1>6, <3>1
    <3>3. inbox'[w][i - 1] = inbox[w][i]
      BY <1>5, <1>6, <3>2
    <3> QED
      BY <1>5, <1>6, <3>1, <3>2, <3>3 DEF InInbox
  <2>2. \A i, j \in InInbox(c, w)' : i = j
    <3> SUFFICES ASSUME NEW i \in InInbox(c, w)', NEW j \in InInbox(c, w)' PROVE i = j
      OBVIOUS
    <3>1. i + 1 = j + 1 /\ i \in Nat /\ j \in Nat
      BY <1>7, <1>11 DEF OneCopy
    <3> QED
      BY <3>1
  <2>3. \A v \in Worker : InInbox(c, v)' # {} <=> InInbox(c, v) # {}
    BY <1>10, <1>11, <2>1
  <2>4. (Waits(c)' <=> Waits(c)) /\ served'[c] = served[c] /\ Carried(c)' = Carried(c)
    BY <1>5, <1>8, <1>13, <2>3 DEF Waits
  <2>5. \A v, u \in Worker : \A i \in InInbox(c, v)', j \in InInbox(c, u)' : v = u /\ i = j
    <3> SUFFICES ASSUME NEW v \in Worker, NEW u \in Worker,
                        NEW i \in InInbox(c, v)', NEW j \in InInbox(c, u)'
                 PROVE  v = u /\ i = j
      OBVIOUS
    <3>1. InInbox(c, v) # {} /\ InInbox(c, u) # {}
      BY <2>3
    <3>2. v = u
      BY <1>7, <3>1 DEF OneCopy
    <3>3. CASE v = w
      BY <2>2, <3>2, <3>3
    <3>4. CASE v # w
      BY <1>7, <1>10, <3>2, <3>4 DEF OneCopy
    <3> QED
      BY <3>2, <3>3, <3>4
  <2>6. OneCopy(c)'
    BY <1>7, <1>9, <2>4, <2>5 DEF OneCopy
  <2>7. SomeCopy(c)'
    BY <1>4, <1>7, <1>9, <2>4 DEF SomeCopy
  <2> QED
    BY <2>6, <2>7
<1> QED
  BY <1>12, <1>13

\* A worker that dies takes the mail of its inbox with it.
LEMMA TerminateCopies == ASSUME Inv, CopyInv, NEW w \in Worker, Terminate(w) PROVE CopyInv'
<1>1. /\ dead' # {} /\ inbox'[w] = <<>> /\ (\A v \in Worker \ {w} : inbox'[v] = inbox[v])
      /\ call' = call /\ mails' = mails /\ served' = served
  BY DEF Inv, TypeInv, TypeOK, Terminate, inside, policyVars, clientVars
<1> SUFFICES ASSUME NEW c \in Client PROVE (OneCopy(c) /\ SomeCopy(c))'
  BY DEF CopyInv
<1>2. OneCopy(c)
  BY DEF CopyInv
<1>3. \A v \in Worker : InInbox(c, v)' \subseteq InInbox(c, v)
  <2>1. InInbox(c, w)' = {}
    BY <1>1 DEF InInbox
  <2>2. \A v \in Worker \ {w} : InInbox(c, v)' = InInbox(c, v)
    BY <1>1 DEF InInbox
  <2> QED
    BY <2>1, <2>2
<1>4. /\ Carried(c)' = Carried(c) /\ (Queued(c)' <=> Queued(c)) /\ (Waits(c)' => Waits(c))
      /\ served'[c] = served[c]
  BY <1>1, <1>3 DEF Carried, Queued, Waits
<1>5. OneCopy(c)'
  BY <1>1, <1>2, <1>3, <1>4 DEF OneCopy
<1> QED
  BY <1>1, <1>5 DEF SomeCopy

\* The empty reply and the answer change what a client got back, and move no mail.
LEMMA RepliedCopies ==
    ASSUME Inv, CopyInv, NEW a \in Actors,
           (a \in Client /\ ReplyEmpty(a)) \/ (a \in Worker /\ Settle(a))
    PROVE  CopyInv'
<1>1. mails' = mails /\ inbox' = inbox /\ served' = served /\ dead' = dead
  BY DEF ReplyEmpty, Settle, policyVars, outside, workerVars
<1>2. /\ \A b \in Actors \ {a} : call'[b] = call[b]
      /\ call[a].step \notin Carrying /\ call'[a].step \notin Carrying
      /\ call'[a].step # "idle"
  BY Effects DEF Inv, TypeInv, Becomes, Carrying, ReplyEmpty, Settle
<1>3. \A c \in Client : Carried(c)' = Carried(c)
  BY <1>2 DEF Carried, Carrying
<1>4. \A c \in Client : call'[c].step = "idle" => call[c].step = "idle"
  BY <1>2 DEF Actors
<1>5. ASSUME NEW c \in Client, call'[c].step # "idle", replies'[c] # <<EmptyMessage>>
      PROVE  call[c].step # "idle" /\ replies[c] # <<EmptyMessage>>
  <2>1. OnePlace(c) /\ replies \in [Client -> Seq(Client \cup {EmptyMessage})]
    BY DEF Inv, OnceInv, TypeInv, TypeOK
  <2>2. CASE a \in Client /\ ReplyEmpty(a)
    <3>1. c # a
      <4>1. replies'[a] = Append(replies[a], EmptyMessage)
        BY <2>1, <2>2 DEF ReplyEmpty
      <4>2. replies[a] = <<>>
        BY <2>2 DEF ReplyEmpty, Inv, OnceInv, OnePlace
      <4> QED
        BY <1>5, <4>1, <4>2
    <3>2. replies'[c] = replies[c] /\ call'[c] = call[c]
      BY <1>2, <2>1, <2>2, <3>1 DEF ReplyEmpty, Actors
    <3> QED
      BY <1>5, <3>2
  <2>3. CASE a \in Worker /\ Settle(a)
    <3>1. call'[c] = call[c]
      BY <1>2, <2>3, ActorsAssumption DEF Actors
    <3>2. CASE ResponseTo(a, call[a].id) # c
      <4>1. replies'[c] = replies[c]
        BY <2>1, <2>3, <3>2 DEF Settle
      <4> QED
        BY <1>5, <3>1, <4>1
    <3>3. CASE ResponseTo(a, call[a].id) = c
      <4>1. Ticketed(c)
        BY <3>3, NobodyAssumption DEF ResponseTo, Ticketed
      <4>2. replies[c] = <<>>
        BY <2>1, <4>1 DEF OnePlace
      <4> QED
        BY <1>5, <3>1, <4>2
    <3> QED
      BY <3>2, <3>3
  <2> QED
    BY <2>2, <2>3
<1> QED
  BY <1>1, <1>3, <1>4, <1>5, QuietCopies

LEMMA NextCopies == ASSUME Inv, CopyInv, [Next]_vars PROVE CopyInv'
<1> USE DEF Inv, TypeInv
<1>1. ASSUME call' = call, mails' = mails, inbox' = inbox, served' = served, dead' = dead,
             replies' = replies
      PROVE  CopyInv'
  BY <1>1, QuietCopies DEF Carried
<1>2. ASSUME NEW a \in Actors, Proceed(a) PROVE CopyInv'
  <2>1. CASE Policy(a)
    BY <2>1, PolicyKeepsCopies
  <2>2. CASE PolicyAborts(a)
    BY <2>2, <1>1 DEF PolicyAborts, Abort, workerVars, policyVars, clientVars
  <2>3. CASE ReadLoad(a) \/ WriteLoad(a) \/ ReadId(a) \/ PlaceTicket(a)
    <3>1. /\ mails' = mails /\ inbox' = inbox /\ served' = served /\ dead' = dead
          /\ replies' = replies
      BY <2>3 DEF ReadLoad, WriteLoad, ReadId, PlaceTicket, policyVars, clientVars, outside,
                  workerVars
    <3>2. PICK step \in Carrying \ {"policy"} : Becomes(a, step, call[a].mail, call[a].to)
      BY <2>3, Effects DEF Carrying
    <3>3. call[a].step \in Carrying
      BY <2>3 DEF ReadLoad, WriteLoad, ReadId, PlaceTicket, Carrying
    <3>4. \A c \in Client : Carried(c)' = Carried(c)
      BY <3>2, <3>3, CarriedSame
    <3>5. \A c \in Client : call'[c].step = "idle" <=> call[c].step = "idle"
      BY <3>2, <3>3 DEF Becomes, Carrying, Actors
    <3> QED
      BY <3>1, <3>4, <3>5, QuietCopies
  <2>4. CASE Deliver(a)
    BY <2>4, DeliverCopies
  <2> QED
    BY <1>2, <2>1, <2>2, <2>3, <2>4 DEF Proceed
<1>3. ASSUME NEW w \in Worker, ReadMetrics(w) PROVE CopyInv'
  <2>1. w \in Actors /\ w \notin Client
    BY ActorsAssumption DEF Actors
  <2>2. Becomes(w, "policy", Nobody, Nobody) /\ call[w].step = "metrics"
    BY <1>3, <2>1, Effects DEF ReadMetrics
  <2>3. \A c \in Client : Carried(c)' = Carried(c)
    BY <2>2, NobodyAssumption DEF Becomes, Carried
  <2>4. \A c \in Client : call'[c] = call[c]
    BY <2>1, <2>2 DEF Becomes, Actors
  <2> QED
    BY <1>3, <2>3, <2>4, QuietCopies
    DEF ReadMetrics, policyVars, clientVars, outside, workerVars
<1>4. ASSUME NEW w \in Worker, AddWorker(w) \/ DeleteWorker(w) \/ Down(w) PROVE CopyInv'
  BY <1>1, <1>4 DEF AddWorker, DeleteWorker, Down, inside, policyVars, clientVars
<1>5. CASE ClearWorker \/ Exit
  BY <1>1, <1>5 DEF ClearWorker, Exit, inside, policyVars, clientVars
<1>6. CASE UNCHANGED vars
  BY <1>1, <1>6 DEF vars, inside, policyVars, clientVars, workerVars
<1> QED
  BY <1>2, <1>3, <1>4, <1>5, <1>6, SendCopies, AnswerCopies, TerminateCopies, RepliedCopies
  DEF Next, Actors

LEMMA InitCopies == Init => CopyInv
<1> SUFFICES ASSUME Init, NEW c \in Client PROVE OneCopy(c) /\ SomeCopy(c)
  BY DEF CopyInv
<1>1. Carried(c) = {} /\ call[c].step = "idle"
  BY DEF Init, Carried, Idle, Actors
<1>2. ~Queued(c)
  BY DEF Init, Queued, ToSet
<1>3. \A w \in Worker : InInbox(c, w) = {}
  BY DEF Init, InInbox
<1>4. served[c] = 0
  BY DEF Init
<1> QED
  BY <1>1, <1>2, <1>3, <1>4 DEF OneCopy, SomeCopy, Waits

\* A set with no two elements has one element or none.
LEMMA AtMostOne ==
    ASSUME NEW S, \A x, y \in S : x = y
    PROVE  Cardinality(S) = IF S = {} THEN 0 ELSE 1
<1>1. CASE S = {}
  BY <1>1, FS_EmptySet
<1>2. CASE S # {}
  <2>1. PICK x \in S : S = {x}
    BY <1>2
  <2> QED
    BY <1>2, <2>1, FS_Singleton
<1> QED
  BY <1>1, <1>2

\* The count of the copies of a mail.
LEMMA CountCopies == Inv /\ CopyInv => NoMailLostOrDuplicated
<1> SUFFICES ASSUME Inv, CopyInv, NEW c \in Client
             PROVE  /\ Copies(c) <= 1
                    /\ dead = {} /\ call[c].step # "idle" /\ replies[c] # <<EmptyMessage>>
                          => Copies(c) = 1
  BY DEF NoMailLostOrDuplicated
<1>1. OneCopy(c) /\ SomeCopy(c)
  BY DEF CopyInv
<1>2. Cardinality(Carried(c)) = IF Carried(c) = {} THEN 0 ELSE 1
  <2>1. \A a, b \in Carried(c) : a = b
    BY <1>1 DEF OneCopy
  <2> QED
    BY <2>1, AtMostOne
<1>3. Cardinality(Holding(c)) = IF Queued(c) THEN 1 ELSE 0
  <2>1. \A i, j \in Holding(c) : i = j
    BY DEF Inv, OnceInv, IsInjective, Holding
  <2>2. Holding(c) # {} <=> Queued(c)
    BY DEF Holding, Queued, ToSet
  <2> QED
    BY <2>1, <2>2, AtMostOne
<1>4. Cardinality(Waiting(c)) = IF Waits(c) THEN 1 ELSE 0
  <2>1. \A p, q \in Waiting(c) : p = q
    BY <1>1 DEF OneCopy, Waiting
  <2>2. Waiting(c) # {} <=> Waits(c)
    <3>1. \A w \in Worker : \A i \in InInbox(c, w) : <<w, i>> \in Waiting(c)
      BY DEF Waiting
    <3>2. \A p \in Waiting(c) : \E w \in Worker : InInbox(c, w) # {}
      BY DEF Waiting
    <3> QED
      BY <3>1, <3>2 DEF Waits
  <2> QED
    BY <2>1, <2>2, AtMostOne
<1> QED
  BY <1>1, <1>2, <1>3, <1>4 DEF OneCopy, SomeCopy, Copies

\* The mail of a client is never in two places, and while no worker is dead it is
\* not lost, for any number of clients and workers, at the threshold or below, for
\* all overlaps of their calls, which hand each other's mails on through the queue.
THEOREM MailIsKept == Spec => []NoMailLostOrDuplicated
<1>1. Init => Inv /\ CopyInv
  BY InitTypes, InitOnce, InitCopies DEF Init, Inv, TypeInv, RelaysMail, Relaying, Idle
<1>2. Inv /\ CopyInv /\ [Next]_vars => Inv' /\ CopyInv'
  BY NextTypes, NextOnce, NextCopies DEF Inv
<1> QED
  BY <1>1, <1>2, CountCopies, PTL DEF Spec

-----------------------------------------------------------------------------
(* Below the threshold.                                                    *)

\* No load can reach the threshold: the clients are too few.  A worker that was
\* removed is not put back: the load of one may be anything (ResponseTo).
BelowThreshold ==
    IsFiniteSet(Client) /\ Cardinality(Client) <= Threshold /\ "put back" \notin Commands

Locked == {"policy", "load", "count", "id", "ticket"}
Open == {"id", "ticket", "deliver"}

\* A request holds lock_ until its ticket is placed, a response until it has its.
LockInv ==
    /\ \A c \in Client : call[c].step \in Locked => lock = c
    /\ \A w \in Worker : call[w].step = "settle" => lock = w /\ w \notin dead

\* Nothing is held, so that a worker's call has nothing to relay, and the snapshot
\* of a client's call is that of the metrics.
QueueInv ==
    /\ mails = <<>>
    /\ \A w \in Worker : /\ call[w].step \in {"idle", "settle", "metrics", "policy"}
                         /\ call[w].step = "policy" => call[w].mail = Nobody
    /\ \A c \in Client : /\ call[c].step \notin {"settle", "metrics"}
                         /\ call[c].step = "policy" => /\ call[c].metrics = GetMetrics
                                                       /\ call[c].mail = c

\* What ++load and --load have read is still the load.
ReadInv ==
    /\ \A c \in Client : call[c].step \in {"load", "count"} => call[c].to \in ToSet(workers)
    /\ \A c \in Client : call[c].step = "count" => call[c].read = load[call[c].to]
    /\ \A w \in Worker : call[w].step = "settle" => w \in DOMAIN load /\ call[w].read = load[w]

\* The calls that have counted a request of w and not delivered it, and the clients
\* whose request has been counted, at most.
OpenCalls(w) == {a \in Actors : call[a].to = w /\ call[a].step \in Open}
Counted == {c \in Client : call[c].step \in Open \cup {"done"}}

\* A worker that was never behind the router has no entry and no requests.
Untouched(w) ==
    w \notin DOMAIN load /\ inbox[w] = <<>> /\ call[w].step # "settle" /\ OpenCalls(w) = {}

CountInv ==
    /\ ToSet(workers) \cap removed = {}
    /\ \A w \in ToSet(workers) : load[w] <= Cardinality(Counted)
    /\ \A w \in Worker \ (ToSet(workers) \cup removed) : Untouched(w)
    /\ LoadIsOpenRequests

BelowInv == TypeInv /\ LockInv /\ QueueInv /\ ReadInv /\ CountInv

\* A step of a that leaves lock_ to its owner.
LEMMA LockFrame ==
    ASSUME LockInv, NEW a \in Actors, NEW step, NEW mail, NEW to, Becomes(a, step, mail, to),
           dead' = dead,
           a \in Client /\ step \in Locked => lock' = a,
           a \in Worker /\ step = "settle" => lock' = a /\ a \notin dead,
           lock' = lock \/ lock = Nobody \/ lock = a
    PROVE  LockInv'
<1>1. Nobody \notin Actors
  BY NobodyAssumption DEF Actors
<1>2. ASSUME NEW c \in Client, call'[c].step \in Locked PROVE lock' = c
  <2>1. CASE c = a
    BY <1>2, <2>1 DEF Becomes
  <2>2. CASE c # a
    <3>1. call'[c] = call[c] /\ c \in Actors
      BY <2>2 DEF Becomes, Actors
    <3> QED
      BY <1>1, <1>2, <2>2, <3>1 DEF LockInv
  <2> QED
    BY <2>1, <2>2
<1>3. ASSUME NEW w \in Worker, call'[w].step = "settle" PROVE lock' = w /\ w \notin dead'
  <2>1. CASE w = a
    BY <1>3, <2>1 DEF Becomes
  <2>2. CASE w # a
    <3>1. call'[w] = call[w] /\ w \in Actors
      BY <2>2 DEF Becomes, Actors
    <3> QED
      BY <1>1, <1>3, <2>2, <3>1 DEF LockInv
  <2> QED
    BY <2>1, <2>2
<1> QED
  BY <1>2, <1>3 DEF LockInv

\* With the lock free or with a, no other call is where the lock is held.
LEMMA LockExcludes ==
    ASSUME LockInv, NEW a, lock = Nobody \/ lock = a
    PROVE  /\ \A c \in Client \ {a} : call[c].step \notin Locked
           /\ \A w \in Worker \ {a} : call[w].step # "settle"
BY NobodyAssumption DEF LockInv

LEMMA QueueFrame ==
    ASSUME QueueInv, NEW a \in Actors, NEW step, NEW mail, NEW to, Becomes(a, step, mail, to),
           mails' = <<>>,
           a \in Worker => /\ step \in {"idle", "settle", "metrics", "policy"}
                           /\ step = "policy" => mail = Nobody,
           a \in Client => /\ step \notin {"settle", "metrics"}
                           /\ step = "policy" => call'[a].metrics = GetMetrics' /\ mail = a,
           \/ workers' = workers /\ load' = load
           \/ \A c \in Client \ {a} : call[c].step # "policy"
    PROVE  QueueInv'
<1>1. \A b \in Actors \ {a} : call'[b] = call[b]
  BY DEF Becomes
<1>2. call'[a].step = step /\ call'[a].mail = mail
  BY DEF Becomes
<1>3. ASSUME NEW w \in Worker
      PROVE  /\ call'[w].step \in {"idle", "settle", "metrics", "policy"}
             /\ call'[w].step = "policy" => call'[w].mail = Nobody
  BY <1>1, <1>2 DEF QueueInv, Actors
<1>4. ASSUME NEW c \in Client
      PROVE  /\ call'[c].step \notin {"settle", "metrics"}
             /\ call'[c].step = "policy" => call'[c].metrics = GetMetrics' /\ call'[c].mail = c
  <2>1. CASE c = a
    BY <1>2, <2>1
  <2>2. CASE c # a
    <3>1. call'[c] = call[c]
      BY <1>1, <2>2 DEF Actors
    <3>2. workers' = workers /\ load' = load => GetMetrics' = GetMetrics
      BY DEF GetMetrics
    <3> QED
      BY <2>2, <3>1, <3>2 DEF QueueInv
  <2> QED
    BY <2>1, <2>2
<1> QED
  BY <1>3, <1>4 DEF QueueInv

LEMMA ReadFrame ==
    ASSUME ReadInv, NEW a \in Actors, NEW step, NEW mail, NEW to, Becomes(a, step, mail, to),
           a \in Client => /\ step \in {"load", "count"} => to \in ToSet(workers')
                           /\ step = "count" => call'[a].read = load'[to],
           a \in Worker /\ step = "settle" => a \in DOMAIN load' /\ call'[a].read = load'[a],
           \/ workers' = workers /\ load' = load
           \/ /\ \A c \in Client \ {a} : call[c].step \notin Locked
              /\ \A w \in Worker \ {a} : call[w].step # "settle"
    PROVE  ReadInv'
<1>1. \A b \in Actors \ {a} : call'[b] = call[b]
  BY DEF Becomes
<1>2. call'[a].step = step /\ call'[a].to = to
  BY DEF Becomes
<1>3. ASSUME NEW c \in Client
      PROVE  /\ call'[c].step \in {"load", "count"} => call'[c].to \in ToSet(workers')
             /\ call'[c].step = "count" => call'[c].read = load'[call'[c].to]
  <2>1. CASE c = a
    BY <1>2, <2>1
  <2>2. CASE c # a
    <3>1. call'[c] = call[c]
      BY <1>1, <2>2 DEF Actors
    <3> QED
      BY <2>2, <3>1 DEF ReadInv, Locked
  <2> QED
    BY <2>1, <2>2
<1>4. ASSUME NEW w \in Worker, call'[w].step = "settle"
      PROVE  w \in DOMAIN load' /\ call'[w].read = load'[w]
  <2>1. CASE w = a
    BY <1>2, <1>4, <2>1
  <2>2. CASE w # a
    <3>1. call'[w] = call[w]
      BY <1>1, <2>2 DEF Actors
    <3> QED
      BY <1>4, <2>2, <3>1 DEF ReadInv
  <2> QED
    BY <2>1, <2>2
<1> QED
  BY <1>3, <1>4 DEF ReadInv

\* What a step of a does to the calls that have counted a request.
LEMMA OpenCallsAfter ==
    ASSUME NEW a \in Actors, NEW step, NEW mail, NEW to, Becomes(a, step, mail, to), NEW w
    PROVE  OpenCalls(w)' = (OpenCalls(w) \ {a})
                           \cup (IF to = w /\ step \in Open THEN {a} ELSE {})
BY DEF Becomes, OpenCalls

LEMMA CountedAfter ==
    ASSUME NEW a \in Actors, NEW step, NEW mail, NEW to, Becomes(a, step, mail, to)
    PROVE  Counted' = (Counted \ {a})
                      \cup (IF a \in Client /\ step \in Open \cup {"done"} THEN {a} ELSE {})
BY DEF Becomes, Counted, Actors

\* Only clients relay, and they are finitely many.
LEMMA OpenCallsFinite ==
    ASSUME BelowThreshold, QueueInv, NEW w
    PROVE  OpenCalls(w) \subseteq Client /\ IsFiniteSet(OpenCalls(w))
           /\ Cardinality(OpenCalls(w)) \in Nat
<1>1. OpenCalls(w) \subseteq Client
  BY DEF OpenCalls, QueueInv, Actors, Open
<1> QED
  BY <1>1, FS_Subset, FS_CardinalityType DEF BelowThreshold

LEMMA CountedFinite ==
    ASSUME BelowThreshold
    PROVE  IsFiniteSet(Counted) /\ Cardinality(Counted) \in Nat
           /\ Cardinality(Counted) <= Cardinality(Client)
<1>1. Counted \subseteq Client
  BY DEF Counted
<1> QED
  BY <1>1, FS_Subset, FS_CardinalityType DEF BelowThreshold

\* A step that opens and closes no request and changes no load.
LEMMA CountFrame ==
    ASSUME BelowThreshold, TypeInv, CountInv,
           workers' = workers, load' = load, inbox' = inbox, removed' = removed, dead' = dead,
           \A w \in Worker : /\ OpenCalls(w)' = OpenCalls(w)
                             /\ call'[w].step = "settle" <=> call[w].step = "settle",
           Counted \subseteq Counted'
    PROVE  CountInv'
<1>1. IsFiniteSet(Counted') /\ Cardinality(Counted') \in Nat /\ Cardinality(Counted) \in Nat
  <2>1. Counted' \subseteq Client
    BY DEF Counted
  <2> QED
    BY <2>1, CountedFinite, FS_Subset, FS_CardinalityType DEF BelowThreshold
<1>2. Cardinality(Counted) <= Cardinality(Counted')
  BY <1>1, FS_Subset
<1>3. \A w \in ToSet(workers) : load[w] \in Nat /\ w \in Worker
  BY DEF TypeInv, TypeOK, ToSet
<1>4. \A w \in ToSet(workers) : load[w] <= Cardinality(Counted')
  BY <1>1, <1>2, <1>3 DEF CountInv
<1>5. \A w \in Worker : OpenRequests(w)' = OpenRequests(w)
  BY DEF OpenRequests, OpenCalls, Open
<1>6. LoadIsOpenRequests'
  BY <1>3, <1>5 DEF CountInv, LoadIsOpenRequests
<1>7. \A w \in Worker \ (ToSet(workers) \cup removed) : Untouched(w)'
  BY DEF CountInv, Untouched
<1> QED
  BY <1>4, <1>6, <1>7 DEF CountInv

LEMMA QuietCount ==
    ASSUME BelowThreshold, BelowInv,
           NEW a \in Actors, NEW step, NEW mail, NEW to, Becomes(a, step, mail, to),
           workers' = workers, load' = load, inbox' = inbox, removed' = removed, dead' = dead,
           call[a].step \in Open => step \in Open /\ to = call[a].to,
           step \in Open => call[a].step \in Open,
           call[a].step = "done" => step = "done",
           a \in Worker => step # "settle" /\ call[a].step # "settle"
    PROVE  CountInv'
<1>1. \A w : OpenCalls(w)' = OpenCalls(w)
  BY OpenCallsAfter DEF OpenCalls
<1>2. Counted \subseteq Counted'
  BY CountedAfter DEF Counted
<1>3. \A w \in Worker : call'[w].step = "settle" <=> call[w].step = "settle"
  BY DEF Becomes, Actors
<1> QED
  BY <1>1, <1>2, <1>3, CountFrame DEF BelowInv

LEMMA ReplyEmptyBelow ==
    ASSUME BelowThreshold, BelowInv, NEW c \in Client, ReplyEmpty(c)
    PROVE  LockInv' /\ QueueInv' /\ ReadInv' /\ CountInv'
<1> USE DEF BelowInv, TypeInv
<1>1. /\ Becomes(c, "done", call[c].mail, call[c].to) /\ c \in Actors /\ c \notin Worker
      /\ call[c].step = "idle"
  BY Effects, ActorsAssumption DEF Actors, ReplyEmpty
<1>2. /\ workers' = workers /\ load' = load /\ inbox' = inbox /\ removed' = removed
      /\ dead' = dead /\ mails' = mails /\ lock' = lock
  BY DEF ReplyEmpty, outside, workerVars, policyVars
<1>3. LockInv'
  BY <1>1, <1>2, LockFrame DEF Locked
<1>4. QueueInv'
  BY <1>1, <1>2, QueueFrame DEF QueueInv
<1>5. ReadInv'
  BY <1>1, <1>2, ReadFrame
<1>6. CountInv'
  BY <1>1, <1>2, QuietCount DEF Open
<1> QED
  BY <1>3, <1>4, <1>5, <1>6

LEMMA SendBelow ==
    ASSUME BelowThreshold, BelowInv, NEW c \in Client, Send(c)
    PROVE  LockInv' /\ QueueInv' /\ ReadInv' /\ CountInv'
<1> USE DEF BelowInv, TypeInv
<1>1. /\ Becomes(c, "policy", c, Nobody) /\ c \in Actors /\ c \notin Worker
      /\ call[c].step = "idle"
  BY Effects, ActorsAssumption DEF Actors, Send
<1>2. /\ workers' = workers /\ load' = load /\ inbox' = inbox /\ removed' = removed
      /\ dead' = dead /\ mails' = mails /\ lock = Nobody /\ lock' = c
  BY DEF Send, outside, workerVars, policyVars
<1>3. call'[c].metrics = GetMetrics /\ GetMetrics' = GetMetrics
  <2>1. call'[c] = [Start("policy", c) EXCEPT !.metrics = GetMetrics]
    BY <1>1 DEF Send, TypeOK
  <2> QED
    BY <1>2, <2>1 DEF Start, Idle, GetMetrics
<1>4. LockInv'
  BY <1>1, <1>2, LockFrame
<1>5. QueueInv'
  BY <1>1, <1>2, <1>3, QueueFrame DEF QueueInv
<1>6. ReadInv'
  BY <1>1, <1>2, ReadFrame
<1>7. CountInv'
  BY <1>1, <1>2, QuietCount DEF Open
<1> QED
  BY <1>4, <1>5, <1>6, <1>7

LEMMA ReadMetricsBelow ==
    ASSUME BelowThreshold, BelowInv, NEW w \in Worker, ReadMetrics(w)
    PROVE  LockInv' /\ QueueInv' /\ ReadInv' /\ CountInv'
<1> USE DEF BelowInv, TypeInv
<1>1. /\ Becomes(w, "policy", Nobody, Nobody) /\ w \in Actors /\ w \notin Client
      /\ call[w].step = "metrics"
  BY Effects, ActorsAssumption DEF Actors, ReadMetrics
<1>2. /\ workers' = workers /\ load' = load /\ inbox' = inbox /\ removed' = removed
      /\ dead' = dead /\ mails' = mails /\ lock' = lock
  BY DEF ReadMetrics, outside, workerVars, policyVars
<1>3. LockInv'
  BY <1>1, <1>2, LockFrame DEF Locked
<1>4. QueueInv'
  BY <1>1, <1>2, QueueFrame DEF QueueInv
<1>5. ReadInv'
  BY <1>1, <1>2, ReadFrame
<1>6. CountInv'
  BY <1>1, <1>2, QuietCount DEF Open
<1> QED
  BY <1>3, <1>4, <1>5, <1>6

\* The relay of a client that holds the lock: ++load reads, the id, the ticket.
LEMMA RelayBelow ==
    ASSUME BelowThreshold, BelowInv, NEW c \in Client, ReadLoad(c) \/ ReadId(c) \/ PlaceTicket(c)
    PROVE  LockInv' /\ QueueInv' /\ ReadInv' /\ CountInv'
<1> USE DEF BelowInv, TypeInv
<1>1. c \in Actors /\ c \notin Worker /\ call[c] \in Call
  BY ActorsAssumption DEF Actors, TypeOK
<1>2. /\ workers' = workers /\ inbox' = inbox /\ removed' = removed
      /\ dead' = dead /\ mails' = mails /\ (lock' = lock \/ lock' = Unlocked(c))
  BY DEF ReadLoad, ReadId, PlaceTicket, outside, workerVars, policyVars
<1>3. lock = c /\ call[c].step \in Locked
  BY DEF ReadLoad, ReadId, PlaceTicket, LockInv, Locked
<1>4. ReadLoad(c) => call[c].to \in ToSet(workers) /\ call[c].to \in DOMAIN load
  BY DEF ReadInv, ReadLoad, TypeOK
<1>5. load' = load
  BY <1>4 DEF ReadLoad, ReadId, PlaceTicket, Emplace
<1>6. PICK step \in {"count", "ticket", "deliver"} :
        /\ Becomes(c, step, call[c].mail, call[c].to)
        /\ step = "count" <=> ReadLoad(c)
        /\ step = "deliver" <=> PlaceTicket(c)
  <2>1. CASE ReadLoad(c)
    BY <1>1, <2>1, Effects DEF ReadLoad, ReadId, PlaceTicket
  <2>2. CASE ReadId(c)
    BY <1>1, <2>2, Effects DEF ReadLoad, ReadId, PlaceTicket
  <2>3. CASE PlaceTicket(c)
    BY <1>1, <2>3, Effects DEF ReadLoad, ReadId, PlaceTicket
  <2> QED
    BY <2>1, <2>2, <2>3
<1>7. step # "deliver" => lock' = lock
  BY <1>6 DEF ReadLoad, ReadId
<1>8. LockInv'
  BY <1>1, <1>2, <1>3, <1>6, <1>7, LockFrame DEF Locked
<1>9. QueueInv'
  BY <1>1, <1>2, <1>5, <1>6, QueueFrame DEF QueueInv
<1>10. step = "count" => call'[c].read = load'[call[c].to] /\ call[c].to \in ToSet(workers')
  <2> SUFFICES ASSUME ReadLoad(c)
               PROVE  call'[c].read = load'[call[c].to] /\ call[c].to \in ToSet(workers')
    BY <1>6
  <2>1. call'[c] = [call[c] EXCEPT !.step = "count", !.read = LoadOf(call[c].to)]
    BY <1>1 DEF ReadLoad, TypeOK
  <2>2. call'[c].read = LoadOf(call[c].to)
    BY <1>1, <2>1 DEF Call
  <2> QED
    BY <1>2, <1>4, <1>5, <2>2 DEF LoadOf
<1>11. ReadInv'
  BY <1>1, <1>2, <1>5, <1>6, <1>10, ReadFrame
<1>12. CountInv'
  <2>1. step \in Open <=> call[c].step \in Open
    BY <1>6 DEF ReadLoad, ReadId, PlaceTicket, Open
  <2>2. call[c].step # "done"
    BY <1>3 DEF Locked
  <2> QED
    BY <1>1, <1>2, <1>5, <1>6, <2>1, <2>2, QuietCount
<1> QED
  BY <1>8, <1>9, <1>11, <1>12

\* A client's call finds a load below the threshold: it hands its mail out to one of
\* the workers.  A worker's call finds nothing to do.
LEMMA PolicyBelow ==
    ASSUME BelowThreshold, BelowInv, NEW a \in Actors, Policy(a)
    PROVE  /\ call[a].step = "policy" /\ mails' = <<>>
           /\ \/ a \in Worker /\ Becomes(a, "idle", Nobody, Nobody)
              \/ /\ a \in Client
                 /\ \E w \in ToSet(workers) : Becomes(a, "load", call[a].mail, w)
<1> USE DEF BelowInv, TypeInv
<1>1. call[a].step = "policy" /\ call[a] \in Call /\ mails = <<>>
  BY DEF Policy, TypeOK, QueueInv
<1>2. CASE call[a].mail = Nobody
  <2>1. PolicyIdle(a)
    <3>1. NothingToDo(a)
      BY <1>1, <1>2 DEF NothingToDo
    <3> QED
      BY <3>1 DEF Policy, PolicyIdle, policyVars
  <2>2. Becomes(a, Ended(a), Nobody, Nobody) /\ mails' = mails
    BY <2>1, Effects DEF PolicyIdle
  <2>3. a \notin Client
    BY <1>1, <1>2, NobodyAssumption DEF QueueInv
  <2> QED
    BY <1>1, <2>2, <2>3 DEF Ended, Actors
<1>3. CASE call[a].mail # Nobody
  <2>1. a \in Client /\ call[a].metrics = GetMetrics
    BY <1>1, <1>3 DEF QueueInv, Actors
  <2> DEFINE metrics == call[a].metrics
             n == Len(metrics)
  <2>2. n = Len(workers) /\ n \in Nat /\ \A i \in 1..n : metrics[i] = load[workers[i]]
    BY <2>1 DEF GetMetrics, TypeOK
  <2>3. \A w \in ToSet(workers) : load[w] \in Nat /\ load[w] < Threshold
    <3>1. Cardinality(Counted) < Cardinality(Client) /\ Cardinality(Counted) \in Nat
      <4>1. Counted \subseteq Client \ {a}
        BY <1>1 DEF Counted, Open
      <4>2. Cardinality(Client \ {a}) = Cardinality(Client) - 1 /\ IsFiniteSet(Client \ {a})
            /\ Cardinality(Client) \in Nat
        BY <2>1, FS_RemoveElement, FS_CardinalityType DEF BelowThreshold
      <4>3. Cardinality(Counted) <= Cardinality(Client \ {a})
        BY <4>1, <4>2, FS_Subset
      <4>4. Cardinality(Counted) \in Nat
        BY CountedFinite
      <4> QED
        BY <4>2, <4>3, <4>4
    <3>2. Cardinality(Client) <= Threshold /\ Threshold \in Nat /\ Cardinality(Client) \in Nat
      <4>1. Cardinality(Client) \in Nat
        BY FS_CardinalityType DEF BelowThreshold
      <4>2. Threshold \in Nat
        BY SizeAssumption
      <4> QED
        BY <4>1, <4>2 DEF BelowThreshold
    <3>3. \A w \in ToSet(workers) : load[w] \in Nat /\ load[w] <= Cardinality(Counted)
      BY DEF CountInv, TypeOK
    <3> QED
      BY <3>1, <3>2, <3>3
  <2>4. ~NothingToDo(a)
    BY <1>3 DEF NothingToDo
  <2>5. PICK selected \in 0..(n - 1) :
          /\ rotated' = Pivot(n)
          /\ IF Rotated(metrics, selected) >= Threshold
             THEN TRUE
             ELSE /\ mails' = Release(call[a].mail).rest
                  /\ call' = [call EXCEPT
                        ![a].step = "load",
                        ![a].mail = Release(call[a].mail).first,
                        ![a].to = workers[((rotated' + selected) % Len(workers)) + 1]]
    BY <2>4 DEF Policy
  <2>6. \A x \in Int : x % n \in 0..(n - 1)
    <3>1. n \in Nat \ {0}
      BY <2>2, <2>5
    <3>2. \A x \in Int : \A m \in Nat \ {0} : x % m \in 0..(m - 1)
      BY SMT
    <3> QED
      BY <3>1, <3>2
  <2>7. Pivot(n) \in 0..(n - 1)
    <3>1. ((rotated + 1) % (SizeMax + 1)) \in Int
      BY SizeAssumption DEF TypeOK
    <3> QED
      BY <2>6, <3>1 DEF Pivot
  <2>8. PICK k \in 1..n : k = ((Pivot(n) + selected) % n) + 1
    <3>1. Pivot(n) + selected \in Int
      BY <2>2, <2>7
    <3>2. (Pivot(n) + selected) % n \in 0..(n - 1)
      BY <2>6, <3>1
    <3> QED
      BY <2>2, <3>2
  <2>9. workers[k] \in ToSet(workers)
    BY <2>2, <2>8 DEF ToSet, TypeOK
  <2>10. ~(Rotated(metrics, selected) >= Threshold)
    <3>1. Rotated(metrics, selected) = metrics[k]
      BY <2>8 DEF Rotated
    <3>2. metrics[k] < Threshold /\ metrics[k] \in Nat
      BY <2>2, <2>3, <2>8, <2>9
    <3> QED
      BY <3>1, <3>2, SizeAssumption
  <2>11. Release(call[a].mail).rest = <<>> /\ Release(call[a].mail).first = call[a].mail
    <3>1. Hold(call[a].mail) = Append(<<>>, call[a].mail)
      BY <1>1, <1>3 DEF Hold
    <3> QED
      BY <3>1 DEF Release
  <2>12. call' = [call EXCEPT ![a].step = "load", ![a].mail = call[a].mail, ![a].to = workers[k]]
    BY <2>2, <2>5, <2>8, <2>10, <2>11
  <2>13. Becomes(a, "load", call[a].mail, workers[k])
    BY <1>1, <2>12 DEF Becomes, TypeOK, Call
  <2> QED
    BY <1>1, <2>1, <2>5, <2>9, <2>10, <2>11, <2>13
<1> QED
  BY <1>2, <1>3

LEMMA PolicyKeepsBelow ==
    ASSUME BelowThreshold, BelowInv, NEW a \in Actors, Policy(a)
    PROVE  LockInv' /\ QueueInv' /\ ReadInv' /\ CountInv'
<1> USE DEF BelowInv, TypeInv
<1>1. /\ workers' = workers /\ load' = load /\ inbox' = inbox /\ removed' = removed
      /\ dead' = dead /\ mails' = <<>> /\ call[a].step = "policy"
  BY PolicyBelow DEF Policy, workerVars
<1>2. /\ lock' = lock \/ lock' = Unlocked(a)
      /\ call'[a].step = "load" => lock' = lock
  <2>1. call'[a] = Finished(a) \/ lock' = lock
    BY DEF Policy, TypeOK
  <2>2. Finished(a).step # "load"
    BY DEF Finished, Idle
  <2>3. lock' = lock \/ lock' = Unlocked(a)
    BY DEF Policy
  <2> QED
    BY <2>1, <2>2, <2>3
<1>3. lock' = lock \/ lock = a
  BY <1>2 DEF Unlocked
<1>4. CASE a \in Worker /\ Becomes(a, "idle", Nobody, Nobody)
  <2>1. a \notin Client
    BY <1>4, ActorsAssumption
  <2>2. LockInv'
    BY <1>1, <1>3, <1>4, <2>1, LockFrame
  <2>3. QueueInv'
    BY <1>1, <1>4, <2>1, QueueFrame
  <2>4. ReadInv'
    BY <1>1, <1>4, <2>1, ReadFrame
  <2>5. CountInv'
    BY <1>1, <1>4, QuietCount DEF Open
  <2> QED
    BY <2>2, <2>3, <2>4, <2>5
<1>5. ASSUME a \in Client, NEW w \in ToSet(workers), Becomes(a, "load", call[a].mail, w)
      PROVE  LockInv' /\ QueueInv' /\ ReadInv' /\ CountInv'
  <2>1. a \notin Worker /\ lock = a /\ lock' = lock
    BY <1>1, <1>2, <1>5, ActorsAssumption DEF LockInv, Locked, Becomes
  <2>2. LockInv'
    BY <1>1, <1>5, <2>1, LockFrame
  <2>3. QueueInv'
    BY <1>1, <1>5, <2>1, QueueFrame
  <2>4. ReadInv'
    BY <1>1, <1>5, <2>1, ReadFrame
  <2>5. CountInv'
    BY <1>1, <1>5, <2>1, QuietCount DEF Open
  <2> QED
    BY <2>2, <2>3, <2>4, <2>5
<1> QED
  BY <1>4, <1>5, PolicyBelow

\* ++load writes back what it read and one more, under the lock: the request of c
\* counts from now on.
LEMMA WriteLoadBelow ==
    ASSUME BelowThreshold, BelowInv, NEW c \in Client, WriteLoad(c)
    PROVE  LockInv' /\ QueueInv' /\ ReadInv' /\ CountInv'
<1> USE DEF BelowInv, TypeInv
<1>1. /\ Becomes(c, "id", call[c].mail, call[c].to) /\ c \in Actors /\ c \notin Worker
      /\ call[c].step = "count" /\ lock = c
  BY Effects, ActorsAssumption DEF Actors, WriteLoad, LockInv, Locked
<1>2. /\ workers' = workers /\ inbox' = inbox /\ removed' = removed
      /\ dead' = dead /\ mails' = mails /\ lock' = lock
  BY DEF WriteLoad, outside, workerVars, policyVars
<1>3. PICK w \in ToSet(workers) : w = call[c].to /\ call[c].read = load[w]
  BY <1>1 DEF ReadInv
<1>4. w \in Worker /\ w \in DOMAIN load /\ load[w] \in Nat /\ c \notin Counted
  BY <1>1 DEF TypeOK, ToSet, Counted, Open
<1>5. /\ Counted' = Counted \cup {c} /\ Cardinality(Counted') = Cardinality(Counted) + 1
      /\ Cardinality(Counted) \in Nat /\ Cardinality(Counted') <= SizeMax
  <2>1. Counted' = Counted \cup {c}
    BY <1>1, <1>4, CountedAfter DEF Open
  <2>2. Cardinality(Counted') = Cardinality(Counted) + 1 /\ Cardinality(Counted) \in Nat
    BY <1>4, <2>1, CountedFinite, FS_AddElement
  <2>3. Cardinality(Counted') <= Cardinality(Client) /\ Cardinality(Client) \in Nat
    <3>1. Counted' \subseteq Client
      BY DEF Counted
    <3> QED
      BY <3>1, FS_Subset, FS_CardinalityType DEF BelowThreshold
  <2>4. /\ Cardinality(Client) <= Threshold /\ Threshold <= SizeMax
        /\ Threshold \in Nat /\ SizeMax \in Nat
    <3>1. Cardinality(Client) <= Threshold
      BY DEF BelowThreshold
    <3>2. Threshold <= SizeMax /\ Threshold \in Nat /\ SizeMax \in Nat
      BY SizeAssumption
    <3> QED
      BY <3>1, <3>2
  <2>5. Cardinality(Counted') <= SizeMax
    <3>1. Cardinality(Counted') \in Nat
      BY <2>2
    <3> QED
      BY <2>3, <2>4, <3>1
  <2> QED
    BY <2>1, <2>2, <2>5
<1>6. /\ DOMAIN load' = DOMAIN load /\ load'[w] = load[w] + 1
      /\ \A v \in DOMAIN load \ {w} : load'[v] = load[v]
  <2>1. load' = [load EXCEPT ![w] = (load[w] + 1) % (SizeMax + 1)]
    BY <1>3, <1>4 DEF WriteLoad
  <2>2. load[w] <= Cardinality(Counted)
    BY DEF CountInv
  <2>3. (load[w] + 1) % (SizeMax + 1) = load[w] + 1
    BY <1>4, <1>5, <2>2, SizeAssumption
  <2> QED
    BY <1>4, <2>1, <2>3
<1>7. LockInv'
  BY <1>1, <1>2, LockFrame
<1>8. /\ \A d \in Client \ {c} : call[d].step \notin Locked
      /\ \A v \in Worker \ {c} : call[v].step # "settle"
  BY <1>1, LockExcludes
<1>9. QueueInv'
  <2>1. \A d \in Client \ {c} : call[d].step # "policy"
    BY <1>8 DEF Locked
  <2> QED
    BY <1>1, <1>2, <2>1, QueueFrame DEF QueueInv
<1>10. ReadInv'
  BY <1>1, <1>2, <1>8, ReadFrame
<1>11. OpenCalls(w)' = OpenCalls(w) \cup {c} /\ c \notin OpenCalls(w)
       /\ \A v \in Worker \ {w} : OpenCalls(v)' = OpenCalls(v)
  <2>1. \A v : c \notin OpenCalls(v)
    BY <1>1 DEF OpenCalls, Open
  <2>2. \A v : OpenCalls(v)' = (OpenCalls(v) \ {c})
                               \cup (IF call[c].to = v /\ "id" \in Open THEN {c} ELSE {})
    BY <1>1, OpenCallsAfter
  <2> QED
    BY <1>3, <2>1, <2>2 DEF Open
<1>12. \A v \in Worker : (call'[v].step = "settle" <=> call[v].step = "settle")
  BY <1>1 DEF Becomes, Actors
<1>13. \A v \in ToSet(workers) : load'[v] <= Cardinality(Counted')
  <2>1. \A v \in ToSet(workers) : v \in DOMAIN load /\ load[v] \in Nat /\ load[v] <= Cardinality(Counted)
    BY DEF CountInv, TypeOK
  <2> QED
    BY <1>4, <1>5, <1>6, <2>1
<1>14. \A v \in Worker \ (ToSet(workers) \cup removed) : Untouched(v)'
  BY <1>2, <1>3, <1>6, <1>11, <1>12 DEF CountInv, Untouched
<1>15. ASSUME NEW v \in ToSet(workers) \ (removed \cup dead) PROVE load'[v] = OpenRequests(v)'
  <2>1. load[v] = OpenRequests(v) /\ v \in Worker /\ v \in DOMAIN load
    BY <1>15 DEF CountInv, LoadIsOpenRequests, TypeOK, ToSet
  <2>2. OpenRequests(v) = Len(inbox[v]) + Cardinality(OpenCalls(v))
                          + (IF call[v].step = "settle" THEN 1 ELSE 0)
    BY DEF OpenRequests, OpenCalls, Open
  <2>3. OpenRequests(v)' = Len(inbox[v]) + Cardinality(OpenCalls(v)')
                           + (IF call[v].step = "settle" THEN 1 ELSE 0)
    BY <1>2, <1>12, <2>1 DEF OpenRequests, OpenCalls, Open
  <2>4. CASE v = w
    <3>1. Cardinality(OpenCalls(w)') = Cardinality(OpenCalls(w)) + 1
          /\ Cardinality(OpenCalls(w)) \in Nat
      BY <1>11, OpenCallsFinite, FS_AddElement
    <3>2. Len(inbox[v]) \in Nat
      BY <2>1 DEF TypeOK
    <3> QED
      BY <1>6, <2>1, <2>2, <2>3, <2>4, <3>1, <3>2
  <2>5. CASE v # w
    BY <1>6, <1>11, <2>1, <2>2, <2>3, <2>5
  <2> QED
    BY <2>4, <2>5
<1>16. CountInv'
  BY <1>2, <1>13, <1>14, <1>15 DEF CountInv, LoadIsOpenRequests
<1> QED
  BY <1>7, <1>9, <1>10, <1>16

\* The request goes from the call into the inbox of its worker.
LEMMA DeliverBelow ==
    ASSUME BelowThreshold, BelowInv, NEW c \in Client, Deliver(c)
    PROVE  LockInv' /\ QueueInv' /\ ReadInv' /\ CountInv'
<1> USE DEF BelowInv, TypeInv
<1>1. /\ Becomes(c, "done", Nobody, Nobody) /\ c \in Actors /\ c \notin Worker
      /\ call[c].step = "deliver"
  BY Effects, ActorsAssumption DEF Actors, Deliver, Ended
<1>2. /\ workers' = workers /\ load' = load /\ removed' = removed
      /\ dead' = dead /\ mails' = mails /\ lock' = lock
  BY DEF Deliver, outside, workerVars, policyVars
<1>3. LockInv'
  BY <1>1, <1>2, LockFrame DEF Locked
<1>4. QueueInv'
  BY <1>1, <1>2, QueueFrame DEF QueueInv
<1>5. ReadInv'
  BY <1>1, <1>2, ReadFrame
<1>6. PICK w \in Worker, request \in Mail :
        /\ w = call[c].to
        /\ inbox' = IF w \in dead THEN inbox ELSE [inbox EXCEPT ![w] = Append(@, request)]
  <2>1. call[c].to \in Worker /\ [id |-> call[c].id, mail |-> call[c].mail] \in Mail
    BY <1>1 DEF TypeOK, RelaysMail, Relaying, Mail, Call
  <2> QED
    BY <2>1 DEF Deliver
<1>7. Counted' = Counted
  BY <1>1, CountedAfter DEF Counted, Open
<1>8. OpenCalls(w)' = OpenCalls(w) \ {c} /\ c \in OpenCalls(w)
      /\ \A v \in Worker \ {w} : OpenCalls(v)' = OpenCalls(v)
  <2>1. \A v : OpenCalls(v)' = OpenCalls(v) \ {c}
    BY <1>1, OpenCallsAfter DEF Open
  <2> QED
    BY <1>1, <1>6, <2>1 DEF OpenCalls, Open
<1>9. \A v \in Worker : call'[v].step = "settle" <=> call[v].step = "settle"
  BY <1>1 DEF Becomes, Actors
<1>10. \A v \in Worker \ {w} : inbox'[v] = inbox[v]
  BY <1>6 DEF TypeOK
<1>11. \A v \in Worker \ (ToSet(workers) \cup removed) : Untouched(v)'
  BY <1>2, <1>8, <1>9, <1>10 DEF CountInv, Untouched
<1>12. ASSUME NEW v \in ToSet(workers) \ (removed \cup dead) PROVE load[v] = OpenRequests(v)'
  <2>1. load[v] = OpenRequests(v) /\ v \in Worker
    BY <1>12 DEF CountInv, LoadIsOpenRequests, TypeOK, ToSet
  <2>2. OpenRequests(v) = Len(inbox[v]) + Cardinality(OpenCalls(v))
                          + (IF call[v].step = "settle" THEN 1 ELSE 0)
    BY DEF OpenRequests, OpenCalls, Open
  <2>3. OpenRequests(v)' = Len(inbox'[v]) + Cardinality(OpenCalls(v)')
                           + (IF call[v].step = "settle" THEN 1 ELSE 0)
    BY <1>9, <2>1 DEF OpenRequests, OpenCalls, Open
  <2>4. CASE v = w
    <3>1. Cardinality(OpenCalls(w)') = Cardinality(OpenCalls(w)) - 1
          /\ Cardinality(OpenCalls(w)) \in Nat
      BY <1>8, OpenCallsFinite, FS_RemoveElement
    <3>2. inbox'[w] = Append(inbox[w], request) /\ inbox[w] \in Seq(Mail)
      BY <1>6, <1>12, <2>4 DEF TypeOK
    <3>3. Len(inbox'[w]) = Len(inbox[w]) + 1 /\ Len(inbox[w]) \in Nat
      BY <3>2
    <3> QED
      BY <2>1, <2>2, <2>3, <2>4, <3>1, <3>3
  <2>5. CASE v # w
    BY <1>8, <1>10, <2>1, <2>2, <2>3, <2>5
  <2> QED
    BY <2>4, <2>5
<1>13. CountInv'
  BY <1>2, <1>7, <1>11, <1>12 DEF CountInv, LoadIsOpenRequests
<1> QED
  BY <1>3, <1>4, <1>5, <1>13

\* The request goes from the inbox to the worker, which takes the lock.
LEMMA AnswerBelow ==
    ASSUME BelowThreshold, BelowInv, NEW w \in Worker, Answer(w)
    PROVE  LockInv' /\ QueueInv' /\ ReadInv' /\ CountInv'
<1> USE DEF BelowInv, TypeInv
<1>1. /\ Becomes(w, "settle", Head(inbox[w]).mail, Nobody) /\ w \in Actors /\ w \notin Client
      /\ call[w].step = "idle"
  BY Effects, ActorsAssumption DEF Actors, Answer
<1>2. /\ workers' = workers /\ removed' = removed /\ dead' = dead /\ mails' = mails
      /\ lock = Nobody /\ lock' = w /\ w \notin dead /\ load' = Emplace(load, w, 0)
  BY DEF Answer, outside, workerVars, policyVars
<1>3. /\ \A c \in Client \ {w} : call[c].step \notin Locked
      /\ \A v \in Worker \ {w} : call[v].step # "settle"
  BY <1>2, LockExcludes
<1>4. LockInv'
  BY <1>1, <1>2, LockFrame
<1>5. QueueInv'
  <2>1. \A c \in Client \ {w} : call[c].step # "policy"
    BY <1>3 DEF Locked
  <2> QED
    BY <1>1, <1>2, <2>1, QueueFrame DEF QueueInv
<1>6. /\ w \in DOMAIN load' /\ load'[w] = LoadOf(w)
      /\ \A v \in DOMAIN load : v \in DOMAIN load' /\ load'[v] = load[v]
      /\ \A v \in DOMAIN load' \ {w} : v \in DOMAIN load
  BY <1>2 DEF Emplace, Set, LoadOf
<1>7. ReadInv'
  <2>1. call'[w] = [Start("settle", Head(inbox[w]).mail) EXCEPT
                       !.read = LoadOf(w), !.id = Head(inbox[w]).id]
    BY <1>1 DEF Answer, TypeOK
  <2>2. call'[w].read = LoadOf(w)
    BY <2>1 DEF Start, Idle
  <2> QED
    BY <1>1, <1>3, <1>6, <2>2, ReadFrame
<1>8. Counted' = Counted
  BY <1>1, CountedAfter DEF Counted
<1>9. \A v : OpenCalls(v)' = OpenCalls(v)
  <2>1. \A v : w \notin OpenCalls(v) /\ OpenCalls(v)' = OpenCalls(v) \ {w}
    BY <1>1, OpenCallsAfter DEF OpenCalls, Open
  <2> QED
    BY <2>1
<1>10. call'[w].step = "settle" /\ \A v \in Worker \ {w} : call'[v] = call[v]
  BY <1>1 DEF Becomes, Actors
<1>11. /\ inbox'[w] = Tail(inbox[w]) /\ inbox[w] \in Seq(Mail) /\ inbox[w] # <<>>
       /\ \A v \in Worker \ {w} : inbox'[v] = inbox[v]
  BY DEF Answer, TypeOK
<1>12. \A v \in Worker \ (ToSet(workers) \cup removed) : Untouched(v)'
  <2> SUFFICES ASSUME NEW v \in Worker \ (ToSet(workers) \cup removed) PROVE Untouched(v)'
    OBVIOUS
  <2>1. Untouched(v)
    BY DEF CountInv
  <2>2. v # w
    BY <1>11, <2>1 DEF Untouched
  <2> QED
    BY <1>6, <1>9, <1>10, <1>11, <2>1, <2>2 DEF Untouched
<1>13. ASSUME NEW v \in ToSet(workers)
       PROVE  v \in Worker /\ v \in DOMAIN load /\ load'[v] = load[v]
  BY <1>6 DEF TypeOK, ToSet
<1>14. ASSUME NEW v \in ToSet(workers) \ (removed \cup dead) PROVE load[v] = OpenRequests(v)'
  <2>1. load[v] = OpenRequests(v) /\ v \in Worker
    BY <1>13 DEF CountInv, LoadIsOpenRequests
  <2>2. OpenRequests(v) = Len(inbox[v]) + Cardinality(OpenCalls(v))
                          + (IF call[v].step = "settle" THEN 1 ELSE 0)
    BY DEF OpenRequests, OpenCalls, Open
  <2>3. OpenRequests(v)' = Len(inbox'[v]) + Cardinality(OpenCalls(v))
                           + (IF call'[v].step = "settle" THEN 1 ELSE 0)
    BY <1>9 DEF OpenRequests, OpenCalls, Open
  <2>4. CASE v = w
    <3>1. Len(inbox'[w]) = Len(inbox[w]) - 1 /\ Len(inbox[w]) \in Nat
      BY <1>11
    <3>2. Cardinality(OpenCalls(w)) \in Nat
      BY OpenCallsFinite
    <3> QED
      BY <1>1, <1>10, <2>1, <2>2, <2>3, <2>4, <3>1, <3>2
  <2>5. CASE v # w
    BY <1>10, <1>11, <2>1, <2>2, <2>3, <2>5
  <2> QED
    BY <2>4, <2>5
<1>15. CountInv'
  BY <1>2, <1>8, <1>12, <1>13, <1>14 DEF CountInv, LoadIsOpenRequests
<1> QED
  BY <1>4, <1>5, <1>7, <1>15

\* --load writes back what it read less one: it is at least 1 for a worker that is
\* still behind the router, so it does not wrap.
LEMMA SettleBelow ==
    ASSUME BelowThreshold, BelowInv, NEW w \in Worker, Settle(w)
    PROVE  LockInv' /\ QueueInv' /\ ReadInv' /\ CountInv'
<1> USE DEF BelowInv, TypeInv
<1>1. /\ Becomes(w, "metrics", Nobody, Nobody) /\ w \in Actors /\ w \notin Client
      /\ call[w].step = "settle" /\ lock = w /\ w \notin dead
      /\ w \in DOMAIN load /\ call[w].read = load[w]
  BY Effects, ActorsAssumption DEF Actors, Settle, LockInv, ReadInv
<1>2. /\ workers' = workers /\ inbox' = inbox /\ removed' = removed /\ dead' = dead
      /\ mails' = mails /\ lock' = Nobody
      /\ load' = [load EXCEPT ![w] = (load[w] - 1) % (SizeMax + 1)]
  BY <1>1 DEF Settle, outside, workerVars, policyVars
<1>3. /\ \A c \in Client \ {w} : call[c].step \notin Locked
      /\ \A v \in Worker \ {w} : call[v].step # "settle"
  BY <1>1, LockExcludes
<1>4. LockInv'
  BY <1>1, <1>2, LockFrame
<1>5. QueueInv'
  <2>1. \A c \in Client \ {w} : call[c].step # "policy"
    BY <1>3 DEF Locked
  <2> QED
    BY <1>1, <1>2, <2>1, QueueFrame DEF QueueInv
<1>6. ReadInv'
  BY <1>1, <1>3, ReadFrame
<1>7. Counted' = Counted
  BY <1>1, CountedAfter DEF Counted
<1>8. \A v : OpenCalls(v)' = OpenCalls(v)
  <2>1. \A v : w \notin OpenCalls(v) /\ OpenCalls(v)' = OpenCalls(v) \ {w}
    BY <1>1, OpenCallsAfter DEF OpenCalls, Open
  <2> QED
    BY <2>1
<1>9. call'[w].step = "metrics" /\ \A v \in Worker \ {w} : call'[v] = call[v]
  BY <1>1 DEF Becomes, Actors
<1>10. DOMAIN load' = DOMAIN load /\ \A v \in DOMAIN load \ {w} : load'[v] = load[v]
  BY <1>2
<1>11. ASSUME NEW v \in ToSet(workers) \ (removed \cup dead)
       PROVE  load'[v] = OpenRequests(v)' /\ load'[v] \in Nat /\ load'[v] <= load[v]
  <2>1. load[v] = OpenRequests(v) /\ v \in Worker /\ v \in DOMAIN load /\ load[v] \in 0..SizeMax
    BY <1>11 DEF CountInv, LoadIsOpenRequests, TypeOK, ToSet
  <2>2. OpenRequests(v) = Len(inbox[v]) + Cardinality(OpenCalls(v))
                          + (IF call[v].step = "settle" THEN 1 ELSE 0)
    BY DEF OpenRequests, OpenCalls, Open
  <2>3. OpenRequests(v)' = Len(inbox[v]) + Cardinality(OpenCalls(v))
                           + (IF call'[v].step = "settle" THEN 1 ELSE 0)
    BY <1>2, <1>8 DEF OpenRequests, OpenCalls, Open
  <2>4. SizeMax \in Nat
    BY SizeAssumption
  <2>5. CASE v = w
    <3>1. Len(inbox[w]) \in Nat
      BY DEF TypeOK
    <3>2. Cardinality(OpenCalls(w)) \in Nat
      BY OpenCallsFinite
    <3>3. OpenRequests(w) = Len(inbox[w]) + Cardinality(OpenCalls(w)) + 1
          /\ OpenRequests(w)' = Len(inbox[w]) + Cardinality(OpenCalls(w))
      BY <1>1, <1>9, <2>2, <2>3, <2>5, <3>1, <3>2
    <3>4. load[w] - 1 = OpenRequests(w)' /\ load[w] - 1 \in 0..SizeMax
      BY <2>1, <2>4, <2>5, <3>1, <3>2, <3>3
    <3>5. (load[w] - 1) % (SizeMax + 1) = load[w] - 1
      BY <2>4, <3>4
    <3>6. load'[w] = load[w] - 1
      BY <1>1, <1>2, <3>5
    <3> QED
      BY <2>1, <2>4, <2>5, <3>4, <3>6
  <2>6. CASE v # w
    <3>1. load'[v] = load[v] /\ OpenRequests(v)' = OpenRequests(v)
      BY <1>9, <1>10, <2>1, <2>2, <2>3, <2>6
    <3> QED
      BY <2>1, <2>4, <3>1
  <2> QED
    BY <2>5, <2>6
<1>12. ASSUME NEW v \in ToSet(workers) PROVE load'[v] <= Cardinality(Counted)
  <2>1. load[v] <= Cardinality(Counted) /\ load[v] \in Nat /\ v \in DOMAIN load
        /\ v \notin removed
    BY DEF CountInv, TypeOK
  <2>2. CASE v = w
    <3>1. load'[v] \in Nat /\ load'[v] <= load[v]
      BY <1>1, <1>11, <2>1, <2>2
    <3>2. Cardinality(Counted) \in Nat
      BY CountedFinite
    <3> QED
      BY <2>1, <3>1, <3>2
  <2>3. CASE v # w
    BY <1>10, <2>1, <2>3
  <2> QED
    BY <2>2, <2>3
<1>13. \A v \in Worker \ (ToSet(workers) \cup removed) : Untouched(v)'
  <2> SUFFICES ASSUME NEW v \in Worker \ (ToSet(workers) \cup removed) PROVE Untouched(v)'
    OBVIOUS
  <2>1. Untouched(v) /\ v # w
    BY <1>1 DEF CountInv, Untouched
  <2> QED
    BY <1>2, <1>8, <1>9, <1>10, <2>1 DEF Untouched
<1>14. CountInv'
  BY <1>2, <1>7, <1>11, <1>12, <1>13 DEF CountInv, LoadIsOpenRequests
<1> QED
  BY <1>4, <1>5, <1>6, <1>14

\* Commands find the lock free: then no call is between a read and the write back.
LEMMA FreeLock ==
    ASSUME LockInv, lock = Nobody
    PROVE  /\ \A c \in Client : call[c].step \notin Locked
           /\ \A w \in Worker : call[w].step # "settle"
BY NobodyAssumption DEF LockInv

LEMMA FreeBelow ==
    ASSUME BelowInv, lock = Nobody, call' = call, mails' = mails, lock' = lock
    PROVE  LockInv' /\ QueueInv' /\ ReadInv'
<1>1. /\ \A c \in Client : call[c].step \notin Locked
      /\ \A w \in Worker : call[w].step # "settle"
  BY FreeLock DEF BelowInv
<1>2. LockInv'
  BY <1>1 DEF LockInv
<1>3. QueueInv'
  BY <1>1 DEF BelowInv, QueueInv, Locked
<1>4. ReadInv'
  BY <1>1 DEF ReadInv, Locked
<1> QED
  BY <1>2, <1>3, <1>4

\* A worker that is put behind the router was never there, and starts with a load of 0.
LEMMA AddWorkerBelow ==
    ASSUME BelowThreshold, BelowInv, NEW w \in Worker, AddWorker(w)
    PROVE  LockInv' /\ QueueInv' /\ ReadInv' /\ CountInv'
<1> USE DEF BelowInv, TypeInv
<1>1. /\ lock = Nobody /\ w \notin dead \cup ToSet(workers) /\ w \notin removed
      /\ workers' = Append(workers, w) /\ load' = Emplace(load, w, 0)
  BY DEF AddWorker, Command, BelowThreshold
<1>2. /\ call' = call /\ mails' = mails /\ lock' = lock /\ inbox' = inbox
      /\ removed' = removed /\ dead' = dead
  BY DEF AddWorker, inside, policyVars
<1>3. LockInv' /\ QueueInv' /\ ReadInv'
  BY <1>1, <1>2, FreeBelow
<1>4. ToSet(workers') = ToSet(workers) \cup {w}
  BY <1>1, AppendFacts DEF TypeOK
<1>5. Untouched(w)
  BY <1>1 DEF CountInv
<1>6. DOMAIN load' = DOMAIN load \cup {w} /\ load'[w] = 0
      /\ \A v \in DOMAIN load : load'[v] = load[v]
  BY <1>1, <1>5 DEF Emplace, Set, Untouched
<1>7. Counted' = Counted /\ (\A v : OpenCalls(v)' = OpenCalls(v))
      /\ \A v : OpenRequests(v)' = OpenRequests(v)
  BY <1>2 DEF Counted, OpenCalls, OpenRequests
<1>8. OpenRequests(w) = 0
  <2>1. OpenRequests(w) = Len(inbox[w]) + Cardinality(OpenCalls(w))
                          + (IF call[w].step = "settle" THEN 1 ELSE 0)
    BY DEF OpenRequests, OpenCalls, Open
  <2>2. Len(inbox[w]) = 0 /\ Cardinality(OpenCalls(w)) = 0 /\ call[w].step # "settle"
    BY <1>5, FS_EmptySet DEF Untouched
  <2> QED
    BY <2>1, <2>2
<1>9. \A v \in ToSet(workers) : v \in DOMAIN load /\ load'[v] = load[v]
  BY <1>6 DEF TypeOK
<1>10. \A v \in ToSet(workers') : load'[v] <= Cardinality(Counted')
  <2>1. Cardinality(Counted) \in Nat
    BY CountedFinite
  <2> QED
    BY <1>4, <1>6, <1>7, <1>9, <2>1 DEF CountInv
<1>11. \A v \in Worker \ (ToSet(workers') \cup removed') : Untouched(v)'
  BY <1>2, <1>4, <1>6, <1>7 DEF CountInv, Untouched
<1>12. LoadIsOpenRequests'
  BY <1>2, <1>4, <1>6, <1>7, <1>8, <1>9 DEF CountInv, LoadIsOpenRequests
<1> QED
  BY <1>1, <1>2, <1>3, <1>4, <1>10, <1>11, <1>12 DEF CountInv

\* A command or a down message that takes workers out leaves the load of the others.
LEMMA ShrinkBelow ==
    ASSUME BelowInv, lock = Nobody, UNCHANGED <<inside, inbox, dead>>,
           ToSet(workers') \subseteq ToSet(workers),
           removed' = removed \cup (ToSet(workers) \ ToSet(workers')),
           DOMAIN load' \subseteq DOMAIN load,
           \A w \in ToSet(workers') : load'[w] = load[w]
    PROVE  LockInv' /\ QueueInv' /\ ReadInv' /\ CountInv'
<1> USE DEF BelowInv
<1>1. call' = call /\ mails' = mails /\ lock' = lock
  BY DEF inside, policyVars
<1>2. LockInv' /\ QueueInv' /\ ReadInv'
  BY <1>1, FreeBelow
<1>3. Counted' = Counted /\ (\A v : OpenCalls(v)' = OpenCalls(v))
      /\ \A v : OpenRequests(v)' = OpenRequests(v)
  BY <1>1 DEF Counted, OpenCalls, OpenRequests
<1>4. \A v \in ToSet(workers') : load'[v] <= Cardinality(Counted')
  BY <1>3 DEF CountInv
<1>5. \A v \in Worker \ (ToSet(workers') \cup removed') : Untouched(v)'
  BY <1>1, <1>3 DEF CountInv, Untouched
<1>6. LoadIsOpenRequests'
  BY <1>3 DEF CountInv, LoadIsOpenRequests
<1>7. ToSet(workers') \cap removed' = {}
  BY DEF CountInv
<1> QED
  BY <1>2, <1>4, <1>5, <1>6, <1>7 DEF CountInv

LEMMA TakeOutBelow ==
    ASSUME BelowInv, lock = Nobody, UNCHANGED <<inside, inbox, dead>>, NEW w, TakeOut(w)
    PROVE  LockInv' /\ QueueInv' /\ ReadInv' /\ CountInv'
<1>1. PICK i \in DOMAIN workers : workers[i] = w /\ workers' = RemoveAt(workers, i)
  BY DEF TakeOut
<1>2. ToSet(workers') = ToSet(workers) \ {w} /\ w \in ToSet(workers)
  <2>1. workers \in Seq(Worker) /\ IsInjective(workers)
    BY DEF BelowInv, TypeInv, TypeOK
  <2>2. ToSet(RemoveAt(workers, i)) = ToSet(workers) \ {workers[i]}
    BY <2>1, RemoveAtFacts
  <2> QED
    BY <1>1, <2>2 DEF ToSet
<1>3. /\ removed' = removed \cup {w} /\ DOMAIN load' = DOMAIN load \ {w}
      /\ \A v \in DOMAIN load \ {w} : load'[v] = load[v]
  BY DEF TakeOut, Without
<1>4. \A v \in ToSet(workers') : v \in DOMAIN load \ {w}
  BY <1>2 DEF BelowInv, TypeInv, TypeOK
<1>5. removed' = removed \cup (ToSet(workers) \ ToSet(workers'))
  BY <1>2, <1>3
<1> QED
  BY <1>2, <1>3, <1>4, <1>5, ShrinkBelow

LEMMA ClearBelow ==
    ASSUME BelowThreshold, BelowInv, ClearWorker \/ Exit
    PROVE  LockInv' /\ QueueInv' /\ ReadInv' /\ CountInv'
<1>1. lock = Nobody /\ UNCHANGED <<inside, inbox, dead>>
  BY DEF ClearWorker, Exit
<1>2. CASE UNCHANGED <<workers, load, removed>>
  BY <1>1, <1>2, ShrinkBelow
<1>3. CASE workers' = <<>> /\ load' = [w \in {} |-> 0] /\ removed' = removed \cup ToSet(workers)
  <2>1. ToSet(workers') = {}
    BY <1>3 DEF ToSet
  <2> QED
    BY <1>1, <1>3, <2>1, ShrinkBelow
<1> QED
  BY <1>2, <1>3 DEF ClearWorker, Exit

\* A worker that dies is between two mails.
LEMMA TerminateBelow ==
    ASSUME BelowThreshold, BelowInv, NEW w \in Worker, Terminate(w)
    PROVE  LockInv' /\ QueueInv' /\ ReadInv' /\ CountInv'
<1> USE DEF BelowInv, TypeInv
<1>1. /\ call' = call /\ mails' = mails /\ lock' = lock /\ workers' = workers /\ load' = load
      /\ removed' = removed /\ dead' = dead \cup {w} /\ call[w].step = "idle"
      /\ inbox' = [inbox EXCEPT ![w] = <<>>]
  BY DEF Terminate, inside, policyVars
<1>2. inbox'[w] = <<>> /\ \A v \in Worker \ {w} : inbox'[v] = inbox[v]
  BY <1>1 DEF TypeOK
<1>3. LockInv'
  BY <1>1 DEF LockInv
<1>4. QueueInv'
  BY <1>1 DEF QueueInv, GetMetrics
<1>5. ReadInv'
  BY <1>1 DEF ReadInv
<1>6. Counted' = Counted /\ (\A v : OpenCalls(v)' = OpenCalls(v))
      /\ \A v \in Worker \ {w} : OpenRequests(v)' = OpenRequests(v)
  BY <1>1, <1>2 DEF Counted, OpenCalls, OpenRequests
<1>7. \A v \in Worker \ (ToSet(workers) \cup removed) : Untouched(v)'
  BY <1>1, <1>2, <1>6 DEF CountInv, Untouched
<1>8. LoadIsOpenRequests'
  <2>1. \A v \in ToSet(workers) : v \in Worker
    BY DEF TypeOK, ToSet
  <2> QED
    BY <1>1, <1>6, <2>1 DEF CountInv, LoadIsOpenRequests
<1> QED
  BY <1>1, <1>3, <1>4, <1>5, <1>6, <1>7, <1>8 DEF CountInv

LEMMA SameBelow ==
    ASSUME BelowInv, UNCHANGED <<workers, load, mails, lock, call, inbox, dead, removed>>
    PROVE  LockInv' /\ QueueInv' /\ ReadInv' /\ CountInv'
BY DEF BelowInv, LockInv, QueueInv, ReadInv, CountInv, LoadIsOpenRequests, GetMetrics, Untouched,
       OpenCalls, OpenRequests, Counted

LEMMA NextBelow == ASSUME BelowThreshold, BelowInv, [Next]_vars PROVE BelowInv'
<1> DEFINE Goal == LockInv' /\ QueueInv' /\ ReadInv' /\ CountInv'
<1>0. TypeInv'
  BY NextTypes DEF BelowInv
<1>1. ASSUME NEW a \in Actors, PolicyAborts(a) PROVE Goal
  BY <1>1, SameBelow DEF PolicyAborts, Abort, workerVars, policyVars
<1>2. ASSUME NEW c \in Client, Proceed(c) PROVE Goal
  <2>1. c \in Actors
    BY DEF Actors
  <2> QED
    BY <1>1, <1>2, <2>1, PolicyKeepsBelow, RelayBelow, WriteLoadBelow, DeliverBelow DEF Proceed
<1>3. ASSUME NEW w \in Worker, Proceed(w) PROVE Goal
  <2>1. w \in Actors
    BY DEF Actors
  <2>2. call[w].step \in {"idle", "settle", "metrics", "policy"}
    BY DEF BelowInv, QueueInv
  <2>3. Policy(w) \/ PolicyAborts(w)
    BY <1>3, <2>2 DEF Proceed, ReadLoad, WriteLoad, ReadId, PlaceTicket, Deliver
  <2> QED
    BY <1>1, <2>1, <2>3, PolicyKeepsBelow
<1>4. ASSUME NEW w \in Worker, DeleteWorker(w) PROVE Goal
  BY <1>4, TakeOutBelow DEF DeleteWorker
<1>5. ASSUME NEW w \in Worker, Down(w) PROVE Goal
  <2>1. lock = Nobody /\ UNCHANGED <<inside, inbox, dead>>
    BY <1>5 DEF Down
  <2>2. CASE TakeOut(w)
    BY <2>1, <2>2, TakeOutBelow
  <2>3. CASE UNCHANGED <<workers, load, removed>>
    BY <2>1, <2>3, ShrinkBelow
  <2> QED
    BY <1>5, <2>2, <2>3 DEF Down
<1>6. ASSUME UNCHANGED vars PROVE Goal
  BY <1>6, SameBelow DEF vars, inside, policyVars, workerVars
<1>7. Goal
  BY <1>2, <1>3, <1>4, <1>5, <1>6, ReplyEmptyBelow, SendBelow, AnswerBelow, SettleBelow,
     ReadMetricsBelow, AddWorkerBelow, TerminateBelow, ClearBelow DEF Next
<1> QED
  BY <1>0, <1>7 DEF BelowInv

LEMMA InitBelow == ASSUME BelowThreshold, Init PROVE BelowInv
<1>1. TypeInv
  BY InitTypes DEF Init, TypeInv, RelaysMail, Relaying, Idle
<1>2. call = [a \in Actors |-> Idle] /\ \A a \in Actors : call[a].step = "idle"
  BY DEF Init, Idle
<1>3. LockInv
  BY <1>2 DEF LockInv, Locked, Actors
<1>4. QueueInv
  BY <1>2 DEF Init, QueueInv, Actors
<1>5. ReadInv
  BY <1>2 DEF ReadInv, Actors
<1>6. \A w : OpenCalls(w) = {}
  BY <1>2 DEF OpenCalls, Open
<1>7. \A w \in Worker : inbox[w] = <<>> /\ call[w].step = "idle"
  BY <1>2 DEF Init, Actors
<1>8. DOMAIN load = ToSet(workers) /\ (\A w \in ToSet(workers) : load[w] = 0) /\ removed = {}
  BY DEF Init
<1>9. \A w \in Worker : OpenRequests(w) = 0
  <2> SUFFICES ASSUME NEW w \in Worker PROVE OpenRequests(w) = 0
    OBVIOUS
  <2>1. OpenRequests(w) = Len(inbox[w]) + Cardinality(OpenCalls(w))
                          + (IF call[w].step = "settle" THEN 1 ELSE 0)
    BY DEF OpenRequests, OpenCalls, Open
  <2>2. Len(inbox[w]) = 0 /\ Cardinality(OpenCalls(w)) = 0 /\ call[w].step # "settle"
    BY <1>6, <1>7, FS_EmptySet
  <2> QED
    BY <2>1, <2>2
<1>10. ToSet(workers) \subseteq Worker
  BY <1>1 DEF TypeInv, TypeOK, ToSet
<1>11. CountInv
  <2>1. Cardinality(Counted) \in Nat
    BY CountedFinite
  <2>2. \A w \in ToSet(workers) : load[w] <= Cardinality(Counted)
    BY <1>8, <2>1
  <2>3. \A w \in Worker \ (ToSet(workers) \cup removed) : Untouched(w)
    BY <1>6, <1>7, <1>8 DEF Untouched
  <2>4. LoadIsOpenRequests
    BY <1>8, <1>9, <1>10 DEF LoadIsOpenRequests
  <2> QED
    BY <1>8, <2>2, <2>3, <2>4 DEF CountInv
<1> QED
  BY <1>1, <1>3, <1>4, <1>5, <1>11 DEF BelowInv

\* As long as no load can reach the threshold and no worker is put back, the load of a
\* worker that stays is the number of its open requests, however the calls of clients and
\* workers overlap, and whichever workers come, go and die: no ++ and no -- is lost.
THEOREM LoadIsExact == ASSUME BelowThreshold PROVE Spec => []LoadIsOpenRequests
<1>1. Init => BelowInv
  BY InitBelow
<1>2. BelowInv /\ [Next]_vars => BelowInv'
  BY NextBelow
<1>3. BelowInv => LoadIsOpenRequests
  BY DEF BelowInv, CountInv
<1> QED
  BY <1>1, <1>2, <1>3, PTL DEF Spec

-----------------------------------------------------------------------------
(* Below the threshold: whose answer a client gets.                        *)

\* Whom a ticket for the mail m is for, and that the ticket with this id is for m.
Addressee(m) == IF m \in Anonymous THEN Nobody ELSE m
Matches(id, m) == id <= lastId /\ (id \in DOMAIN tickets => tickets[id] = Addressee(m))

\* An id is given once: the next one is above all that were.
TicketInv ==
    /\ \A id \in DOMAIN tickets : id <= lastId
    /\ \A a \in Actors : call[a].step \in {"deliver", "settle"} => Matches(call[a].id, call[a].mail)
    /\ \A w \in Worker : \A i \in DOMAIN inbox[w] : Matches(inbox[w][i].id, inbox[w][i].mail)
    /\ \A c \in Client : call[c].step = "ticket" => call[c].id = lastId + 1
    /\ AnswersAreOwn

OwnInv == BelowInv /\ TicketInv

\* A step that places and takes no ticket.
LEMMA QuietOwn ==
    ASSUME TicketInv, UNCHANGED <<lastId, tickets, inbox, replies>>,
           \A a \in Actors : call'[a].step \in {"ticket", "deliver", "settle"} => call'[a] = call[a]
    PROVE  TicketInv'
<1>1. \A id, m : Matches(id, m)' <=> Matches(id, m)
  BY DEF Matches
<1>2. AnswersAreOwn'
  BY DEF TicketInv, AnswersAreOwn
<1> QED
  BY <1>1, <1>2 DEF TicketInv, Actors

\* What comes back is the answer of the caller: the ticket matches its mail.
LEMMA ReplyOwn ==
    ASSUME TypeOK, AnswersAreOwn, NEW c \in Client, NEW reply \in {c, EmptyMessage},
           c \notin Anonymous, replies' = [replies EXCEPT ![c] = Append(@, reply)]
    PROVE  AnswersAreOwn'
<1>1. replies[c] \in Seq(Client \cup {EmptyMessage}) /\ replies'[c] = Append(replies[c], reply)
      /\ \A d \in Client \ {c} : replies'[d] = replies[d]
  BY DEF TypeOK
<1>2. ASSUME NEW i \in DOMAIN replies'[c] PROVE replies'[c][i] \in {c, EmptyMessage}
  <2>1. /\ i \in 1..(Len(replies[c]) + 1) /\ Len(replies[c]) \in Nat
        /\ DOMAIN replies[c] = 1..Len(replies[c])
        /\ replies'[c][Len(replies[c]) + 1] = reply
        /\ \A j \in 1..Len(replies[c]) : replies'[c][j] = replies[c][j]
    BY <1>1, <1>2
  <2>2. i = Len(replies[c]) + 1 \/ i \in DOMAIN replies[c]
    BY <2>1
  <2> QED
    BY <2>1, <2>2 DEF AnswersAreOwn
<1> QED
  BY <1>1, <1>2 DEF AnswersAreOwn

LEMMA ReplyEmptyOwn ==
    ASSUME OwnInv, NEW c \in Client, ReplyEmpty(c)
    PROVE  TicketInv'
<1>1. TypeOK /\ TicketInv
  BY DEF OwnInv, BelowInv, TypeInv
<1>2. AnswersAreOwn'
  BY <1>1, ReplyOwn DEF ReplyEmpty, TicketInv
<1>3. lastId' = lastId /\ tickets' = tickets /\ inbox' = inbox
  BY DEF ReplyEmpty, proxyVars
<1>4. \A a \in Actors : call'[a].step \in {"ticket", "deliver", "settle"} => call'[a] = call[a]
  BY <1>1 DEF ReplyEmpty, TypeOK, Call, Actors
<1>5. \A id, m : Matches(id, m)' <=> Matches(id, m)
  BY <1>3 DEF Matches
<1> QED
  BY <1>1, <1>2, <1>3, <1>4, <1>5 DEF TicketInv, Actors

LEMMA AnswerOwn ==
    ASSUME OwnInv, NEW w \in Worker, Answer(w)
    PROVE  TicketInv'
<1>1. TypeOK /\ TicketInv /\ w \in Actors /\ w \notin Client
  BY ActorsAssumption DEF OwnInv, BelowInv, TypeInv, Actors
<1>2. lastId' = lastId /\ tickets' = tickets /\ replies' = replies
  BY DEF Answer, proxyVars
<1>3. \A id, m : Matches(id, m)' <=> Matches(id, m)
  BY <1>2 DEF Matches
<1>4. /\ inbox[w] \in Seq(Mail) /\ inbox[w] # <<>> /\ inbox'[w] = Tail(inbox[w])
      /\ \A v \in Worker \ {w} : inbox'[v] = inbox[v]
  BY <1>1 DEF Answer, TypeOK
<1>5. /\ 1 \in DOMAIN inbox[w] /\ Head(inbox[w]) = inbox[w][1]
      /\ \A i \in DOMAIN inbox'[w] : i + 1 \in DOMAIN inbox[w] /\ inbox'[w][i] = inbox[w][i + 1]
  BY <1>4
<1>6. \A a \in Actors \ {w} : call'[a] = call[a]
  BY <1>1 DEF Answer, TypeOK
<1>7. call'[w].id = inbox[w][1].id /\ call'[w].mail = inbox[w][1].mail
  <2>1. call'[w] = [Start("settle", Head(inbox[w]).mail) EXCEPT
                       !.read = LoadOf(w), !.id = Head(inbox[w]).id]
    BY <1>1 DEF Answer, TypeOK
  <2> QED
    BY <1>5, <2>1 DEF Start, Idle
<1>8. \A a \in Actors : call'[a].step \in {"deliver", "settle"}
                            => Matches(call'[a].id, call'[a].mail)
  BY <1>1, <1>5, <1>6, <1>7 DEF TicketInv
<1>9. \A v \in Worker : \A i \in DOMAIN inbox'[v] :
         Matches(inbox'[v][i].id, inbox'[v][i].mail)
  <2>1. \A i \in DOMAIN inbox'[w] : Matches(inbox'[w][i].id, inbox'[w][i].mail)
    <3>1. \A i \in DOMAIN inbox[w] : Matches(inbox[w][i].id, inbox[w][i].mail)
      BY <1>1 DEF TicketInv
    <3> QED
      BY <1>5, <3>1
  <2>2. \A v \in Worker \ {w} : \A i \in DOMAIN inbox'[v] :
            Matches(inbox'[v][i].id, inbox'[v][i].mail)
    BY <1>1, <1>4 DEF TicketInv
  <2> QED
    BY <2>1, <2>2
<1>10. AnswersAreOwn'
  BY <1>1, <1>2 DEF TicketInv, AnswersAreOwn
<1> QED
  BY <1>1, <1>2, <1>3, <1>6, <1>8, <1>9, <1>10 DEF TicketInv, Actors

\* The ticket that is taken out is for the client whose mail was answered.
LEMMA SettleOwn ==
    ASSUME OwnInv, NEW w \in Worker, Settle(w)
    PROVE  TicketInv'
<1>1. TypeOK /\ TicketInv /\ w \in Actors
  BY DEF OwnInv, BelowInv, TypeInv, Actors
<1>2. /\ lastId' = lastId /\ inbox' = inbox /\ call[w].step = "settle"
      /\ tickets' = Without(tickets, {call[w].id})
  BY DEF Settle
<1>3. /\ DOMAIN tickets' \subseteq DOMAIN tickets
      /\ \A id \in DOMAIN tickets' : tickets'[id] = tickets[id]
  BY <1>2 DEF Without
<1>4. \A id, m : Matches(id, m) => Matches(id, m)'
  BY <1>2, <1>3 DEF Matches
<1>5. \A a \in Actors : call'[a].step \in {"ticket", "deliver", "settle"} => call'[a] = call[a]
  BY <1>1 DEF Settle, TypeOK, Start, Idle
<1>6. AnswersAreOwn'
  <2>1. CASE ResponseTo(w, call[w].id) = Nobody
    <3>1. replies' = replies
      BY <2>1 DEF Settle
    <3> QED
      BY <1>1, <3>1 DEF TicketInv, AnswersAreOwn
  <2>2. CASE ResponseTo(w, call[w].id) # Nobody
    <3>1. call[w].id \in DOMAIN tickets /\ ResponseTo(w, call[w].id) = tickets[call[w].id]
      BY <2>2 DEF ResponseTo
    <3>2. tickets[call[w].id] = Addressee(call[w].mail)
      BY <1>1, <1>2, <3>1 DEF TicketInv, Matches
    <3>3. ResponseTo(w, call[w].id) = call[w].mail /\ call[w].mail \notin Anonymous
      BY <2>2, <3>1, <3>2 DEF Addressee
    <3>4. call[w].mail \in Client
      BY <1>1, <2>2, <3>3 DEF TypeOK, Call
    <3>5. replies' = [replies EXCEPT ![call[w].mail] = Append(@, call[w].mail)]
      BY <2>2, <3>3 DEF Settle
    <3> QED
      BY <1>1, <3>3, <3>4, <3>5, ReplyOwn DEF TicketInv
  <2> QED
    BY <2>1, <2>2
<1> QED
  BY <1>1, <1>2, <1>3, <1>4, <1>5, <1>6 DEF TicketInv, Actors

\* The lock makes the ids serial: a ticket is placed under an id that was never used.
LEMMA PlaceTicketOwn ==
    ASSUME OwnInv, NEW c \in Client, PlaceTicket(c)
    PROVE  TicketInv'
<1>1. TypeOK /\ TicketInv /\ LockInv /\ QueueInv /\ c \in Actors /\ lastId \in Nat
  BY DEF OwnInv, BelowInv, TypeInv, TypeOK, Actors
<1>2. PICK new \in Nat, m \in Client \cup {Nobody} :
        /\ call[c].step = "ticket" /\ call[c].id = new /\ call[c].mail = m
        /\ new = lastId + 1 /\ lastId' = new
  <2>1. call[c].step = "ticket" /\ call[c].id = lastId + 1 /\ lastId' = call[c].id
        /\ call[c].mail \in Client \cup {Nobody}
    BY <1>1 DEF PlaceTicket, TicketInv, TypeOK, Call
  <2> QED
    BY <1>1, <2>1
<1>3. new \notin DOMAIN tickets /\ \A id \in Nat : id <= lastId => id # new /\ id <= new
  BY <1>1, <1>2 DEF TicketInv
<1>4. tickets' = Set(tickets, new, Addressee(m))
  BY <1>2, <1>3 DEF PlaceTicket, Emplace, Addressee
<1>5. /\ DOMAIN tickets' = DOMAIN tickets \cup {new} /\ tickets'[new] = Addressee(m)
      /\ \A id \in DOMAIN tickets : tickets'[id] = tickets[id]
  BY <1>3, <1>4 DEF Set
<1> DEFINE Fits(id, n) == id <= lastId' /\ (id \in DOMAIN tickets' => tickets'[id] = Addressee(n))
<1>6. \A id \in Nat : \A n : Matches(id, n) => Fits(id, n)
  BY <1>2, <1>3, <1>5 DEF Matches
<1>7. Fits(new, m)
  BY <1>2, <1>5
<1>8. /\ \A a \in Actors \ {c} : call'[a] = call[a]
      /\ call'[c].step = "deliver" /\ call'[c].id = new /\ call'[c].mail = m
  BY <1>1, <1>2 DEF PlaceTicket, TypeOK, Call
<1>9. inbox' = inbox /\ replies' = replies
  BY DEF PlaceTicket, clientVars
<1>10. \A id \in DOMAIN tickets' : id <= lastId'
  BY <1>1, <1>2, <1>3, <1>5 DEF TicketInv, TypeOK
<1> HIDE DEF Fits
<1>11. ASSUME NEW a \in Actors, call'[a].step \in {"deliver", "settle"}
       PROVE  Fits(call'[a].id, call'[a].mail)
  <2>1. CASE a = c
    BY <1>7, <1>8, <2>1
  <2>2. CASE a # c
    <3>1. call'[a] = call[a] /\ call[a].id \in Nat
      BY <1>1, <1>8, <2>2 DEF TypeOK, Call
    <3>2. Matches(call[a].id, call[a].mail)
      BY <1>1, <1>11, <3>1 DEF TicketInv
    <3> QED
      BY <1>6, <3>1, <3>2
  <2> QED
    BY <2>1, <2>2
<1>12. ASSUME NEW w \in Worker, NEW i \in DOMAIN inbox'[w]
       PROVE  Fits(inbox'[w][i].id, inbox'[w][i].mail)
  <2>1. inbox[w] \in Seq(Mail) /\ i \in DOMAIN inbox[w]
    BY <1>1, <1>9, <1>12 DEF TypeOK
  <2>2. inbox[w][i] \in Mail
    BY <2>1
  <2>3. inbox[w][i].id \in Nat
    BY <2>2 DEF Mail
  <2>4. Matches(inbox[w][i].id, inbox[w][i].mail)
    BY <1>1, <2>1 DEF TicketInv
  <2> QED
    BY <1>6, <1>9, <2>3, <2>4
<1>13. \A d \in Client \ {c} : call[d].step # "ticket"
  <2>1. lock = c
    BY <1>1, <1>2 DEF LockInv, Locked
  <2> QED
    BY <1>1, <2>1 DEF LockInv, Locked
<1>14. AnswersAreOwn'
  BY <1>1, <1>9 DEF TicketInv, AnswersAreOwn
<1>15. \A d \in Client : call'[d].step # "ticket"
  BY <1>8, <1>13 DEF Actors
<1> QED
  BY <1>10, <1>11, <1>12, <1>14, <1>15 DEF TicketInv, Matches, Fits

\* The ticket of the request goes with it into the inbox.
LEMMA DeliverOwn ==
    ASSUME OwnInv, NEW c \in Client, Deliver(c)
    PROVE  TicketInv'
<1>1. TypeOK /\ RelaysMail /\ TicketInv /\ c \in Actors
  BY DEF OwnInv, BelowInv, TypeInv, Actors
<1>2. lastId' = lastId /\ tickets' = tickets /\ replies' = replies /\ call[c].step = "deliver"
  BY DEF Deliver, proxyVars, clientVars
<1>3. PICK w \in Worker, request \in Mail :
        /\ request.id = call[c].id /\ request.mail = call[c].mail
        /\ inbox' = IF w \in dead THEN inbox ELSE [inbox EXCEPT ![w] = Append(@, request)]
  <2>1. call[c].to \in Worker /\ [id |-> call[c].id, mail |-> call[c].mail] \in Mail
    BY <1>1, <1>2 DEF TypeOK, RelaysMail, Relaying, Mail, Call
  <2> QED
    BY <2>1 DEF Deliver
<1>4. \A id, m : Matches(id, m)' <=> Matches(id, m)
  BY <1>2 DEF Matches
<1>5. /\ \A a \in Actors \ {c} : call'[a] = call[a]
      /\ call'[c].step \notin {"ticket", "deliver", "settle"}
  BY <1>1 DEF Deliver, TypeOK, Finished, Idle
<1>6. Matches(request.id, request.mail)
  BY <1>1, <1>2, <1>3 DEF TicketInv
<1>7. \A v \in Worker : \A i \in DOMAIN inbox'[v] :
         Matches(inbox'[v][i].id, inbox'[v][i].mail)
  <2>1. CASE w \in dead
    BY <1>1, <1>3, <2>1 DEF TicketInv
  <2>2. CASE w \notin dead
    <3>1. /\ inbox'[w] = Append(inbox[w], request) /\ inbox[w] \in Seq(Mail)
          /\ \A v \in Worker \ {w} : inbox'[v] = inbox[v]
      BY <1>1, <1>3, <2>2 DEF TypeOK
    <3>2. \A i \in DOMAIN inbox'[w] :
            inbox'[w][i] = request \/ (i \in DOMAIN inbox[w] /\ inbox'[w][i] = inbox[w][i])
      BY <3>1
    <3>3. \A i \in DOMAIN inbox[w] : Matches(inbox[w][i].id, inbox[w][i].mail)
      BY <1>1 DEF TicketInv
    <3>4. \A i \in DOMAIN inbox'[w] : Matches(inbox'[w][i].id, inbox'[w][i].mail)
      BY <1>6, <3>2, <3>3
    <3>5. \A v \in Worker \ {w} : \A i \in DOMAIN inbox'[v] :
              Matches(inbox'[v][i].id, inbox'[v][i].mail)
      BY <1>1, <3>1 DEF TicketInv
    <3> QED
      BY <3>4, <3>5
  <2> QED
    BY <2>1, <2>2
<1>8. \A a \in Actors : call'[a].step \in {"ticket", "deliver", "settle"} => call'[a] = call[a]
  BY <1>5
<1>9. AnswersAreOwn'
  BY <1>1, <1>2 DEF TicketInv, AnswersAreOwn
<1> QED
  BY <1>1, <1>2, <1>4, <1>7, <1>8, <1>9 DEF TicketInv, Actors

LEMMA ReadIdOwn ==
    ASSUME OwnInv, NEW c \in Client, ReadId(c)
    PROVE  TicketInv'
<1>1. TypeOK /\ TicketInv /\ c \in Actors /\ c \notin Worker
  BY ActorsAssumption DEF OwnInv, BelowInv, TypeInv, Actors
<1>2. lastId' = lastId /\ tickets' = tickets /\ replies' = replies /\ inbox' = inbox
  BY DEF ReadId, proxyVars, clientVars
<1>3. /\ \A a \in Actors \ {c} : call'[a] = call[a]
      /\ call'[c].step = "ticket" /\ call'[c].id = lastId + 1
  BY <1>1 DEF ReadId, TypeOK, Call
<1>4. \A id, m : Matches(id, m)' <=> Matches(id, m)
  BY <1>2 DEF Matches
<1>5. AnswersAreOwn'
  BY <1>1, <1>2 DEF TicketInv, AnswersAreOwn
<1> QED
  BY <1>1, <1>2, <1>3, <1>4, <1>5 DEF TicketInv, Actors

\* A worker that dies takes the requests of its inbox with it, not their tickets.
LEMMA TerminateOwn ==
    ASSUME OwnInv, NEW w \in Worker, Terminate(w)
    PROVE  TicketInv'
<1>1. TypeOK /\ TicketInv
  BY DEF OwnInv, BelowInv, TypeInv
<1>2. /\ lastId' = lastId /\ tickets' = tickets /\ replies' = replies /\ call' = call
      /\ inbox'[w] = <<>> /\ \A v \in Worker \ {w} : inbox'[v] = inbox[v]
  BY <1>1 DEF Terminate, inside, proxyVars, clientVars, TypeOK
<1>3. \A id, m : Matches(id, m)' <=> Matches(id, m)
  BY <1>2 DEF Matches
<1>4. AnswersAreOwn'
  BY <1>1, <1>2 DEF TicketInv, AnswersAreOwn
<1>5. \A v \in Worker : \A i \in DOMAIN inbox'[v] : Matches(inbox'[v][i].id, inbox'[v][i].mail)
  <2>1. DOMAIN inbox'[w] = {}
    BY <1>2
  <2> QED
    BY <1>1, <1>2, <2>1 DEF TicketInv
<1> QED
  BY <1>1, <1>2, <1>3, <1>4, <1>5 DEF TicketInv

LEMMA ProceedOwn ==
    ASSUME BelowThreshold, OwnInv, NEW a \in Actors, Proceed(a)
    PROVE  TicketInv'
<1>1. TypeOK /\ TicketInv /\ QueueInv
  BY DEF OwnInv, BelowInv, TypeInv
<1>2. CASE Policy(a) \/ ReadLoad(a) \/ WriteLoad(a)
  <2>1. UNCHANGED <<lastId, tickets, inbox, replies>>
    BY <1>2 DEF Policy, ReadLoad, WriteLoad, proxyVars, clientVars
  <2>2. PICK step, mail, to : Becomes(a, step, mail, to) /\ step \notin {"ticket", "deliver", "settle"}
    BY <1>1, <1>2, Effects, PolicyBelow DEF OwnInv
  <2>3. \A b \in Actors : call'[b].step \in {"ticket", "deliver", "settle"} => call'[b] = call[b]
    BY <2>2 DEF Becomes
  <2> QED
    BY <1>1, <2>1, <2>3, QuietOwn
<1>3. CASE PolicyAborts(a)
  BY <1>1, <1>3, QuietOwn DEF PolicyAborts, Abort, proxyVars, clientVars
<1>4. CASE ReadId(a) \/ PlaceTicket(a) \/ Deliver(a)
  <2>1. a \in Client
    BY <1>1, <1>4 DEF QueueInv, ReadId, PlaceTicket, Deliver, Actors
  <2> QED
    BY <1>4, <2>1, ReadIdOwn, PlaceTicketOwn, DeliverOwn
<1> QED
  BY <1>2, <1>3, <1>4 DEF Proceed

LEMMA NextOwn == ASSUME BelowThreshold, OwnInv, [Next]_vars PROVE OwnInv'
<1>0. BelowInv' /\ TypeOK /\ TicketInv
  BY NextBelow DEF OwnInv, BelowInv, TypeInv
<1>1. ASSUME NEW a \in Actors, Send(a) \/ ReadMetrics(a) PROVE TicketInv'
  <2>1. UNCHANGED <<lastId, tickets, inbox, replies>>
    BY <1>1 DEF Send, ReadMetrics, proxyVars, clientVars
  <2>2. PICK mail, to : Becomes(a, "policy", mail, to)
    BY <1>0, <1>1, Effects
  <2>3. \A b \in Actors : call'[b].step \in {"ticket", "deliver", "settle"} => call'[b] = call[b]
    BY <2>2 DEF Becomes
  <2> QED
    BY <1>0, <2>1, <2>3, QuietOwn
<1>2. ASSUME NEW w \in Worker, AddWorker(w) \/ DeleteWorker(w) \/ Down(w) PROVE TicketInv'
  BY <1>0, <1>2, QuietOwn DEF AddWorker, DeleteWorker, Down, inside, proxyVars, clientVars
<1>3. ASSUME ClearWorker \/ Exit PROVE TicketInv'
  BY <1>0, <1>3, QuietOwn DEF ClearWorker, Exit, inside, proxyVars, clientVars
<1>4. ASSUME UNCHANGED vars PROVE TicketInv'
  BY <1>0, <1>4, QuietOwn DEF vars, inside, proxyVars, clientVars
<1>5. TicketInv'
  BY <1>1, <1>2, <1>3, <1>4, ReplyEmptyOwn, AnswerOwn, SettleOwn, ProceedOwn, TerminateOwn
  DEF Next, Actors
<1> QED
  BY <1>0, <1>5 DEF OwnInv

\* As long as no load can reach the threshold and no worker is put back, what comes back to
\* a client is the answer to its own request, or the empty message of a router without
\* workers, for any overlap of the calls and whichever workers come, go and die: the
\* tickets of the proxy do not mix up requests.
THEOREM AnswersFindTheirClient == ASSUME BelowThreshold PROVE Spec => []AnswersAreOwn
<1>1. Init => OwnInv
  <2> SUFFICES ASSUME Init PROVE TicketInv
    BY InitBelow DEF OwnInv
  <2>1. \A a \in Actors : call[a].step = "idle"
    BY DEF Init, Idle
  <2> QED
    BY <2>1 DEF Init, TicketInv, AnswersAreOwn, Actors
<1>2. OwnInv /\ [Next]_vars => OwnInv'
  BY NextOwn
<1>3. OwnInv => AnswersAreOwn
  BY DEF OwnInv, TicketInv
<1> QED
  BY <1>1, <1>2, <1>3, PTL DEF Spec

=============================================================================
