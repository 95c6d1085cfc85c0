--------------------------- MODULE ConsumerProofs ---------------------------
(***************************************************************************)
(* That a consumer skips a record only where an append failed, for any     *)
(* consumers, flags, bounds and numbers of partitions.                     *)
(***************************************************************************)
EXTENDS Consumer, TLAPS

Steps == {"off", "fetching", "printing", "saving", "writing"}

LogType ==
    /\ log \in [Partitions -> Seq(Key)]
    /\ refused \in [Partitions -> Seq(Key)]
    /\ spoiled \in [Partitions -> SUBSET Nat]

\* A handler has the key of its request until it returns.
KeysOK ==
    /\ stage \in [Handler -> {"idle", "asking", "storing", "calling"}]
    /\ DOMAIN key = Handler
    /\ \A h \in Handler : stage[h] # "idle" => key[h] \in Key

\* At most one record is behind a log, and the offset it has is on record.
Behind ==
    \A p \in Partitions :
        /\ Len(refused[p]) <= 1
        /\ Len(refused[p]) > 0 => Len(log[p]) \in spoiled[p]

LogInv == LogType /\ KeysOK /\ Behind

\* Logs are only added to.
Grown ==
    \A p \in Partitions :
        /\ Len(log[p]) <= Len(log'[p])
        /\ \A i \in 1..Len(log[p]) : log'[p][i] = log[p][i]
        /\ spoiled[p] \subseteq spoiled'[p]

\* Every array has an entry for each consumer, or partition.
Shape ==
    /\ LogInv
    /\ DOMAIN offsets = Consumers
    /\ turn \in [Consumers -> Nat]
    /\ reply \in [Consumers -> Seq(Key)]
    /\ printed \in [Partitions -> SUBSET (Nat \X Key)]

\* k is what the log of p has at offset o, unless a refused record was there.
Stands(p, o, k) == o \in spoiled[p] \/ (o < Len(log[p]) /\ log[p][o + 1] = k)

\* A consumer begins with partition 0, which it always reads, and a reply that
\* is being printed has a record left, and what the log has.
Reading ==
    \A x \in Consumers :
        /\ step[x] = "off" => turn[x] = 0
        /\ step[x] # "off" => 0 \in DOMAIN offsets[x]
        /\ step[x] = "printing" =>
              /\ reply[x] # <<>>
              /\ \A i \in 1..Len(reply[x]) :
                    Stands(turn[x], offsets[x][turn[x]] + i - 1, reply[x][i])

ConsumerInv == Shape /\ TypeOK /\ Reading /\ NothingSkipped

\* A map of offsets that leaves nothing behind that was not printed.
Sound(m) ==
    /\ \A p \in DOMAIN m : p \in Nat /\ m[p] \in Nat
    /\ AllPrinted(m)
-----------------------------------------------------------------------------
(***************************************************************************)
(* What happens to the logs.                                               *)
(***************************************************************************)
\* A log that is added to, and nothing behind it.
LEMMA AppendGrows ==
    ASSUME LogType, Behind, NEW p \in Partitions, NEW s \in Seq(Key),
           log' = [log EXCEPT ![p] = @ \o s],
           refused' = [refused EXCEPT ![p] = <<>>], UNCHANGED spoiled
    PROVE  LogType' /\ Behind' /\ Grown
<1>1. LogType'
  BY DEF LogType
<1>2. ASSUME NEW q \in Partitions
      PROVE  /\ Len(refused'[q]) <= 1
             /\ Len(refused'[q]) > 0 => Len(log'[q]) \in spoiled'[q]
             /\ Len(log[q]) <= Len(log'[q])
             /\ \A i \in 1..Len(log[q]) : log'[q][i] = log[q][i]
  <2>1. log[q] \in Seq(Key) /\ refused[q] \in Seq(Key)
    BY DEF LogType
  <2>2. CASE q = p
    <3>1. log'[q] = log[q] \o s /\ refused'[q] = <<>>
      BY <2>2 DEF LogType
    <3> QED BY <2>1, <3>1
  <2>3. CASE q # p
    <3>1. log'[q] = log[q] /\ refused'[q] = refused[q] /\ spoiled'[q] = spoiled[q]
      BY <2>3 DEF LogType
    <3>2. Len(log[q]) \in Nat
      BY <2>1
    <3>3. Len(refused[q]) <= 1 /\ (Len(refused[q]) > 0 => Len(log[q]) \in spoiled[q])
      BY DEF Behind
    <3>4. \A i \in 1..Len(log[q]) : log'[q][i] = log[q][i]
      BY <3>1
    <3>5. Len(refused'[q]) <= 1 /\ (Len(refused'[q]) > 0 => Len(log'[q]) \in spoiled'[q])
      BY <3>1, <3>3
    <3> QED BY <3>1, <3>2, <3>4, <3>5
  <2> QED BY <2>2, <2>3
<1> QED BY <1>1, <1>2 DEF Behind, Grown

\* A message lands at the end of one log.
LEMMA StoreGrows ==
    ASSUME LogType, Behind, NEW p, NEW k \in Key, Store(p, k)
    PROVE  LogType' /\ Behind' /\ Grown
<1>1. p \in Partitions /\ log' = [log EXCEPT ![p] = Append(@, k)]
      /\ refused' = [refused EXCEPT ![p] = <<>>] /\ UNCHANGED spoiled
  BY DEF Store
<1>2. log[p] \in Seq(Key) /\ <<k>> \in Seq(Key)
  BY <1>1 DEF LogType
<1>3. Append(log[p], k) = log[p] \o <<k>>
  BY <1>2
<1>4. log' = [log EXCEPT ![p] = @ \o <<k>>]
  BY <1>1, <1>3
<1> QED BY <1>1, <1>2, <1>4, AppendGrows

\* A message that is refused leaves the logs alone; its record has the offset
\* that is the next one.
LEMMA StoreFailsGrows ==
    ASSUME LogType, Behind, NEW p, NEW k \in Key, StoreFails(p, k)
    PROVE  LogType' /\ Behind' /\ Grown
<1>1. p \in Partitions /\ UNCHANGED log
  BY DEF StoreFails
<1>2. Len(log[p]) \in Nat /\ Len(<<k>>) = 1 /\ <<k>> \in Seq(Key)
  BY <1>1 DEF LogType
<1>3. CASE /\ refused' = [refused EXCEPT ![p] = <<k>>]
           /\ spoiled' = [spoiled EXCEPT ![p] = @ \cup {Len(log[p])}]
  <2>1. LogType'
    BY <1>1, <1>2, <1>3 DEF LogType
  <2>2. ASSUME NEW q \in Partitions
        PROVE  /\ Len(refused'[q]) <= 1
               /\ Len(refused'[q]) > 0 => Len(log'[q]) \in spoiled'[q]
               /\ spoiled[q] \subseteq spoiled'[q]
    BY <1>1, <1>2, <1>3 DEF LogType, Behind
  <2>3. \A q \in Partitions : Len(log[q]) \in Nat
    BY DEF LogType
  <2> QED BY <1>1, <2>1, <2>2, <2>3 DEF Behind, Grown
<1>4. CASE refused' = [refused EXCEPT ![p] = <<>>] /\ UNCHANGED spoiled
  <2>1. LogType'
    BY <1>1, <1>4 DEF LogType
  <2>2. \A q \in Partitions : Len(log[q]) \in Nat
    BY DEF LogType
  <2>3. Behind'
    BY <1>1, <1>4 DEF Behind, LogType
  <2> QED BY <1>1, <1>4, <2>1, <2>2, <2>3 DEF Grown
<1> QED BY <1>3, <1>4 DEF StoreFails

\* A leader that is back has the log, perhaps with the refused record.
LEMMA GainGrows ==
    ASSUME LogType, Behind, NEW p \in Partitions, GainLeader(p)
    PROVE  LogType' /\ Behind' /\ Grown
<1>1. CASE Replay(p) /\ UNCHANGED spoiled
  <2>1. PICK found \in {<<>>, refused[p]} : log' = [log EXCEPT ![p] = @ \o found]
    BY <1>1 DEF Replay
  <2>2. refused[p] \in Seq(Key) /\ <<>> \in Seq(Key)
    BY DEF LogType
  <2>3. found \in Seq(Key)
    BY <2>1, <2>2
  <2> QED BY <1>1, <2>1, <2>3, AppendGrows DEF Replay
<1>2. CASE UNCHANGED <<log, refused, spoiled>>
  <2>1. \A q \in Partitions : Len(log[q]) \in Nat
    BY DEF LogType
  <2> QED BY <1>2, <2>1 DEF LogType, Behind, Grown
<1> QED BY <1>1, <1>2 DEF GainLeader

\* A handler has the key of its request until it returns.
LEMMA KeysStep ==
    ASSUME KeysOK, [RoutingNext]_routingVars
    PROVE  KeysOK'
<1> USE DEF routingVars, logVars, gatewayVars, KeysOK
<1>1. ASSUME UNCHANGED gatewayVars PROVE KeysOK'
  BY <1>1
<1>2. ASSUME NEW h \in Handler, NEW k \in Key, TakeRequest(h, k) PROVE KeysOK'
  BY <1>2 DEF TakeRequest
<1>3. ASSUME NEW h \in Handler, AskPartitions(h) \/ StorePartitions(h) PROVE KeysOK'
  BY <1>3 DEF AskPartitions, StorePartitions
<1>4. ASSUME NEW h \in Handler, HandlePublish(h) \/ EndRequest(h) PROVE KeysOK'
  <2>1. Return(h)
    BY <1>4 DEF HandlePublish, EndRequest
  <2> QED BY <2>1 DEF Return
<1>5. CASE \/ UNCHANGED routingVars
           \/ \E h \in Handler : PublishFails(h)
           \/ \E k \in Key : ProducerPublish(k)
           \/ \E p \in Partitions : LoseLeader(p) \/ GainLeader(p)
  BY <1>1, <1>5 DEF PublishFails, ProducerPublish, LoseLeader, GainLeader
<1> QED BY <1>2, <1>3, <1>4, <1>5 DEF RoutingNext

\* Nothing that gateway, producers and leaders do takes a record from a log.
LEMMA LogsGrow ==
    ASSUME LogInv, [RoutingNext]_routingVars
    PROVE  LogInv' /\ Grown
<1> USE DEF routingVars, logVars, gatewayVars
<1>i. LogType /\ Behind /\ KeysOK /\ KeysOK'
  BY KeysStep DEF LogInv
<1>1. ASSUME UNCHANGED <<log, refused, spoiled>> PROVE LogType' /\ Behind' /\ Grown
  <2>1. \A q \in Partitions : Len(log[q]) \in Nat
    BY <1>i DEF LogType
  <2> QED BY <1>i, <1>1, <2>1 DEF LogType, Behind, Grown
<1>2. ASSUME NEW h \in Handler,
             \/ \E k \in Key : TakeRequest(h, k)
             \/ AskPartitions(h) \/ StorePartitions(h) \/ EndRequest(h)
      PROVE  LogType' /\ Behind' /\ Grown
  BY <1>1, <1>2 DEF TakeRequest, AskPartitions, StorePartitions, EndRequest
<1>3. ASSUME NEW h \in Handler, HandlePublish(h) \/ PublishFails(h)
      PROVE  LogType' /\ Behind' /\ Grown
  <2>1. key[h] \in Key
    BY <1>i, <1>3 DEF KeysOK, HandlePublish, PublishFails
  <2> QED BY <1>i, <1>3, <2>1, StoreGrows, StoreFailsGrows DEF HandlePublish, PublishFails
<1>4. ASSUME NEW k \in Key, ProducerPublish(k)
      PROVE  LogType' /\ Behind' /\ Grown
  <2>1. PICK n \in Answers : \/ Store(PartitionFor(k, Count(n)), k)
                             \/ StoreFails(PartitionFor(k, Count(n)), k)
    BY <1>4 DEF ProducerPublish
  <2> QED BY <1>i, <2>1, StoreGrows, StoreFailsGrows
<1>5. ASSUME NEW p \in Partitions, LoseLeader(p) \/ GainLeader(p)
      PROVE  LogType' /\ Behind' /\ Grown
  <2>1. CASE LoseLeader(p)
    BY <1>1, <2>1 DEF LoseLeader
  <2> QED BY <1>i, <1>5, <2>1, GainGrows
<1>6. CASE UNCHANGED routingVars
  <2>1. UNCHANGED <<log, refused, spoiled>>
    BY <1>6
  <2> QED BY <1>i, <1>1, <2>1 DEF LogInv
<1> QED BY <1>i, <1>2, <1>3, <1>4, <1>5, <1>6 DEF RoutingNext, LogInv

\* What was printed, and what stands, stays so.
LEMMA PrintedStays ==
    ASSUME LogType, Grown, NEW p \in Partitions, printed[p] \subseteq printed'[p],
           NEW o \in Nat
    PROVE  /\ o \in spoiled[p] \/ Printed(p, o) => o \in spoiled'[p] \/ Printed(p, o)'
           /\ \A k : Stands(p, o, k) => Stands(p, o, k)'
<1>1. /\ Len(log[p]) \in Nat /\ Len(log[p]) <= Len(log'[p])
      /\ \A i \in 1..Len(log[p]) : log'[p][i] = log[p][i]
      /\ spoiled[p] \subseteq spoiled'[p]
  BY DEF Grown, LogType
<1>2. CASE o < Len(log[p])
  <2>1. log'[p][o + 1] = log[p][o + 1]
    BY <1>1, <1>2
  <2> QED BY <1>1, <1>2, <2>1 DEF Printed, Stands
<1>3. CASE ~(o < Len(log[p]))
  BY <1>1, <1>3 DEF Printed, Stands
<1> QED BY <1>2, <1>3

\* ReadFrom reads no further than the one record behind the log, and fails
\* before it returns none of those that it has.
LEMMA RecordsStand ==
    ASSUME LogType, Behind, NEW p \in Partitions, NEW from \in Nat, from < Len(log[p])
    PROVE  /\ Records(p, from) \in Seq(Key)
           /\ Records(p, from) # <<>>
           /\ \A i \in 1..Len(Records(p, from)) :
                  Stands(p, from + i - 1, Records(p, from)[i])
<1> DEFINE l == log[p]
           r == refused[p]
           s == Stored(p)
           end == from + FetchMax
           m == IF end < Len(s) THEN end ELSE Len(s)
           recs == Records(p, from)
<1>0. l \in Seq(Key) /\ r \in Seq(Key)
  BY DEF LogType
<1>1. Len(l) \in Nat /\ Len(r) \in Nat /\ Len(r) <= 1
      /\ (Len(r) > 0 => Len(l) \in spoiled[p])
  BY <1>0 DEF Behind
<1>2. s \in Seq(Key) /\ Len(s) = Len(l) + Len(r)
      /\ \A j \in 1..Len(l) : s[j] = l[j]
  <2>1. s = l \o r
    BY DEF Stored
  <2> HIDE DEF l, r, s
  <2> QED BY <1>0, <2>1
<1> HIDE DEF l, r, s
<1>3. m \in Nat /\ from < m /\ m <= Len(s)
  BY <1>1, <1>2, ConsumerAssumption DEF l
<1>4. recs = SubSeq(s, from + 1, m)
  BY DEF Records, s
<1> HIDE DEF m, recs
<1>5. recs \in Seq(Key) /\ Len(recs) = m - from
      /\ \A i \in 1..Len(recs) : recs[i] = s[from + i]
  <2>1. SubSeq(s, from + 1, m) \in Seq(Key)
    BY <1>1, <1>2, <1>3
  <2>2. Len(SubSeq(s, from + 1, m)) = m - from
    BY <1>1, <1>2, <1>3
  <2>3. \A i \in 1..(m - from) : SubSeq(s, from + 1, m)[i] = s[from + i]
    BY <1>1, <1>2, <1>3
  <2> QED BY <1>4, <2>1, <2>2, <2>3
<1>6. ASSUME NEW i \in 1..Len(recs) PROVE Stands(p, from + i - 1, recs[i])
  <2>1. i \in Nat /\ i >= 1 /\ from + i <= Len(s) /\ recs[i] = s[from + i]
    BY <1>2, <1>3, <1>5
  <2>2. CASE from + i <= Len(l)
    <3>1. from + i \in 1..Len(l) /\ from + i - 1 < Len(l) /\ (from + i - 1) + 1 = from + i
      BY <1>1, <2>1, <2>2
    <3>2. recs[i] = l[from + i]
      BY <1>2, <2>1, <3>1
    <3> QED BY <3>1, <3>2 DEF Stands, l
  <2>3. CASE ~(from + i <= Len(l))
    <3>1. Len(r) > 0 /\ from + i - 1 = Len(l)
      BY <1>1, <1>2, <2>1, <2>3
    <3> QED BY <1>1, <3>1 DEF Stands, l
  <2> QED BY <2>2, <2>3
<1>7. recs # <<>>
  BY <1>3, <1>5
<1> QED BY <1>5, <1>6, <1>7 DEF recs
-----------------------------------------------------------------------------
\* The invariant says of every map of offsets that it is sound.
LEMMA MapsSound ==
    ASSUME ConsumerInv
    PROVE  Sound(file) /\ \A x \in Consumers : Sound(offsets[x])
<1>1. \A m \in {file} \cup {offsets[x] : x \in Consumers} :
          \A p \in DOMAIN m : p \in Nat /\ m[p] \in Nat
  BY DEF ConsumerInv, TypeOK
<1>2. \A x \in Consumers : \A p \in DOMAIN offsets[x] : p \in Nat /\ offsets[x][p] \in Nat
  BY <1>1
<1>3. \A p \in DOMAIN file : p \in Nat /\ file[p] \in Nat
  BY <1>1
<1> QED BY <1>2, <1>3 DEF ConsumerInv, NothingSkipped, Sound

\* Nothing saved, or lost, is sound.
LEMMA UnreadableSound == Sound(Unreadable)
  BY DEF Sound, Unreadable, Passed, AllPrinted

\* What is loaded is what was saved, or zero.
LEMMA LoadSound ==
    ASSUME Sound(file), NEW n \in Nat \ {0}
    PROVE  Sound(Load(n)) /\ DOMAIN Load(n) = 0..n-1 /\ 0 \in DOMAIN Load(n)
<1> DEFINE m == Load(n)
<1>1. DOMAIN m = 0..n-1 /\ 0 \in DOMAIN m
  BY DEF Load
<1>2. \A p \in DOMAIN m : p \in Nat /\ m[p] \in Nat
  BY <1>1 DEF Load, Sound
<1>3. ASSUME NEW p \in Partitions PROVE Passed(m, p) \subseteq Passed(file, p)
  <2>1. CASE p \in DOMAIN m /\ p \in DOMAIN file
    BY <2>1 DEF Load, Passed
  <2>2. CASE p \in DOMAIN m /\ p \notin DOMAIN file
    BY <2>2 DEF Load, Passed
  <2>3. CASE p \notin DOMAIN m
    BY <2>3 DEF Passed
  <2> QED BY <2>1, <2>2, <2>3
<1> QED BY <1>1, <1>2, <1>3 DEF Sound, AllPrinted

\* The invariant, put together from what a step leaves of it.
LEMMA Assemble ==
    ASSUME Shape', Reading', Sound(file)',
           \A x \in Consumers : Sound(offsets[x])',
           step' \in [Consumers -> Steps],
           \A x \in Consumers : step'[x] # "off" => turn'[x] \in DOMAIN offsets'[x],
           \A x \in Consumers : step'[x] = "printing" => turn'[x] \in Partitions,
           \A p \in Partitions : \A r \in printed'[p] : r[1] \in Known(p)'
    PROVE  ConsumerInv'
<1>1. ASSUME NEW x \in Consumers, step'[x] = "printing", NEW i \in 1..Len(reply'[x])
      PROVE  offsets'[x][turn'[x]] + i - 1 \in Known(turn[x])'
  <2>1. turn'[x] \in Partitions /\ turn'[x] \in DOMAIN offsets'[x]
    BY <1>1
  <2>2. offsets'[x][turn'[x]] \in Nat /\ Len(log'[turn'[x]]) \in Nat
    BY <2>1 DEF Sound, Shape, LogInv, LogType
  <2>3. Stands(turn[x], offsets[x][turn[x]] + i - 1, reply[x][i])'
    BY <1>1 DEF Reading
  <2>4. i \in Nat /\ i >= 1
    OBVIOUS
  <2> QED BY <2>2, <2>3, <2>4 DEF Stands, Known
<1>2. TypeOK'
  BY <1>1 DEF TypeOK, Sound, Steps
<1> QED BY <1>2 DEF ConsumerInv, NothingSkipped, Sound
-----------------------------------------------------------------------------
\* Messages arrive or are refused, handlers run, leaders come and go: logs only
\* grow.
LEMMA RoutingKeeps ==
    ASSUME ConsumerInv, RoutingNext, UNCHANGED consumerVars
    PROVE  ConsumerInv'
<1> USE DEF consumerVars, runVars
<1>1. LogInv' /\ Grown
  BY LogsGrow DEF ConsumerInv, Shape
<1>2. LogType /\ \A q \in Partitions : Len(log[q]) \in Nat /\ Len(log'[q]) \in Nat
  BY <1>1 DEF ConsumerInv, Shape, LogInv, LogType
<1>3. Shape'
  BY <1>1 DEF ConsumerInv, Shape
<1>4. \A p \in Partitions : \A o \in Nat :
         /\ o \in spoiled[p] \/ Printed(p, o) => o \in spoiled'[p] \/ Printed(p, o)'
         /\ \A k : Stands(p, o, k) => Stands(p, o, k)'
  BY <1>1, <1>2, PrintedStays
<1>5. Sound(file)' /\ \A x \in Consumers : Sound(offsets[x])'
  <2>1. ASSUME NEW m, Sound(m), NEW p \in Partitions, NEW o \in Passed(m, p)
        PROVE  o \in spoiled'[p] \/ Printed(p, o)'
    <3>1. o \in Nat
      BY <2>1 DEF Sound, Passed
    <3>2. o \in spoiled[p] \/ Printed(p, o)
      BY <2>1 DEF Sound, AllPrinted
    <3> QED BY <1>4, <3>1, <3>2
  <2>2. ASSUME NEW m, Sound(m)
        PROVE  /\ \A p \in DOMAIN m : p \in Nat /\ m[p] \in Nat
               /\ \A p \in Partitions : \A o \in Passed(m, p) :
                     o \in spoiled'[p] \/ Printed(p, o)'
    BY <2>1, <2>2 DEF Sound
  <2>3. Sound(file)'
    BY <2>2, MapsSound DEF Sound, AllPrinted, Passed
  <2>4. ASSUME NEW x \in Consumers PROVE Sound(offsets[x])'
    BY <2>2, MapsSound DEF Sound, AllPrinted, Passed
  <2> QED BY <2>3, <2>4
<1>6. Reading'
  <2>1. ASSUME NEW x \in Consumers, step[x] = "printing", NEW i \in 1..Len(reply[x])
        PROVE  Stands(turn[x], offsets[x][turn[x]] + i - 1, reply[x][i])'
    <3>1. turn[x] \in Partitions /\ turn[x] \in DOMAIN offsets[x]
      BY <2>1 DEF ConsumerInv, TypeOK
    <3>2. offsets[x][turn[x]] + i - 1 \in Nat
      BY <3>1, MapsSound DEF Sound
    <3>3. Stands(turn[x], offsets[x][turn[x]] + i - 1, reply[x][i])
      BY <2>1 DEF ConsumerInv, Reading
    <3> DEFINE t == turn[x]
               o == offsets[x][turn[x]] + i - 1
               k == reply[x][i]
    <3>4. t' = t /\ o' = o /\ k' = k
      OBVIOUS
    <3>5. o \in spoiled'[t] \/ (o < Len(log'[t]) /\ log'[t][o + 1] = k)
      <4> HIDE DEF t, o, k
      <4>1. t \in Partitions /\ o \in Nat /\ Stands(t, o, k)
        BY <3>1, <3>2, <3>3 DEF t, o, k
      <4> QED BY <1>4, <4>1 DEF Stands
    <3> QED BY <3>4, <3>5 DEF Stands
  <2> QED BY <2>1 DEF ConsumerInv, Reading
<1>7. ASSUME NEW p \in Partitions, NEW r \in printed'[p] PROVE r[1] \in Known(p)'
  <2>1. r[1] \in Known(p) /\ Len(log[p]) <= Len(log'[p]) /\ spoiled[p] \subseteq spoiled'[p]
    BY <1>1 DEF ConsumerInv, TypeOK, Grown
  <2> QED BY <1>2, <2>1 DEF Known
<1>8. /\ step' \in [Consumers -> Steps]
      /\ \A x \in Consumers : step'[x] # "off" => turn'[x] \in DOMAIN offsets'[x]
      /\ \A x \in Consumers : step'[x] = "printing" => turn'[x] \in Partitions
  BY DEF ConsumerInv, TypeOK, Steps
<1> QED BY <1>3, <1>5, <1>6, <1>7, <1>8, Assemble

\* A step of a consumer leaves the logs alone; if it prints nothing, only its
\* place has to be looked at.
LEMMA PlaceKeeps ==
    ASSUME ConsumerInv, UNCHANGED routingVars, UNCHANGED printed,
           NEW x \in Consumers,
           Sound(file'), Sound(offsets'[x]),
           DOMAIN offsets' = Consumers,
           step' \in [Consumers -> Steps],
           turn' \in [Consumers -> Nat], reply' \in [Consumers -> Seq(Key)],
           step'[x] = "off" => turn'[x] = 0,
           step'[x] # "off" => /\ 0 \in DOMAIN offsets'[x]
                               /\ turn'[x] \in DOMAIN offsets'[x],
           step'[x] = "printing" =>
              /\ turn'[x] \in Partitions /\ reply'[x] # <<>>
              /\ \A i \in 1..Len(reply'[x]) :
                    Stands(turn'[x], offsets'[x][turn'[x]] + i - 1, reply'[x][i]),
           \A y \in Consumers \ {x} :
              UNCHANGED <<offsets[y], step[y], turn[y], reply[y]>>
    PROVE  ConsumerInv'
<1> USE DEF routingVars, logVars, gatewayVars
<1>1. Shape'
  BY DEF ConsumerInv, Shape, LogInv, LogType, KeysOK, Behind
<1>2. Reading'
  <2>1. ASSUME NEW y \in Consumers
        PROVE  /\ step'[y] = "off" => turn'[y] = 0
               /\ step'[y] # "off" => 0 \in DOMAIN offsets'[y]
               /\ step'[y] = "printing" =>
                     /\ reply'[y] # <<>>
                     /\ \A i \in 1..Len(reply'[y]) :
                           Stands(turn'[y], offsets'[y][turn'[y]] + i - 1, reply'[y][i])
    <3>1. CASE y = x
      BY <3>1
    <3>2. CASE y # x
      BY <3>2 DEF ConsumerInv, Reading
    <3> QED BY <3>1, <3>2
  <2> QED BY <2>1 DEF Reading, Stands
<1>3. Sound(file)'
  BY DEF Sound, AllPrinted, Printed
<1>4. ASSUME NEW y \in Consumers PROVE Sound(offsets[y])'
  <2>1. Sound(offsets'[y])
    BY MapsSound
  <2> QED BY <2>1 DEF Sound, AllPrinted, Printed
<1>5. ASSUME NEW y \in Consumers, step'[y] # "off" PROVE turn'[y] \in DOMAIN offsets'[y]
  BY <1>5 DEF ConsumerInv, TypeOK
<1>6. ASSUME NEW y \in Consumers, step'[y] = "printing" PROVE turn'[y] \in Partitions
  BY <1>6 DEF ConsumerInv, TypeOK
<1>7. \A p \in Partitions : \A r \in printed'[p] : r[1] \in Known(p)'
  BY DEF ConsumerInv, TypeOK, Known
<1> QED BY <1>1, <1>2, <1>3, <1>4, <1>5, <1>6, <1>7, Assemble

\* The consumer reads from what the file has.
LEMMA StartKeeps ==
    ASSUME ConsumerInv, NEW x \in Consumers, Start(x)
    PROVE  ConsumerInv'
<1>i. Shape /\ TypeOK /\ Reading /\ step \in [Consumers -> Steps]
  BY DEF ConsumerInv, TypeOK, Steps
<1>1. PICK n \in (IF Flag[x] > 0 THEN {Flag[x]} ELSE {Count(a) : a \in Answers}) :
          offsets' = [offsets EXCEPT ![x] = Load(n)]
  BY DEF Start
<1>2. n \in Nat \ {0}
  <2>1. CASE Flag[x] > 0
    BY <1>1, <2>1, ConsumerAssumption
  <2>2. CASE ~(Flag[x] > 0)
    BY <1>1, <2>2, RoutingAssumption DEF Answers, Count
  <2> QED BY <2>1, <2>2
<1>3. Sound(Load(n)) /\ 0 \in DOMAIN Load(n)
  BY <1>2, LoadSound, MapsSound
<1>4. step' = [step EXCEPT ![x] = "fetching"]
      /\ UNCHANGED <<routingVars, file, turn, reply, printed>> /\ step[x] = "off"
  BY DEF Start
<1>5. offsets'[x] = Load(n) /\ turn'[x] = 0
  BY <1>i, <1>1, <1>4 DEF Shape, Reading
<1>6. Sound(file') /\ DOMAIN offsets' = Consumers
  BY <1>i, <1>1, <1>4, MapsSound DEF Shape
<1>7. \A y \in Consumers \ {x} : UNCHANGED <<offsets[y], step[y], turn[y], reply[y]>>
  BY <1>i, <1>1, <1>4 DEF Shape
<1>8. step'[x] = "fetching" /\ step' \in [Consumers ->
          Steps]
  BY <1>i, <1>4 DEF Steps
<1> QED BY <1>i, <1>3, <1>4, <1>5, <1>6, <1>7, <1>8, PlaceKeeps DEF Shape

\* Where a consumer that goes on to the next partition is then.
LEMMA NextPlace ==
    ASSUME ConsumerInv, NEW x \in Consumers, step[x] # "off", NextPartition(x)
    PROVE  /\ step' \in [Consumers -> Steps]
           /\ turn' \in [Consumers -> Nat]
           /\ step'[x] \in {"fetching", "saving"}
           /\ turn'[x] \in DOMAIN offsets[x]
           /\ \A y \in Consumers \ {x} : UNCHANGED <<step[y], turn[y]>>
<1>1. /\ step \in [Consumers -> Steps]
      /\ turn \in [Consumers -> Nat]
      /\ 0 \in DOMAIN offsets[x]
  BY DEF ConsumerInv, TypeOK, Shape, Reading, Steps
<1> QED BY <1>1 DEF NextPartition, Steps

\* A reply begins where the consumer is, and has what the log has.
LEMMA FetchKeeps ==
    ASSUME ConsumerInv, NEW x \in Consumers, Fetch(x)
    PROVE  ConsumerInv'
<1> DEFINE p == turn[x]
           from == offsets[x][p]
<1>i. Shape /\ TypeOK /\ Reading /\ step \in [Consumers -> Steps] /\ LogType /\ Behind
  BY DEF ConsumerInv, TypeOK, Steps, Shape, LogInv
<1>1. /\ step[x] = "fetching" /\ p \in Partitions
      /\ UNCHANGED <<routingVars, file, offsets, printed>>
  BY DEF Fetch
<1>2. p \in DOMAIN offsets[x] /\ 0 \in DOMAIN offsets[x]
  BY <1>i, <1>1 DEF TypeOK, Reading
<1>3. from \in Nat
  BY <1>i, <1>1, <1>2, MapsSound DEF Sound
<1>4. Sound(file') /\ Sound(offsets'[x]) /\ DOMAIN offsets' = Consumers
  BY <1>i, <1>1, MapsSound DEF Shape
<1>5. CASE from < Len(log[p])
  <2> DEFINE recs == Records(p, from)
  <2>0. /\ recs \in Seq(Key) /\ recs # <<>>
        /\ \A i \in 1..Len(recs) : Stands(p, from + i - 1, recs[i])
    BY <1>i, <1>1, <1>3, <1>5, RecordsStand
  <2>1. reply' = [reply EXCEPT ![x] = recs]
    BY <1>5 DEF Fetch
  <2>2. step' = [step EXCEPT ![x] = "printing"] /\ UNCHANGED turn
    BY <1>5 DEF Fetch
  <2> HIDE DEF recs
  <2>3. /\ step'[x] = "printing" /\ turn'[x] = p /\ reply'[x] = recs
        /\ step' \in [Consumers -> Steps]
        /\ turn' \in [Consumers -> Nat] /\ reply' \in [Consumers -> Seq(Key)]
    BY <1>i, <2>0, <2>1, <2>2 DEF Shape, Steps
  <2>4. \A y \in Consumers \ {x} : UNCHANGED <<offsets[y], step[y], turn[y], reply[y]>>
    BY <1>i, <1>1, <2>1, <2>2 DEF Shape
  <2>5. offsets'[x][turn'[x]] = from
    BY <1>1, <2>3
  <2> QED BY <1>1, <1>2, <1>4, <2>0, <2>3, <2>4, <2>5, PlaceKeeps
<1>6. CASE ~(from < Len(log[p]))
  <2>1. NextPartition(x) /\ UNCHANGED reply
    BY <1>6 DEF Fetch
  <2> QED BY <1>i, <1>1, <1>2, <1>4, <2>1, NextPlace, PlaceKeeps DEF Shape
<1> QED BY <1>5, <1>6

\* A partition that cannot be read is left as it is.
LEMMA FetchFailsKeeps ==
    ASSUME ConsumerInv, NEW x \in Consumers, FetchFails(x) \/ FetchBreaks(x)
    PROVE  ConsumerInv'
<1>1. /\ step[x] = "fetching" /\ NextPartition(x)
      /\ UNCHANGED <<routingVars, file, offsets, reply, printed>>
  BY DEF FetchFails, FetchBreaks
<1>2. Shape /\ 0 \in DOMAIN offsets[x]
  BY <1>1 DEF ConsumerInv, Reading
<1>3. Sound(file') /\ Sound(offsets'[x]) /\ DOMAIN offsets' = Consumers
  BY <1>1, <1>2, MapsSound DEF Shape
<1> QED BY <1>1, <1>2, <1>3, NextPlace, PlaceKeeps DEF Shape

\* A record is printed, and its offset is the next one that was not.
LEMMA PrintKeeps ==
    ASSUME ConsumerInv, NEW x \in Consumers, PrintRecord(x)
    PROVE  ConsumerInv'
<1> DEFINE p == turn[x]
           o == offsets[x][p]
           rest == IF Max[x] > 0 /\ read[x] + 1 >= Max[x] THEN <<>> ELSE Tail(reply[x])
<1> USE DEF routingVars, logVars, gatewayVars
<1>i. Shape /\ TypeOK /\ Reading /\ step \in [Consumers -> Steps] /\ LogType
  BY DEF ConsumerInv, TypeOK, Steps, Shape, LogInv
<1>1. /\ step[x] = "printing"
      /\ printed' = [printed EXCEPT ![p] = @ \cup {<<o, Head(reply[x])>>}]
      /\ offsets' = [offsets EXCEPT ![x][p] = o + 1]
      /\ reply' = [reply EXCEPT ![x] = rest]
      /\ UNCHANGED <<routingVars, file>>
  BY DEF PrintRecord
<1>2. /\ p \in DOMAIN offsets[x] /\ 0 \in DOMAIN offsets[x] /\ p \in Partitions
      /\ reply[x] \in Seq(Key) /\ reply[x] # <<>>
      /\ \A i \in 1..Len(reply[x]) : Stands(p, o + i - 1, reply[x][i])
  BY <1>i, <1>1 DEF TypeOK, Reading, Shape
<1>3. o \in Nat /\ Len(log[p]) \in Nat
  BY <1>i, <1>2, MapsSound DEF Sound, LogType
<1>h. /\ Head(reply[x]) \in Key /\ Stands(p, o, Head(reply[x]))
      /\ rest \in Seq(Key)
      /\ \A i \in 1..Len(rest) : Stands(p, o + 1 + i - 1, rest[i])
  <2> DEFINE s == reply[x]
  <2>0. s \in Seq(Key) /\ Len(s) \in Nat /\ Len(s) >= 1
    BY <1>2
  <2>1. Head(s) = s[1] /\ s[1] \in Key /\ Tail(s) \in Seq(Key)
        /\ Len(Tail(s)) = Len(s) - 1 /\ \A i \in 1..Len(Tail(s)) : Tail(s)[i] = s[i + 1]
    BY <2>0
  <2>2. 1 \in 1..Len(s) /\ o + 1 - 1 = o
    BY <1>3, <2>0
  <2>3. Stands(p, o, Head(s))
    BY <1>2, <2>1, <2>2
  <2>4. ASSUME NEW i \in 1..Len(Tail(s)) PROVE Stands(p, o + 1 + i - 1, Tail(s)[i])
    <3>1. i + 1 \in 1..Len(s) /\ o + 1 + i - 1 = o + (i + 1) - 1 /\ Tail(s)[i] = s[i + 1]
      BY <1>3, <2>0, <2>1, SMTT(30)
    <3> QED BY <1>2, <3>1
  <2>5. <<>> \in Seq(Key) /\ Len(<<>>) = 0
    OBVIOUS
  <2> QED BY <2>1, <2>3, <2>4, <2>5
<1> HIDE DEF rest
<1>4. /\ DOMAIN offsets' = Consumers
      /\ DOMAIN offsets'[x] = DOMAIN offsets[x]
      /\ offsets'[x][p] = o + 1
      /\ \A q \in DOMAIN offsets[x] : q # p => offsets'[x][q] = offsets[x][q]
      /\ \A y \in Consumers \ {x} : UNCHANGED offsets[y]
  BY <1>i, <1>1, <1>2 DEF Shape
<1>5. /\ printed' \in [Partitions -> SUBSET (Nat \X Key)]
      /\ printed'[p] = printed[p] \cup {<<o, Head(reply[x])>>}
      /\ \A q \in Partitions : printed[q] \subseteq printed'[q]
      /\ \A q \in Partitions : q # p => printed'[q] = printed[q]
  BY <1>i, <1>1, <1>2, <1>3, <1>h DEF Shape
<1>6. /\ step' \in [Consumers -> Steps]
      /\ turn' \in [Consumers -> Nat]
      /\ step'[x] # "off" /\ turn'[x] \in DOMAIN offsets[x]
      /\ step'[x] = "printing" => turn'[x] = p /\ rest # <<>>
      /\ \A y \in Consumers \ {x} : UNCHANGED <<step[y], turn[y]>>
  <2>1. CASE step' = [step EXCEPT ![x] = "saving"] /\ UNCHANGED turn
    BY <1>i, <1>2, <2>1 DEF Shape, Steps
  <2>2. CASE UNCHANGED <<step, turn>> /\ rest # <<>>
    BY <1>i, <1>1, <1>2, <2>2 DEF Shape
  <2>3. CASE NextPartition(x)
    BY <1>1, <2>3, NextPlace
  <2> QED BY <2>1, <2>2, <2>3 DEF PrintRecord, rest
<1>7. Shape'
  <2>1. LogInv'
    BY <1>i, <1>1 DEF Shape, LogInv, LogType, KeysOK, Behind
  <2>2. reply' \in [Consumers -> Seq(Key)]
    BY <1>i, <1>1, <1>h DEF Shape
  <2> QED BY <1>4, <1>5, <1>6, <2>1, <2>2 DEF Shape
<1>8. Reading'
  <2>1. ASSUME NEW y \in Consumers
        PROVE  /\ step'[y] = "off" => turn'[y] = 0
               /\ step'[y] # "off" => 0 \in DOMAIN offsets'[y]
               /\ step'[y] = "printing" =>
                     /\ reply'[y] # <<>>
                     /\ \A i \in 1..Len(reply'[y]) :
                           Stands(turn'[y], offsets'[y][turn'[y]] + i - 1, reply'[y][i])
    <3>1. CASE y = x
      <4>1. reply'[x] = rest
        BY <1>i, <1>1 DEF Shape
      <4> QED BY <1>2, <1>4, <1>6, <1>h, <3>1, <4>1
    <3>2. CASE y # x
      <4>1. UNCHANGED <<step[y], turn[y], offsets[y], reply[y]>>
        BY <1>i, <1>1, <1>4, <1>6, <3>2 DEF Shape
      <4> QED BY <1>i, <4>1 DEF Reading
    <3> QED BY <3>1, <3>2
  <2>2. UNCHANGED <<log, spoiled>>
    BY <1>1
  <2> QED BY <2>1, <2>2 DEF Reading, Stands
<1>s. \A q \in Partitions : \A a \in Nat :
         a \in spoiled[q] \/ Printed(q, a) => a \in spoiled'[q] \/ Printed(q, a)'
  BY <1>1, <1>5 DEF Printed
<1>9. Sound(file)'
  <2>1. Sound(file)
    BY MapsSound
  <2> QED BY <1>1, <1>5, <2>1 DEF Sound, AllPrinted, Printed, Passed
<1>10. ASSUME NEW y \in Consumers PROVE Sound(offsets[y])'
  <2>1. Sound(offsets[y])
    BY MapsSound
  <2>2. CASE y # x
    BY <1>1, <1>4, <1>5, <2>1, <2>2 DEF Sound, AllPrinted, Printed, Passed
  <2>3. CASE y = x
    <3>1. \A q \in DOMAIN offsets'[x] : q \in Nat /\ offsets'[x][q] \in Nat
      BY <1>3, <1>4, <2>1, <2>3 DEF Sound
    <3>2. ASSUME NEW q \in Partitions, NEW a \in Passed(offsets'[x], q)
          PROVE  a \in spoiled'[q] \/ Printed(q, a)'
      <4>0. a \in Nat
        BY <3>1 DEF Passed
      <4>1. CASE a \in Passed(offsets[x], q)
        <5>1. a \in spoiled[q] \/ Printed(q, a)
          BY <2>1, <2>3, <4>1 DEF Sound, AllPrinted
        <5> QED BY <1>s, <4>0, <5>1
      <4>2. CASE a \notin Passed(offsets[x], q)
        <5>1. q = p /\ a = o
          BY <1>2, <1>3, <1>4, <2>1, <2>3, <4>2 DEF Passed, Sound
        <5>2. o \in spoiled[p] \/ (o < Len(log[p]) /\ log[p][o + 1] = Head(reply[x]))
          BY <1>h DEF Stands
        <5>3. UNCHANGED <<log, spoiled>> /\ <<o, Head(reply[x])>> \in printed'[p]
          BY <1>1, <1>5
        <5> QED BY <5>1, <5>2, <5>3 DEF Printed
      <4> QED BY <4>1, <4>2
    <3>3. AllPrinted(offsets[x])'
      BY <3>2 DEF AllPrinted, Passed
    <3> QED BY <2>3, <3>1, <3>3 DEF Sound
  <2> QED BY <2>2, <2>3
<1>11. ASSUME NEW y \in Consumers, step'[y] # "off" PROVE turn'[y] \in DOMAIN offsets'[y]
  BY <1>i, <1>4, <1>6, <1>11 DEF TypeOK
<1>12. ASSUME NEW y \in Consumers, step'[y] = "printing" PROVE turn'[y] \in Partitions
  BY <1>i, <1>1, <1>2, <1>6, <1>12 DEF TypeOK
<1>13. ASSUME NEW q \in Partitions, NEW r \in printed'[q] PROVE r[1] \in Known(q)'
  <2>1. UNCHANGED <<log, spoiled>>
    BY <1>1
  <2>2. CASE r \in printed[q]
    BY <1>i, <2>1, <2>2 DEF TypeOK, Known
  <2>3. CASE r \notin printed[q]
    <3>1. q = p /\ r = <<o, Head(reply[x])>>
      BY <1>5, <2>3
    <3>2. o \in Known(p)
      BY <1>3, <1>h DEF Known, Stands
    <3> QED BY <2>1, <3>1, <3>2 DEF Known
  <2> QED BY <2>2, <2>3
<1> QED BY <1>6, <1>7, <1>8, <1>9, <1>10, <1>11, <1>12, <1>13, Assemble

\* The file is emptied before it is written.
LEMMA TruncateKeeps ==
    ASSUME ConsumerInv, NEW x \in Consumers, Truncate(x)
    PROVE  ConsumerInv'
<1>i. Shape /\ TypeOK /\ Reading /\ step \in [Consumers -> Steps]
  BY DEF ConsumerInv, TypeOK, Steps
<1>1. /\ step[x] = "saving" /\ file' = Unreadable
      /\ step' = [step EXCEPT ![x] = "writing"]
      /\ UNCHANGED <<routingVars, offsets, turn, reply, printed>>
  BY DEF Truncate
<1>2. turn[x] \in DOMAIN offsets[x] /\ 0 \in DOMAIN offsets[x]
  BY <1>i, <1>1 DEF TypeOK, Reading
<1>3. Sound(file') /\ Sound(offsets'[x]) /\ DOMAIN offsets' = Consumers
  BY <1>i, <1>1, UnreadableSound, MapsSound DEF Shape
<1>4. step' \in [Consumers -> Steps]
      /\ step'[x] = "writing"
  BY <1>i, <1>1 DEF Steps
<1>5. \A y \in Consumers \ {x} : UNCHANGED <<offsets[y], step[y], turn[y], reply[y]>>
  BY <1>i, <1>1
<1> QED BY <1>i, <1>1, <1>2, <1>3, <1>4, <1>5, PlaceKeeps DEF Shape

\* A consumer that is gone passes over nothing.
LEMMA ExitKeeps ==
    ASSUME ConsumerInv, NEW x \in Consumers, Exit(x), Sound(file'),
           UNCHANGED <<routingVars, printed>>
    PROVE  ConsumerInv'
<1>i. Shape /\ step \in [Consumers -> Steps]
  BY DEF ConsumerInv, TypeOK, Steps
<1>1. offsets'[x] = Unreadable /\ DOMAIN offsets' = Consumers /\ turn'[x] = 0
      /\ step'[x] = "off"
  BY <1>i DEF Exit, Shape
<1>2. /\ step' \in [Consumers -> Steps]
      /\ turn' \in [Consumers -> Nat] /\ reply' \in [Consumers -> Seq(Key)]
  BY <1>i DEF Exit, Shape, Steps
<1>3. \A y \in Consumers \ {x} : UNCHANGED <<offsets[y], step[y], turn[y], reply[y]>>
  BY <1>i DEF Exit, Shape
<1> QED BY <1>1, <1>2, <1>3, UnreadableSound, PlaceKeeps

\* What is written is sound, and so is what two writers may leave behind.
LEMMA WriteKeeps ==
    ASSUME ConsumerInv, NEW x \in Consumers, Write(x)
    PROVE  ConsumerInv'
<1>i. Shape /\ TypeOK /\ Reading /\ step \in [Consumers -> Steps]
  BY DEF ConsumerInv, TypeOK, Steps
<1>1. step[x] = "writing" /\ UNCHANGED <<routingVars, printed>>
  BY DEF Write
<1>2. Sound(file')
  <2>1. file' \in {offsets[x], Unreadable}
    BY DEF Write
  <2> QED BY <2>1, UnreadableSound, MapsSound
<1>3. CASE Finished(x)
  BY <1>1, <1>2, <1>3, ExitKeeps DEF Write
<1>4. CASE ~Finished(x)
  <2>1. /\ step' = [step EXCEPT ![x] = "fetching"] /\ turn' = [turn EXCEPT ![x] = 0]
        /\ UNCHANGED <<offsets, reply>>
    BY <1>4 DEF Write
  <2>2. 0 \in DOMAIN offsets[x] /\ Sound(offsets'[x]) /\ DOMAIN offsets' = Consumers
    BY <1>i, <1>1, <2>1, MapsSound DEF Reading, Shape
  <2>3. /\ step' \in [Consumers -> Steps]
        /\ turn' \in [Consumers -> Nat] /\ reply' \in [Consumers -> Seq(Key)]
        /\ step'[x] = "fetching" /\ turn'[x] = 0
    BY <1>i, <2>1 DEF Shape, Steps
  <2>4. \A y \in Consumers \ {x} : UNCHANGED <<offsets[y], step[y], turn[y], reply[y]>>
    BY <1>i, <2>1 DEF Shape
  <2> QED BY <1>1, <1>2, <2>1, <2>2, <2>3, <2>4, PlaceKeeps
<1> QED BY <1>3, <1>4
-----------------------------------------------------------------------------
\* Nothing is printed, and nothing passed over, at the start.
LEMMA InitConsumer == Init => ConsumerInv
<1> SUFFICES ASSUME Init PROVE ConsumerInv
  OBVIOUS
<1>1. Shape
  <2>1. LogType /\ KeysOK /\ \A p \in Partitions : refused[p] = <<>>
    BY DEF Init, RoutingInit, LogType, KeysOK
  <2>2. Len(<<>>) = 0
    OBVIOUS
  <2>3. Behind
    BY <2>1, <2>2 DEF Behind
  <2> QED BY <2>1, <2>3 DEF Init, Shape, LogInv
<1>2. \A x \in Consumers : offsets[x] = Unreadable
  BY DEF Init
<1>3. NothingSkipped
  BY <1>2, UnreadableSound DEF Init, NothingSkipped, Sound
<1>4. \A m \in {file} \cup {offsets[x] : x \in Consumers} :
         \A p \in DOMAIN m : p \in Nat /\ m[p] \in Nat
  BY <1>2 DEF Init, Unreadable
<1>5. TypeOK
  BY <1>4 DEF Init, TypeOK
<1>6. Reading
  BY DEF Init, Reading
<1> QED BY <1>1, <1>3, <1>5, <1>6 DEF ConsumerInv

\* Every step of the gateway, the producers, the partitions and the consumers
\* keeps the invariant.
LEMMA NextConsumer == ConsumerInv /\ [Next]_vars => ConsumerInv'
<1> SUFFICES ASSUME ConsumerInv, [Next]_vars PROVE ConsumerInv'
  OBVIOUS
<1>1. CASE UNCHANGED vars
  BY <1>1 DEF vars, routingVars, logVars, gatewayVars, consumerVars, runVars, ConsumerInv,
              Shape, LogInv, LogType, KeysOK, Behind, TypeOK, Known, Reading, Stands,
              NothingSkipped, AllPrinted, Printed, Passed
<1>2. CASE RoutingNext /\ UNCHANGED consumerVars
  BY <1>2, RoutingKeeps
<1>3. ASSUME NEW x \in Consumers, Start(x) \/ Run(x) \/ FetchBreaks(x) \/ Crash(x)
      PROVE  ConsumerInv'
  <2>1. CASE Start(x) \/ Run(x) \/ FetchBreaks(x)
    BY <2>1, StartKeeps, FetchKeeps, FetchFailsKeeps, PrintKeeps, TruncateKeeps, WriteKeeps
       DEF Run
  <2>2. CASE Crash(x)
    BY <2>2, MapsSound, ExitKeeps DEF Crash
  <2> QED BY <1>3, <2>1, <2>2
<1> QED BY <1>1, <1>2, <1>3 DEF Next

\* Whatever the log has below an offset, in the file or in the memory of a
\* consumer, has been printed, but for the offsets at which an append once failed
\* in Sync: through crashes between printing and saving, through consumers that
\* overwrite each other's file, and through replies that go beyond the log.
THEOREM NoneSkipped == Spec => []NothingSkipped
<1>1. ConsumerInv => NothingSkipped
  BY DEF ConsumerInv
<1> QED BY <1>1, InitConsumer, NextConsumer, PTL DEF Spec

\* What is printed, or about to be, has offsets of the log or of a record that was
\* behind it.
THEOREM ConsumerTypeCorrect == Spec => []TypeOK
<1>1. ConsumerInv => TypeOK
  BY DEF ConsumerInv
<1> QED BY <1>1, InitConsumer, NextConsumer, PTL DEF Spec

\* Consumers do not disturb what they read: the partitions and the gateway
\* behave as they do without them.
THEOREM RoutingUndisturbed == Spec => RoutingSpec
<1>1. Init => RoutingInit
  BY DEF Init
<1>2. [Next]_vars => [RoutingNext]_routingVars
  <2> SUFFICES ASSUME [Next]_vars PROVE [RoutingNext]_routingVars
    OBVIOUS
  <2>1. ASSUME NEW x \in Consumers, Start(x) \/ Run(x) \/ FetchBreaks(x) \/ Crash(x)
        PROVE  UNCHANGED routingVars
    BY <2>1 DEF Start, Run, Fetch, FetchFails, FetchBreaks, PrintRecord, Truncate, Write, Crash
  <2> QED BY <2>1 DEF Next, vars
<1> QED BY <1>1, <1>2, PTL DEF Spec, RoutingSpec
=============================================================================
