--------------------------- MODULE DispatcherProofs ---------------------------
(***************************************************************************)
(* Proofs about Dispatcher, for every number of conversations, slots, jobs, *)
(* attempts, crashes and store errors: the slots, the order in the queues,  *)
(* what Comdove can have taken, how often a job can have been tried, and    *)
(* that the dispatcher implements WebhookStream.                            *)
(***************************************************************************)
EXTENDS Dispatcher, FiniteSetTheorems, TLAPS

-----------------------------------------------------------------------------
(* The slots: who is queued, who runs, who waits.                           *)

SlotType ==
    /\ queues \in [Convs -> Seq(JobIds)]
    /\ running \in SUBSET Convs
    /\ waiting \in Seq(Convs)
    /\ phase \in [Convs -> Phases]
    /\ n \in [Convs -> 0 .. MaxAttempts]
    /\ held \in SUBSET JobIds
    /\ sent \in SUBSET JobIds
    /\ idleWaiting \in BOOLEAN

RestType ==
    /\ conv \in [JobIds -> Convs \cup {NoConv}]
    /\ state \in [JobIds -> JobStates]
    /\ tries \in [JobIds -> Nat]
    /\ nextId \in 1 .. MaxJobs + 1
    /\ mode \in {"up", "booting"}
    /\ cursor \in 1 .. MaxJobs + 1
    /\ received \in SUBSET JobIds
    /\ late \in SUBSET JobIds
    /\ crashes \in 0 .. MaxCrashes
    /\ storeErrors \in 0 .. MaxStoreErrors
    /\ dropped \in SUBSET JobIds

\* A task that backs off has an attempt left to make.
RetryLeft == \A c \in Convs : phase[c] = "backoff" => n[c] < MaxAttempts

\* A pending row has a conversation: needed to push it at boot.
PendingHasConv == \A j \in JobIds : state[j] = "pending" => conv[j] \in Convs

SlotInv ==
    /\ SlotType
    /\ NobodyLost
    /\ SlotsFullWhenWaiting
    /\ RetryLeft
    /\ idleWaiting => running # {}

\* Inductive: TypeOK and the slot properties need each other (the head of a
\* queue is a job only because a task never runs on an empty queue).
IInv == SlotInv /\ RestType /\ PendingHasConv

\* A subset of the conversations is finite, so its size behaves.
LEMMA RunningFinite ==
    ASSUME NEW S \in SUBSET Convs
    PROVE  IsFiniteSet(S) /\ Cardinality(S) \in Nat
BY FS_Subset, FS_CardinalityType, ConvsAssumption

\* Begin touches only the conversation it starts and those that left a slot.
LEMMA BeginFacts ==
    ASSUME SlotType, NEW d \in Convs, NEW j \in JobIds, NEW freed \in SUBSET Convs,
           NEW h \in SUBSET JobIds, Begin(d, j, freed, h)
    PROVE  /\ phase' \in [Convs -> Phases]
           /\ n' \in [Convs -> 0 .. MaxAttempts]
           /\ held' \in SUBSET JobIds
           /\ sent' \in SUBSET JobIds
           /\ sent' \subseteq sent \cup {j}
           /\ phase'[d] \in {"sleep", "sent"}
           /\ \A c \in Convs \ {d} :
                 /\ phase'[c] = IF c \in freed THEN "none" ELSE phase[c]
                 /\ n'[c] = IF c \in freed THEN 0 ELSE n[c]
BY LimitsAssumption DEF Begin, SlotType, Phases

\* What NobodyLost says, one fact at a time, for the steps below to cite.
LEMMA SlotFacts ==
    ASSUME SlotInv
    PROVE  /\ SlotType
           /\ \A c \in Convs : queues[c] # <<>> <=> (c \in running \/ Contains(waiting, c))
           /\ \A c \in running : ~Contains(waiting, c)
           /\ \A i, k \in 1 .. Len(waiting) : waiting[i] = waiting[k] => i = k
           /\ \A c \in Convs : c \in running <=> phase[c] # "none"
           /\ waiting \in Seq(Convs)
           /\ \A i \in 1 .. Len(waiting) : Contains(waiting, waiting[i])
           /\ IsFiniteSet(running) /\ Cardinality(running) \in Nat
           /\ Cardinality(running) <= MaxParallel
           /\ waiting # <<>> => Cardinality(running) = MaxParallel
           /\ \A c \in Convs : phase[c] = "backoff" => n[c] < MaxAttempts
           /\ idleWaiting => running # {}
<1>1. SlotType /\ NobodyLost /\ SlotsFullWhenWaiting /\ RetryLeft /\ (idleWaiting => running # {})
  BY DEF SlotInv
<1>2. waiting \in Seq(Convs) /\ running \in SUBSET Convs
  BY <1>1 DEF SlotType
<1>3. IsFiniteSet(running) /\ Cardinality(running) \in Nat
  BY <1>2, RunningFinite
<1>4. \A i \in 1 .. Len(waiting) : Contains(waiting, waiting[i])
  BY <1>2 DEF Contains
<1> QED
  BY <1>1, <1>2, <1>3, <1>4 DEF NobodyLost, SlotsFullWhenWaiting, RetryLeft

\* The line after a conversation joined it at the end.
LEMMA JoinFacts ==
    ASSUME NEW S, NEW s \in Seq(S), NEW c \in S, ~Contains(s, c),
           \A i, k \in 1 .. Len(s) : s[i] = s[k] => i = k
    PROVE  /\ Append(s, c) \in Seq(S)
           /\ \A d \in S : Contains(Append(s, c), d) <=> (Contains(s, d) \/ d = c)
           /\ \A i, k \in 1 .. Len(Append(s, c)) : Append(s, c)[i] = Append(s, c)[k] => i = k
<1> DEFINE t == Append(s, c)
<1>1. /\ t \in Seq(S)
      /\ Len(t) = Len(s) + 1
      /\ t[Len(s) + 1] = c
      /\ \A i \in 1 .. Len(s) : t[i] = s[i]
      /\ Len(s) \in Nat
  OBVIOUS
<1>2. \A i \in 1 .. Len(s) : s[i] # c
  BY DEF Contains
<1> HIDE DEF t
<1>3. \A i, k \in 1 .. Len(t) : t[i] = t[k] => i = k
  <2>1. SUFFICES ASSUME NEW i \in 1 .. Len(t), NEW k \in 1 .. Len(t), t[i] = t[k]
                 PROVE  i = k
    OBVIOUS
  <2>2. CASE i \in 1 .. Len(s) /\ k \in 1 .. Len(s)
    BY <1>1, <2>1, <2>2
  <2>3. CASE i = Len(s) + 1 \/ k = Len(s) + 1
    BY <1>1, <1>2, <2>1, <2>3
  <2> QED
    BY <1>1, <2>2, <2>3
<1>4. ASSUME NEW d \in S PROVE Contains(t, d) <=> (Contains(s, d) \/ d = c)
  <2>1. ASSUME NEW i \in 1 .. Len(t), t[i] = d PROVE Contains(s, d) \/ d = c
    <3>1. CASE i \in 1 .. Len(s)
      BY <1>1, <2>1, <3>1 DEF Contains
    <3>2. CASE i = Len(s) + 1
      BY <1>1, <2>1, <3>2
    <3> QED
      BY <1>1, <3>1, <3>2
  <2>2. ASSUME NEW i \in 1 .. Len(s), s[i] = d PROVE Contains(t, d)
    <3>1. i \in 1 .. Len(t) /\ t[i] = d
      BY <1>1, <2>2
    <3> QED
      BY <3>1 DEF Contains
  <2>3. Contains(t, c)
    <3>1. Len(s) + 1 \in 1 .. Len(t)
      BY <1>1
    <3> QED
      BY <1>1, <3>1 DEF Contains
  <2> QED
    BY <2>1, <2>2, <2>3 DEF Contains
<1> QED
  BY <1>1, <1>3, <1>4 DEF t

\* The line after its head left it.
LEMMA LeaveFacts ==
    ASSUME NEW S, NEW s \in Seq(S), s # <<>>,
           \A i, k \in 1 .. Len(s) : s[i] = s[k] => i = k
    PROVE  /\ Head(s) \in S
           /\ Contains(s, Head(s))
           /\ Tail(s) \in Seq(S)
           /\ \A d \in S : Contains(Tail(s), d) <=> (Contains(s, d) /\ d # Head(s))
           /\ \A i, k \in 1 .. Len(Tail(s)) : Tail(s)[i] = Tail(s)[k] => i = k
<1> DEFINE t == Tail(s)
           h == Head(s)
<1>1. /\ t \in Seq(S)
      /\ Len(t) = Len(s) - 1
      /\ h = s[1]
      /\ h \in S
      /\ \A i \in 1 .. Len(t) : t[i] = s[i + 1]
      /\ Len(s) \in Nat \ {0}
  OBVIOUS
<1> HIDE DEF t, h
<1>2. Contains(s, h)
  BY <1>1 DEF Contains
<1>3. ASSUME NEW i \in 1 .. Len(t), NEW k \in 1 .. Len(t), t[i] = t[k]
      PROVE  i = k
  <2>1. i + 1 \in 1 .. Len(s) /\ k + 1 \in 1 .. Len(s) /\ s[i + 1] = s[k + 1]
    BY <1>1, <1>3
  <2> QED
    BY <2>1
<1>4. ASSUME NEW d \in S PROVE Contains(t, d) <=> (Contains(s, d) /\ d # h)
  <2>1. ASSUME NEW i \in 1 .. Len(t), t[i] = d PROVE Contains(s, d) /\ d # h
    <3>1. i + 1 \in 1 .. Len(s) /\ 1 \in 1 .. Len(s) /\ s[i + 1] = d /\ i + 1 # 1
      BY <1>1, <2>1
    <3> QED
      BY <1>1, <3>1 DEF Contains
  <2>2. ASSUME NEW i \in 1 .. Len(s), s[i] = d, d # h PROVE Contains(t, d)
    <3>1. i - 1 \in 1 .. Len(t)
      BY <1>1, <2>2
    <3>2. t[i - 1] = d
      BY <1>1, <2>2, <3>1
    <3> QED
      BY <3>1, <3>2 DEF Contains
  <2> QED
    BY <2>1, <2>2 DEF Contains
<1> QED
  BY <1>1, <1>2, <1>3, <1>4 DEF t, h

\* The slot invariant from its parts, in the next state.
LEMMA SlotInvNext ==
    ASSUME /\ queues' \in [Convs -> Seq(JobIds)]
           /\ running' \in SUBSET Convs
           /\ waiting' \in Seq(Convs)
           /\ phase' \in [Convs -> Phases]
           /\ n' \in [Convs -> 0 .. MaxAttempts]
           /\ held' \in SUBSET JobIds
           /\ sent' \in SUBSET JobIds
           /\ idleWaiting' \in BOOLEAN,
           \A c \in Convs : queues'[c] # <<>> <=> (c \in running' \/ Contains(waiting', c)),
           \A c \in running' : ~Contains(waiting', c),
           \A i, k \in 1 .. Len(waiting') : waiting'[i] = waiting'[k] => i = k,
           \A c \in Convs : c \in running' <=> phase'[c] # "none",
           Cardinality(running') <= MaxParallel,
           waiting' # <<>> => Cardinality(running') = MaxParallel,
           \A c \in Convs : phase'[c] = "backoff" => n'[c] < MaxAttempts,
           idleWaiting' => running' # {}
    PROVE  SlotInv'
<1>1. SlotType' BY DEF SlotType
<1>2. NobodyLost' BY DEF NobodyLost
<1>3. SlotsFullWhenWaiting' BY DEF SlotsFullWhenWaiting
<1>4. RetryLeft' BY DEF RetryLeft
<1> QED BY <1>1, <1>2, <1>3, <1>4 DEF SlotInv

\* A push keeps the slot invariant: the conversation ends up in a slot or in line.
LEMMA PushKeepsSlots ==
    ASSUME SlotInv, NEW c \in Convs, NEW j \in JobIds, NEW h \in SUBSET JobIds,
           Push(c, j, h), UNCHANGED idleWaiting
    PROVE  SlotInv'
<1>0. SlotType
  BY DEF SlotInv
<1>1. /\ queues' \in [Convs -> Seq(JobIds)]
      /\ queues'[c] # <<>>
      /\ Head(queues'[c]) \in JobIds
      /\ \A d \in Convs \ {c} : queues'[d] = queues[d]
  <2>1. queues' = [queues EXCEPT ![c] = Append(@, j)]
    BY DEF Push
  <2>2. queues \in [Convs -> Seq(JobIds)]
    BY <1>0 DEF SlotType
  <2>3. Append(queues[c], j) \in Seq(JobIds) /\ Append(queues[c], j) # <<>>
    BY <2>2
  <2>4. queues'[c] = Append(queues[c], j) /\ queues' \in [Convs -> Seq(JobIds)]
    BY <2>1, <2>2, <2>3
  <2> QED
    BY <2>1, <2>2, <2>3, <2>4
<1>2. CASE c \in running
  <2>1. held' = h /\ UNCHANGED <<running, waiting, phase, n, sent>>
    BY <1>2 DEF Push
  <2>2. \A d \in Convs : queues'[d] # <<>> <=> (d \in running' \/ Contains(waiting', d))
    BY <1>1, <1>2, <2>1, SlotFacts
  <2> QED
    BY <1>0, <1>1, <2>1, <2>2, SlotFacts, SlotInvNext DEF SlotType
<1>3. CASE c \notin running /\ ~SlotFree
  <2>1. /\ waiting' = JoinLine(c)
        /\ held' = h
        /\ UNCHANGED <<running, phase, n, sent>>
    BY <1>3 DEF Push
  <2>2. Cardinality(running) = MaxParallel
    <3>1. Cardinality(running) \in Nat /\ Cardinality(running) <= MaxParallel
      BY SlotFacts
    <3> QED
      BY <1>3, <3>1, LimitsAssumption DEF SlotFree
  <2>3. /\ waiting' \in Seq(Convs)
        /\ \A d \in Convs : Contains(waiting', d) <=> (Contains(waiting, d) \/ d = c)
        /\ \A i, k \in 1 .. Len(waiting') : waiting'[i] = waiting'[k] => i = k
    <3>1. waiting \in Seq(Convs) /\ \A i, k \in 1 .. Len(waiting) : waiting[i] = waiting[k] => i = k
      BY SlotFacts
    <3>2. CASE Contains(waiting, c)
      BY <2>1, <3>1, <3>2 DEF JoinLine
    <3>3. CASE ~Contains(waiting, c)
      BY <2>1, <3>1, <3>3, JoinFacts DEF JoinLine
    <3> QED
      BY <3>2, <3>3
  <2>4. \A d \in Convs : queues'[d] # <<>> <=> (d \in running' \/ Contains(waiting', d))
    BY <1>1, <2>1, <2>3, SlotFacts
  <2>5. \A d \in running' : ~Contains(waiting', d)
    BY <1>0, <1>3, <2>1, <2>3, SlotFacts DEF SlotType
  <2> QED
    BY <1>0, <1>1, <2>1, <2>2, <2>3, <2>4, <2>5, SlotFacts, SlotInvNext DEF SlotType
<1>4. CASE c \notin running /\ SlotFree
  <2>1. /\ running' = running \cup {c}
        /\ waiting' = RemoveFirst(waiting, c)
        /\ Begin(c, Head(queues'[c]), {}, h)
    BY <1>4 DEF Push
  <2>2. Cardinality(running) \in Nat /\ Cardinality(running) < MaxParallel
    BY <1>4, SlotFacts DEF SlotFree
  <2>3. waiting = <<>>
    BY <2>2, SlotFacts, LimitsAssumption
  <2>4. waiting' = <<>> /\ waiting' = waiting
    BY <2>1, <2>3 DEF RemoveFirst
  <2>5. /\ phase' \in [Convs -> Phases]
        /\ n' \in [Convs -> 0 .. MaxAttempts]
        /\ held' \in SUBSET JobIds
        /\ sent' \in SUBSET JobIds
        /\ phase'[c] \in {"sleep", "sent"}
        /\ \A d \in Convs \ {c} : phase'[d] = phase[d] /\ n'[d] = n[d]
    <3>1. {} \in SUBSET Convs
      OBVIOUS
    <3>2. \A x \in Convs \ {c} :
             /\ phase'[x] = IF x \in {} THEN "none" ELSE phase[x]
             /\ n'[x] = IF x \in {} THEN 0 ELSE n[x]
      BY <2>1 DEF Begin
    <3>3. /\ phase' \in [Convs -> Phases]
          /\ n' \in [Convs -> 0 .. MaxAttempts]
          /\ held' \in SUBSET JobIds
          /\ sent' \in SUBSET JobIds
          /\ phase'[c] \in {"sleep", "sent"}
      BY <1>0, <1>1, <2>1, <3>1, BeginFacts
    <3> QED
      BY <3>2, <3>3
  <2>6. Cardinality(running') <= MaxParallel
    <3>1. Cardinality(running') = Cardinality(running) + 1
      BY <1>4, <2>1, SlotFacts, FS_AddElement
    <3> QED
      BY <2>2, <3>1, LimitsAssumption
  <2>7. \A d \in Convs : ~Contains(waiting', d)
    BY <2>4 DEF Contains
  <2>8. \A d \in Convs : queues'[d] # <<>> <=> (d \in running' \/ Contains(waiting', d))
    BY <1>1, <2>1, <2>4, <2>7, SlotFacts
  <2>9. \A d \in Convs : d \in running' <=> phase'[d] # "none"
    BY <2>1, <2>5, SlotFacts
  <2>10. running' \in SUBSET Convs /\ running' # {}
    BY <1>0, <2>1 DEF SlotType
  <2>11. \A d \in Convs : phase'[d] = "backoff" => n'[d] < MaxAttempts
    BY <2>5, SlotFacts
  <2>12. \A d \in running' : ~Contains(waiting', d)
    BY <2>7, <2>10
  <2>13. waiting' \in Seq(Convs) /\ \A i, k \in 1 .. Len(waiting') : waiting'[i] = waiting'[k] => i = k
    BY <2>4, SlotFacts
  <2>14. idleWaiting' \in BOOLEAN
    BY <1>0 DEF SlotType
  <2> QED
    BY <1>1, <2>4, <2>5, <2>6, <2>8, <2>9, <2>10, <2>11, <2>12, <2>13, <2>14, SlotInvNext
<1> QED
  BY <1>2, <1>3, <1>4

\* The end of a task keeps the slot invariant: the slot passes to exactly one
\* conversation with work, or is freed when none is left.
LEMMA ReleaseKeepsSlots ==
    ASSUME SlotInv, NEW c \in running, Release(c)
    PROVE  SlotInv'
<1>0. SlotType /\ c \in Convs
  BY DEF SlotInv, SlotType
<1>1. /\ queues' \in [Convs -> Seq(JobIds)]
      /\ queues'[c] = Tail(queues[c])
      /\ \A d \in Convs \ {c} : queues'[d] = queues[d]
      /\ \A d \in Convs : queues[d] # <<>> => Head(queues[d]) \in JobIds
      /\ queues'[c] # <<>> => Head(queues'[c]) \in JobIds
  <2>1. queues' = [queues EXCEPT ![c] = Tail(@)]
    BY DEF Release
  <2>2. queues \in [Convs -> Seq(JobIds)]
    BY <1>0 DEF SlotType
  <2>3. Tail(queues[c]) \in Seq(JobIds)
    <3>1. queues[c] # <<>>
      BY <1>0, SlotFacts
    <3> QED
      BY <1>0, <2>2, <3>1
  <2> QED
    BY <1>0, <2>1, <2>2, <2>3
<1>2. idleWaiting' \in BOOLEAN /\ (idleWaiting' => Busy')
  BY DEF Release, SettleIdle
<1>3. CASE Tail(queues[c]) # <<>>
  <2>1. Heir(c) = {c}
    BY <1>3 DEF Heir
  <2>2. running' = running /\ waiting' = waiting /\ Begin(c, Head(queues'[c]), {c}, held)
    BY <2>1 DEF Release
  <2>3. /\ phase' \in [Convs -> Phases]
        /\ n' \in [Convs -> 0 .. MaxAttempts]
        /\ held' \in SUBSET JobIds
        /\ sent' \in SUBSET JobIds
        /\ phase'[c] \in {"sleep", "sent"}
        /\ \A d \in Convs \ {c} : phase'[d] = phase[d] /\ n'[d] = n[d]
    <3>1. {c} \in SUBSET Convs /\ held \in SUBSET JobIds /\ Head(queues'[c]) \in JobIds
      BY <1>0, <1>1, <1>3 DEF SlotType
    <3>2. \A x \in Convs \ {c} :
             /\ phase'[x] = IF x \in {c} THEN "none" ELSE phase[x]
             /\ n'[x] = IF x \in {c} THEN 0 ELSE n[x]
      BY <2>2 DEF Begin
    <3>3. /\ phase' \in [Convs -> Phases]
          /\ n' \in [Convs -> 0 .. MaxAttempts]
          /\ held' \in SUBSET JobIds
          /\ sent' \in SUBSET JobIds
          /\ phase'[c] \in {"sleep", "sent"}
      BY <1>0, <2>2, <3>1, BeginFacts
    <3> QED
      BY <3>2, <3>3
  <2>4. \A d \in Convs : queues'[d] # <<>> <=> (d \in running' \/ Contains(waiting', d))
    BY <1>1, <1>3, <2>2, SlotFacts
  <2>5. \A d \in Convs : d \in running' <=> phase'[d] # "none"
    BY <2>2, <2>3, SlotFacts
  <2>6. \A d \in Convs : phase'[d] = "backoff" => n'[d] < MaxAttempts
    BY <2>3, SlotFacts
  <2>7. running' \in SUBSET Convs /\ running' # {}
    BY <1>0, <2>2 DEF SlotType
  <2> QED
    BY <1>1, <1>2, <2>2, <2>3, <2>4, <2>5, <2>6, <2>7, SlotFacts, SlotInvNext
<1>4. CASE Tail(queues[c]) = <<>> /\ waiting # <<>>
  <2> DEFINE d == Head(waiting)
  <2>1. /\ d \in Convs
        /\ Contains(waiting, d)
        /\ Tail(waiting) \in Seq(Convs)
        /\ \A e \in Convs : Contains(Tail(waiting), e) <=> (Contains(waiting, e) /\ e # d)
        /\ \A i, k \in 1 .. Len(Tail(waiting)) : Tail(waiting)[i] = Tail(waiting)[k] => i = k
    BY <1>4, SlotFacts, LeaveFacts
  <2>2. d # c /\ d \notin running /\ queues[d] # <<>>
    BY <2>1, SlotFacts
  <2>3. Heir(c) = {d}
    BY <1>4 DEF Heir
  <2>4. /\ running' = (running \ {c}) \cup {d}
        /\ waiting' = Tail(waiting)
        /\ Begin(d, Head(queues'[d]), {c}, held)
    BY <2>2, <2>3 DEF Release
  <2> HIDE DEF d
  <2>5. /\ phase' \in [Convs -> Phases]
        /\ n' \in [Convs -> 0 .. MaxAttempts]
        /\ held' \in SUBSET JobIds
        /\ sent' \in SUBSET JobIds
        /\ phase'[d] \in {"sleep", "sent"}
        /\ phase'[c] = "none"
        /\ \A e \in Convs \ {c, d} : phase'[e] = phase[e] /\ n'[e] = n[e]
    <3>1. {c} \in SUBSET Convs /\ held \in SUBSET JobIds /\ Head(queues'[d]) \in JobIds
      BY <1>0, <1>1, <2>1, <2>2 DEF SlotType
    <3>2. \A x \in Convs \ {d} :
             /\ phase'[x] = IF x \in {c} THEN "none" ELSE phase[x]
             /\ n'[x] = IF x \in {c} THEN 0 ELSE n[x]
      BY <2>4 DEF Begin
    <3>3. /\ phase' \in [Convs -> Phases]
          /\ n' \in [Convs -> 0 .. MaxAttempts]
          /\ held' \in SUBSET JobIds
          /\ sent' \in SUBSET JobIds
          /\ phase'[d] \in {"sleep", "sent"}
      BY <1>0, <2>1, <2>4, <3>1, BeginFacts
    <3> QED
      BY <3>2, <3>3, <1>0, <2>2
  <2>6. Cardinality(running') = MaxParallel
    <3>1. Cardinality(running \ {c}) = Cardinality(running) - 1 /\ IsFiniteSet(running \ {c})
      BY SlotFacts, FS_RemoveElement
    <3>2. Cardinality((running \ {c}) \cup {d}) = Cardinality(running \ {c}) + 1
      BY <2>2, <3>1, FS_AddElement
    <3> QED
      BY <1>4, <2>4, <3>1, <3>2, SlotFacts
  <2>7. \A e \in Convs : queues'[e] # <<>> <=> (e \in running' \/ Contains(waiting', e))
    BY <1>1, <1>4, <2>1, <2>2, <2>4, SlotFacts
  <2>8. running' \in SUBSET Convs /\ running' # {}
    BY <1>0, <2>1, <2>4 DEF SlotType
  <2>9. \A e \in running' : ~Contains(waiting', e)
    BY <2>1, <2>4, <2>8, SlotFacts
  <2>10. \A e \in Convs : e \in running' <=> phase'[e] # "none"
    BY <2>1, <2>2, <2>4, <2>5, SlotFacts
  <2>11. \A e \in Convs : phase'[e] = "backoff" => n'[e] < MaxAttempts
    BY <2>5, SlotFacts
  <2>12. Cardinality(running') <= MaxParallel
    BY <2>6, LimitsAssumption
  <2> QED
    BY <1>1, <1>2, <2>1, <2>4, <2>5, <2>6, <2>7, <2>8, <2>9, <2>10, <2>11, <2>12, SlotInvNext
<1>5. CASE Tail(queues[c]) = <<>> /\ waiting = <<>>
  <2>1. Heir(c) = {}
    BY <1>5 DEF Heir
  <2>2. /\ running' = running \ {c}
        /\ waiting' = waiting
        /\ phase' = [phase EXCEPT ![c] = "none"]
        /\ n' = [n EXCEPT ![c] = 0]
        /\ UNCHANGED <<held, sent>>
    BY <2>1 DEF Release
  <2>3. /\ phase' \in [Convs -> Phases]
        /\ n' \in [Convs -> 0 .. MaxAttempts]
        /\ phase'[c] = "none"
        /\ \A d \in Convs \ {c} : phase'[d] = phase[d] /\ n'[d] = n[d]
    BY <1>0, <2>2, LimitsAssumption DEF Phases, SlotType
  <2>4. Cardinality(running') <= MaxParallel
    <3>1. Cardinality(running \ {c}) = Cardinality(running) - 1
      BY SlotFacts, FS_RemoveElement
    <3> QED
      BY <2>2, <3>1, SlotFacts, LimitsAssumption
  <2>5. \A d \in Convs : queues'[d] # <<>> <=> (d \in running' \/ Contains(waiting', d))
    <3>1. \A d \in Convs : ~Contains(waiting, d)
      BY <1>5 DEF Contains
    <3> QED
      BY <1>0, <1>1, <1>5, <2>2, <3>1, SlotFacts
  <2>6. \A d \in Convs : d \in running' <=> phase'[d] # "none"
    BY <2>2, <2>3, SlotFacts
  <2>7. \A d \in Convs : phase'[d] = "backoff" => n'[d] < MaxAttempts
    BY <2>3, SlotFacts
  <2>8. running' \in SUBSET Convs
    BY <1>0, <2>2 DEF SlotType
  <2>9. idleWaiting' => running' # {}
    <3>1. \A d \in Convs : ~Contains(waiting', d)
      BY <1>5, <2>2 DEF Contains
    <3> QED
      BY <1>2, <2>5, <3>1 DEF Busy
  <2>10. \A d \in running' : ~Contains(waiting', d)
    BY <2>2, SlotFacts
  <2>11. held' \in SUBSET JobIds /\ sent' \in SUBSET JobIds /\ waiting' \in Seq(Convs)
    BY <1>0, <2>2 DEF SlotType
  <2>12. /\ \A i, k \in 1 .. Len(waiting') : waiting'[i] = waiting'[k] => i = k
         /\ waiting' # <<>> => Cardinality(running') = MaxParallel
    BY <1>5, <2>2, SlotFacts
  <2> QED
    BY <1>1, <1>2, <2>3, <2>4, <2>5, <2>6, <2>7, <2>8, <2>9, <2>10, <2>11, <2>12, SlotInvNext
<1> QED
  BY <1>3, <1>4, <1>5

\* A step of a task that stays in its slot keeps the slot invariant.
LEMMA TaskStepKeepsSlots ==
    ASSUME SlotInv, NEW c \in Convs, phase[c] # "none",
           NEW p \in Phases \ {"none"}, phase' = [phase EXCEPT ![c] = p],
           n' \in [Convs -> 0 .. MaxAttempts],
           \A d \in Convs \ {c} : n'[d] = n[d],
           p = "backoff" => n'[c] < MaxAttempts,
           sent' \in SUBSET JobIds,
           UNCHANGED <<slotVars, held, idleWaiting>>
    PROVE  SlotInv'
<1>1. SlotType
  BY DEF SlotInv
<1>2. /\ phase' \in [Convs -> Phases]
      /\ phase'[c] = p
      /\ \A d \in Convs \ {c} : phase'[d] = phase[d]
  BY <1>1 DEF SlotType
<1>3. \A d \in Convs : d \in running' <=> phase'[d] # "none"
  BY <1>2, SlotFacts DEF slotVars
<1>4. \A d \in Convs : phase'[d] = "backoff" => n'[d] < MaxAttempts
  BY <1>2, SlotFacts
<1>5. queues' = queues /\ running' = running /\ waiting' = waiting /\ held' = held /\ idleWaiting' = idleWaiting
  BY DEF slotVars
<1> QED
  BY <1>1, <1>2, <1>3, <1>4, <1>5, SlotFacts, SlotInvNext DEF SlotType

\* Empty memory satisfies the slot invariant.
LEMMA DropKeepsSlots ==
    ASSUME SlotInv, DropMemory, UNCHANGED sent
    PROVE  SlotInv'
<1>1. /\ queues' = [c \in Convs |-> <<>>]
      /\ running' = {}
      /\ waiting' = <<>>
      /\ phase' = [c \in Convs |-> "none"]
      /\ n' = [c \in Convs |-> 0]
      /\ held' = {}
  BY DEF DropMemory
<1>2. ~Busy'
  BY <1>1 DEF Busy
<1>3. idleWaiting' = FALSE
  BY <1>2 DEF DropMemory, SettleIdle
<1>4. sent' \in SUBSET JobIds
  BY DEF SlotInv, SlotType
<1>5. Cardinality(running') = 0
  BY <1>1, FS_EmptySet
<1>6. /\ queues' \in [Convs -> Seq(JobIds)]
      /\ phase' \in [Convs -> Phases]
      /\ n' \in [Convs -> 0 .. MaxAttempts]
      /\ waiting' \in Seq(Convs)
      /\ Len(waiting') = 0
  BY <1>1, LimitsAssumption DEF Phases
<1>7. \A c \in Convs : ~Contains(waiting', c)
  BY <1>6 DEF Contains
<1>8. /\ \A c \in Convs : queues'[c] # <<>> <=> (c \in running' \/ Contains(waiting', c))
      /\ \A c \in running' : ~Contains(waiting', c)
      /\ \A c \in Convs : c \in running' <=> phase'[c] # "none"
      /\ \A c \in Convs : phase'[c] = "backoff" => n'[c] < MaxAttempts
  BY <1>1, <1>7
<1>9. /\ \A i, k \in 1 .. Len(waiting') : waiting'[i] = waiting'[k] => i = k
      /\ Cardinality(running') <= MaxParallel
      /\ waiting' # <<>> => Cardinality(running') = MaxParallel
  BY <1>1, <1>5, <1>6, LimitsAssumption
<1> QED
  BY <1>1, <1>3, <1>4, <1>6, <1>8, <1>9, SlotInvNext

\* The head of the queue of a conversation with a task is a job.
LEMMA HeadIsJob ==
    ASSUME SlotInv, NEW c \in Convs, phase[c] # "none"
    PROVE  /\ c \in running
           /\ queues[c] \in Seq(JobIds)
           /\ queues[c] # <<>>
           /\ Head(queues[c]) \in JobIds
<1>1. c \in running /\ queues[c] # <<>>
  BY SlotFacts
<1>2. queues[c] \in Seq(JobIds)
  BY DEF SlotInv, SlotType
<1> QED
  BY <1>1, <1>2

LEMMA InitEstablishesIInv == Init => IInv
<1> SUFFICES ASSUME Init PROVE IInv
  OBVIOUS
<1>1. RestType /\ PendingHasConv
  <2>1. /\ conv \in [JobIds -> Convs \cup {NoConv}]
        /\ state \in [JobIds -> JobStates]
        /\ \A j \in JobIds : state[j] # "pending"
        /\ tries \in [JobIds -> Nat]
    BY DEF Init, JobStates
  <2>2. 1 \in 1 .. MaxJobs + 1 /\ 0 \in 0 .. MaxCrashes /\ 0 \in 0 .. MaxStoreErrors
    BY BoundsAssumption
  <2> QED
    BY <2>1, <2>2 DEF Init, RestType, PendingHasConv
<1>2. SlotType
  <2>1. /\ queues \in [Convs -> Seq(JobIds)]
        /\ waiting \in Seq(Convs)
        /\ phase \in [Convs -> Phases]
        /\ n \in [Convs -> 0 .. MaxAttempts]
    BY LimitsAssumption DEF Init, Phases
  <2> QED
    BY <2>1 DEF Init, SlotType
<1>3. \A c \in Convs : ~Contains(waiting, c)
  BY DEF Init, Contains
<1>4. NobodyLost
  BY <1>3 DEF Init, NobodyLost
<1>5. SlotsFullWhenWaiting
  BY LimitsAssumption, FS_EmptySet DEF Init, SlotsFullWhenWaiting
<1>6. RetryLeft /\ (idleWaiting => running # {})
  BY DEF Init, RetryLeft
<1> QED
  BY <1>1, <1>2, <1>4, <1>5, <1>6 DEF IInv, SlotInv

\* Writing a verdict, or none, keeps the types of the table.
LEMMA VerdictKeepsRest ==
    ASSUME RestType, PendingHasConv, NEW j \in JobIds,
           \/ UNCHANGED state
           \/ \E v \in {"ok", "failed"} : state' = [state EXCEPT ![j] = v],
           tries' \in {tries, [tries EXCEPT ![j] = @ + 1]},
           late' \in {late, late \cup {j}},
           storeErrors' \in 0 .. MaxStoreErrors,
           dropped' \in {dropped, dropped \cup {j}},
           UNCHANGED <<conv, nextId, bootVars, received, crashes>>
    PROVE  RestType' /\ PendingHasConv'
<1>1. /\ state' \in [JobIds -> JobStates]
      /\ \A i \in JobIds : state'[i] = "pending" => state[i] = "pending"
  BY DEF RestType, JobStates
<1>2. tries' \in [JobIds -> Nat] /\ late' \in SUBSET JobIds /\ dropped' \in SUBSET JobIds
  BY DEF RestType
<1>3. RestType'
  BY <1>1, <1>2 DEF RestType, bootVars
<1>4. PendingHasConv'
  BY <1>1 DEF PendingHasConv
<1> QED
  BY <1>3, <1>4

LEMMA StepKeepsIInv == IInv /\ [Next]_vars => IInv'
<1> SUFFICES ASSUME IInv, [Next]_vars PROVE IInv'
  OBVIOUS
<1>0. /\ SlotInv /\ SlotType /\ RestType /\ PendingHasConv
  BY DEF IInv, SlotInv
<1>1. ASSUME NEW c \in Convs, NEW hold \in BOOLEAN, Enqueue(c, hold) PROVE IInv'
  <2>1. nextId \in JobIds
    BY <1>0, <1>1, BoundsAssumption DEF Enqueue, RestType, JobIds
  <2>2. SlotInv'
    <3>1. (IF hold THEN held \cup {nextId} ELSE held) \in SUBSET JobIds
      BY <1>0, <2>1 DEF SlotType
    <3>2. UNCHANGED idleWaiting /\ Push(c, nextId, IF hold THEN held \cup {nextId} ELSE held)
      BY <1>1 DEF Enqueue
    <3> QED
      BY <1>0, <2>1, <3>1, <3>2, PushKeepsSlots
  <2>3. /\ conv' = [conv EXCEPT ![nextId] = c]
        /\ state' = [state EXCEPT ![nextId] = "pending"]
        /\ nextId' = nextId + 1
        /\ UNCHANGED <<tries, mode, cursor, received, late, crashes, storeErrors, dropped>>
    BY <1>1 DEF Enqueue, bootVars, comdove, failures
  <2>4. RestType'
    BY <1>0, <2>1, <2>3, BoundsAssumption DEF RestType, JobStates, JobIds
  <2>5. PendingHasConv'
    BY <1>0, <2>1, <2>3 DEF PendingHasConv, RestType
  <2> QED
    BY <2>2, <2>4, <2>5 DEF IInv
<1>2. ASSUME NEW c \in Convs, SleepEnds(c) PROVE IInv'
  <2>1. Head(queues[c]) \in JobIds
    BY <1>0, <1>2, HeadIsJob DEF SleepEnds
  <2>2. SlotInv'
    <3>1. sent' \in SUBSET JobIds /\ n' \in [Convs -> 0 .. MaxAttempts] /\ n' = n
      BY <1>0, <1>2, <2>1 DEF SleepEnds, SlotType
    <3>2. "sent" \in Phases \ {"none"}
      BY DEF Phases
    <3> QED
      BY <1>0, <1>2, <3>1, <3>2, TaskStepKeepsSlots DEF SleepEnds
  <2> QED
    BY <1>0, <1>2, <2>2 DEF SleepEnds, IInv, RestType, PendingHasConv, storeVars, bootVars, comdove, failures
<1>3. ASSUME NEW c \in Convs, Handle(c) PROVE IInv'
  <2>1. Head(queues[c]) \in JobIds
    BY <1>0, <1>3, HeadIsJob DEF Handle
  <2>2. SlotInv'
    <3>1. sent' \in SUBSET JobIds /\ n' \in [Convs -> 0 .. MaxAttempts] /\ n' = n
      BY <1>0, <1>3 DEF Handle, SlotType
    <3>2. "handled" \in Phases \ {"none"}
      BY DEF Phases
    <3> QED
      BY <1>0, <1>3, <3>1, <3>2, TaskStepKeepsSlots DEF Handle
  <2> QED
    BY <1>0, <1>3, <2>1, <2>2 DEF Handle, IInv, RestType, PendingHasConv, storeVars, bootVars, failures
<1>4. ASSUME NEW j \in JobIds, HandleLate(j) PROVE IInv'
  <2>1. SlotInv'
    BY <1>0, <1>4, SlotFacts, SlotInvNext DEF HandleLate, slotVars, taskVars, SlotType
  <2> QED
    BY <1>0, <1>4, <2>1 DEF HandleLate, IInv, RestType, PendingHasConv, storeVars, bootVars, failures
<1>5. ASSUME NEW c \in Convs, AttemptEnds(c) PROVE IInv'
  <2> DEFINE j == Head(queues[c])
  <2>1. CASE AttemptOk(c)
    <3>1. c \in running /\ j \in JobIds
      BY <1>0, <2>1, HeadIsJob DEF AttemptOk, Answered200
    <3>2. SlotInv'
      BY <1>0, <2>1, <3>1, ReleaseKeepsSlots DEF AttemptOk
    <3>3. RestType' /\ PendingHasConv'
      <4>1. /\ state' = [state EXCEPT ![j] = "ok"]
            /\ tries' = [tries EXCEPT ![j] = @ + 1]
            /\ late' = late /\ UNCHANGED <<storeErrors, dropped>>
            /\ UNCHANGED <<conv, nextId, bootVars, received, crashes>>
        BY <2>1 DEF AttemptOk, Finish, comdove, failures
      <4>2. storeErrors' \in 0 .. MaxStoreErrors
        BY <1>0, <4>1 DEF RestType
      <4> HIDE DEF j
      <4> QED
        BY <1>0, <3>1, <4>1, <4>2, VerdictKeepsRest
    <3> QED
      BY <3>2, <3>3 DEF IInv
  <2>2. ASSUME NEW open \in BOOLEAN, AttemptMissed(c, open) PROVE IInv'
    <3>1. c \in running /\ j \in JobIds /\ phase[c] # "none"
      BY <1>0, <2>2, HeadIsJob DEF AttemptMissed
    <3>2. SlotInv'
      <4>1. sent' \in SUBSET JobIds /\ n' \in [Convs -> 0 .. MaxAttempts] /\ n' = n /\ n[c] < MaxAttempts
        BY <1>0, <2>2 DEF AttemptMissed, AttemptsLeft, SlotType
      <4>2. "backoff" \in Phases \ {"none"}
        BY DEF Phases
      <4>3. phase' = [phase EXCEPT ![c] = "backoff"] /\ UNCHANGED <<slotVars, held, idleWaiting>>
        BY <2>2 DEF AttemptMissed
      <4> QED
        BY <1>0, <3>1, <4>1, <4>2, <4>3, TaskStepKeepsSlots
    <3>3. RestType' /\ PendingHasConv'
      <4>1. /\ UNCHANGED state
            /\ tries' = [tries EXCEPT ![j] = @ + 1]
            /\ late' \in {late, late \cup {j}} /\ UNCHANGED <<storeErrors, dropped>>
            /\ UNCHANGED <<conv, nextId, bootVars, received, crashes>>
        BY <2>2 DEF AttemptMissed, Abandon, failures
      <4>2. storeErrors' \in 0 .. MaxStoreErrors
        BY <1>0, <4>1 DEF RestType
      <4> HIDE DEF j
      <4> QED
        BY <1>0, <3>1, <4>1, <4>2, VerdictKeepsRest
    <3> QED
      BY <3>2, <3>3 DEF IInv
  <2>3. ASSUME NEW open \in BOOLEAN, LastAttemptMissed(c, open) PROVE IInv'
    <3>1. c \in running /\ j \in JobIds
      BY <1>0, <2>3, HeadIsJob DEF LastAttemptMissed
    <3>2. SlotInv'
      BY <1>0, <2>3, <3>1, ReleaseKeepsSlots DEF LastAttemptMissed
    <3>3. RestType' /\ PendingHasConv'
      <4>1. /\ state' = [state EXCEPT ![j] = "failed"]
            /\ tries' = [tries EXCEPT ![j] = @ + 1]
            /\ late' \in {late, late \cup {j}} /\ UNCHANGED <<storeErrors, dropped>>
            /\ UNCHANGED <<conv, nextId, bootVars, received, crashes>>
        BY <2>3 DEF LastAttemptMissed, Finish, Abandon, failures
      <4>2. storeErrors' \in 0 .. MaxStoreErrors
        BY <1>0, <4>1 DEF RestType
      <4> HIDE DEF j
      <4> QED
        BY <1>0, <3>1, <4>1, <4>2, VerdictKeepsRest
    <3> QED
      BY <3>2, <3>3 DEF IInv
  <2>4. ASSUME NEW atFinish \in BOOLEAN, NEW open \in BOOLEAN, StoreWriteFails(c, atFinish, open)
        PROVE  IInv'
    <3>1. c \in running /\ j \in JobIds
      BY <1>0, <2>4, HeadIsJob DEF StoreWriteFails
    <3>2. SlotInv'
      BY <1>0, <2>4, <3>1, ReleaseKeepsSlots DEF StoreWriteFails
    <3>3. RestType' /\ PendingHasConv'
      <4>1. /\ UNCHANGED state
            /\ tries' \in {tries, [tries EXCEPT ![j] = @ + 1]}
            /\ late' \in {late, late \cup {j}}
            /\ storeErrors < MaxStoreErrors /\ storeErrors' = storeErrors + 1
            /\ dropped' = dropped \cup {j}
            /\ UNCHANGED <<conv, nextId, bootVars, received, crashes>>
        BY <2>4 DEF StoreWriteFails, Abandon
      <4>2. storeErrors' \in 0 .. MaxStoreErrors
        BY <1>0, <4>1, BoundsAssumption DEF RestType
      <4> HIDE DEF j
      <4> QED
        BY <1>0, <3>1, <4>1, <4>2, VerdictKeepsRest
    <3> QED
      BY <3>2, <3>3 DEF IInv
  <2> QED
    BY <1>5, <2>1, <2>2, <2>3, <2>4 DEF AttemptEnds
<1>6. ASSUME NEW c \in Convs, BackoffEnds(c) PROVE IInv'
  <2>1. SlotInv'
    <3>1. n' = [n EXCEPT ![c] = @ + 1] /\ phase[c] = "backoff" /\ n[c] < MaxAttempts
      BY <1>0, <1>6, SlotFacts DEF BackoffEnds
    <3>2. /\ sent' \in SUBSET JobIds
          /\ n' \in [Convs -> 0 .. MaxAttempts]
          /\ \A d \in Convs \ {c} : n'[d] = n[d]
      BY <1>0, <1>6, <3>1, LimitsAssumption DEF BackoffEnds, SlotType
    <3>3. "sent" \in Phases \ {"none"}
      BY DEF Phases
    <3>4. phase' = [phase EXCEPT ![c] = "sent"] /\ UNCHANGED <<slotVars, held, idleWaiting>>
      BY <1>6 DEF BackoffEnds
    <3> QED
      BY <1>0, <3>1, <3>2, <3>3, <3>4, TaskStepKeepsSlots
  <2> QED
    BY <1>0, <1>6, <2>1 DEF BackoffEnds, IInv, RestType, PendingHasConv, storeVars, bootVars, comdove, failures
<1>7. ASSUME Idle PROVE IInv'
  <2>1. idleWaiting' = Busy
    BY <1>7 DEF Idle
  <2>2. idleWaiting' \in BOOLEAN
    BY <2>1 DEF Busy
  <2>3. idleWaiting' => running # {}
    <3>1. SUFFICES ASSUME idleWaiting', running = {} PROVE FALSE
      OBVIOUS
    <3>2. PICK c \in Convs : queues[c] # <<>>
      BY <2>1, <3>1 DEF Busy
    <3>3. Contains(waiting, c)
      BY <1>0, <3>1, <3>2, SlotFacts
    <3>4. waiting # <<>>
      BY <3>3 DEF Contains
    <3>5. Cardinality(running) = MaxParallel
      BY <1>0, <3>4, SlotFacts
    <3> QED
      BY <3>1, <3>5, FS_EmptySet, LimitsAssumption
  <2>4. SlotInv'
    BY <1>0, <1>7, <2>2, <2>3, SlotFacts, SlotInvNext DEF Idle, slotVars, taskVars, SlotType
  <2> QED
    BY <1>0, <1>7, <2>4 DEF Idle, IInv, RestType, PendingHasConv, storeVars, bootVars, comdove, failures
<1>8. ASSUME Reset PROVE IInv'
  <2>1. SlotInv'
    BY <1>0, <1>8, DropKeepsSlots DEF Reset
  <2>2. OnWire \subseteq JobIds
    BY <1>0, HeadIsJob DEF OnWire
  <2>3. late' \in SUBSET JobIds
    BY <1>0, <1>8, <2>2 DEF Reset, DropMemory, RestType
  <2>4. /\ state' \in [JobIds -> JobStates]
        /\ \A j \in JobIds : state'[j] # "pending"
        /\ tries' \in [JobIds -> Nat]
    BY <1>0, <1>8 DEF Reset, RestType, JobStates
  <2>5. UNCHANGED <<conv, nextId, mode, cursor, received, crashes, storeErrors, dropped>>
    BY <1>8 DEF Reset, bootVars, failures
  <2>6. RestType' /\ PendingHasConv'
    BY <1>0, <2>3, <2>4, <2>5 DEF RestType, PendingHasConv
  <2> QED
    BY <2>1, <2>6 DEF IInv
<1>9. ASSUME Crash PROVE IInv'
  <2>1. SlotInv'
    BY <1>0, <1>9, DropKeepsSlots DEF Crash
  <2>2. OnWire \subseteq JobIds
    BY <1>0, HeadIsJob DEF OnWire
  <2>3. late' \in SUBSET JobIds
    BY <1>0, <1>9, <2>2 DEF Crash, DropMemory, RestType
  <2>4. tries' \in [JobIds -> Nat]
    BY <1>0, <1>9 DEF Crash, RestType
  <2>5. /\ mode' = "booting" /\ cursor' = 1
        /\ crashes < MaxCrashes /\ crashes' = crashes + 1
        /\ UNCHANGED <<conv, state, nextId, received, storeErrors, dropped>>
    BY <1>9 DEF Crash
  <2>6. RestType' /\ PendingHasConv'
    BY <1>0, <2>3, <2>4, <2>5, BoundsAssumption DEF RestType, PendingHasConv
  <2> QED
    BY <2>1, <2>6 DEF IInv
<1>10. ASSUME NEW j \in JobIds, Resume(j) PROVE IInv'
  <2>1. conv[j] \in Convs
    BY <1>0, <1>10 DEF Resume, Resumable, PendingHasConv
  <2>2. SlotInv'
    <3>1. held \in SUBSET JobIds /\ Push(conv[j], j, held) /\ UNCHANGED idleWaiting
      BY <1>0, <1>10 DEF Resume, SlotType
    <3> QED
      BY <1>0, <2>1, <3>1, PushKeepsSlots
  <2>3. cursor' = j + 1 /\ UNCHANGED <<conv, state, tries, nextId, mode, received, late, crashes, storeErrors, dropped>>
    BY <1>10 DEF Resume, storeVars, comdove, failures
  <2>4. cursor' \in 1 .. MaxJobs + 1
    BY <2>3, BoundsAssumption DEF JobIds
  <2> QED
    BY <1>0, <2>2, <2>3, <2>4 DEF IInv, RestType, PendingHasConv
<1>11. ASSUME BootDone PROVE IInv'
  <2>1. SlotInv'
    BY <1>0, <1>11, SlotFacts, SlotInvNext DEF BootDone, slotVars, taskVars, SlotType
  <2>2. mode' \in {"up", "booting"} /\ cursor' \in 1 .. MaxJobs + 1
    BY <1>11, BoundsAssumption DEF BootDone
  <2> QED
    BY <1>0, <1>11, <2>1, <2>2 DEF BootDone, IInv, RestType, PendingHasConv, storeVars, comdove, failures
<1>12. CASE UNCHANGED vars
  <2>1. SlotInv'
    BY <1>0, <1>12, SlotFacts, SlotInvNext DEF vars, slotVars, taskVars, SlotType
  <2> QED
    BY <1>0, <1>12, <2>1 DEF vars, IInv, RestType, PendingHasConv, storeVars, bootVars, comdove, failures
<1> QED
  BY <1>1, <1>2, <1>3, <1>4, <1>5, <1>6, <1>7, <1>8, <1>9, <1>10, <1>11, <1>12 DEF Next

LEMMA IInvHolds == Spec => []IInv
BY InitEstablishesIInv, StepKeepsIInv, PTL DEF Spec

\* Every variable keeps its type, for every value of the constants.
THEOREM TypeCorrect == Spec => []TypeOK
<1>1. IInv => TypeOK
  BY DEF IInv, SlotInv, SlotType, RestType, TypeOK
<1> QED
  BY <1>1, IInvHolds, PTL

\* No conversation with queued webhooks is ever forgotten: it has a slot or
\* stands in line exactly once.
THEOREM NobodyLostHolds == Spec => []NobodyLost
<1>1. IInv => NobodyLost
  BY DEF IInv, SlotInv
<1> QED
  BY <1>1, IInvHolds, PTL

\* At most maxParallel conversations call Comdove at once, and no slot stays
\* free while a conversation waits.
THEOREM SlotsHold == Spec => []SlotsFullWhenWaiting
<1>1. IInv => SlotsFullWhenWaiting
  BY DEF IInv, SlotInv
<1> QED
  BY <1>1, IInvHolds, PTL

\* idle() never keeps a caller when no task is left to wake it.
THEOREM NoStrandedIdleHolds == Spec => []NoStrandedIdle
<1>1. IInv => NoStrandedIdle
  BY DEF IInv, SlotInv, NoStrandedIdle
<1> QED
  BY <1>1, IInvHolds, PTL

-----------------------------------------------------------------------------
(* The order: what the queues know about the table, and what that says of   *)
(* the jobs on the wire.                                                    *)

Ascending(q) == \A i, k \in 1 .. Len(q) : i < k => q[i] < q[k]

\* A queue of ascending job ids, one longer at the end.
LEMMA AscendingAppend ==
    ASSUME NEW q \in Seq(JobIds), Ascending(q), NEW j \in JobIds,
           \A x \in JobIds : Contains(q, x) => x < j
    PROVE  /\ Ascending(Append(q, j))
           /\ \A x \in JobIds : Contains(Append(q, j), x) <=> (Contains(q, x) \/ x = j)
<1>1. \A i \in 1 .. Len(q) : q[i] \in JobIds /\ q[i] < j
  BY DEF Contains
<1>2. \A i, k \in 1 .. Len(q) : q[i] = q[k] => i = k
  BY <1>1 DEF Ascending, JobIds
<1>3. ~Contains(q, j)
  BY <1>1 DEF Contains, JobIds
<1>4. \A x \in JobIds : Contains(Append(q, j), x) <=> (Contains(q, x) \/ x = j)
  BY <1>2, <1>3, JoinFacts
<1>5. /\ Len(Append(q, j)) = Len(q) + 1
      /\ Append(q, j)[Len(q) + 1] = j
      /\ \A i \in 1 .. Len(q) : Append(q, j)[i] = q[i]
      /\ Len(q) \in Nat
  OBVIOUS
<1>6. ASSUME NEW i \in 1 .. Len(q) + 1, NEW k \in 1 .. Len(q) + 1, i < k
      PROVE  Append(q, j)[i] < Append(q, j)[k]
  <2>1. i \in 1 .. Len(q)
    BY <1>5, <1>6
  <2>2. CASE k \in 1 .. Len(q)
    BY <1>5, <1>6, <2>1, <2>2 DEF Ascending
  <2>3. CASE k = Len(q) + 1
    BY <1>1, <1>5, <2>1, <2>3
  <2> QED
    BY <1>5, <2>2, <2>3
<1> QED
  BY <1>4, <1>5, <1>6 DEF Ascending

\* A queue of ascending job ids: its head is its least, and what follows.
LEMMA AscendingTail ==
    ASSUME NEW q \in Seq(JobIds), Ascending(q), q # <<>>
    PROVE  /\ Tail(q) \in Seq(JobIds)
           /\ Ascending(Tail(q))
           /\ Contains(q, Head(q)) /\ Head(q) \in JobIds
           /\ \A x \in JobIds : Contains(Tail(q), x) <=> (Contains(q, x) /\ x # Head(q))
           /\ \A x \in JobIds : Contains(q, x) => Head(q) <= x
<1>1. \A i \in 1 .. Len(q) : q[i] \in JobIds
  OBVIOUS
<1>2. \A i, k \in 1 .. Len(q) : q[i] = q[k] => i = k
  BY <1>1 DEF Ascending, JobIds
<1>3. /\ Tail(q) \in Seq(JobIds)
      /\ Contains(q, Head(q)) /\ Head(q) \in JobIds
      /\ \A x \in JobIds : Contains(Tail(q), x) <=> (Contains(q, x) /\ x # Head(q))
  BY <1>2, LeaveFacts
<1>4. /\ Len(Tail(q)) = Len(q) - 1
      /\ \A i \in 1 .. Len(Tail(q)) : Tail(q)[i] = q[i + 1]
      /\ Head(q) = q[1]
      /\ Len(q) \in Nat \ {0}
  OBVIOUS
<1>5. Ascending(Tail(q))
  <2>1. SUFFICES ASSUME NEW i \in 1 .. Len(Tail(q)), NEW k \in 1 .. Len(Tail(q)), i < k
                 PROVE  Tail(q)[i] < Tail(q)[k]
    BY DEF Ascending
  <2>2. i + 1 \in 1 .. Len(q) /\ k + 1 \in 1 .. Len(q) /\ i + 1 < k + 1
    BY <1>4, <2>1
  <2> QED
    BY <1>4, <2>2 DEF Ascending
<1>6. ASSUME NEW x \in JobIds, Contains(q, x) PROVE Head(q) <= x
  <2>1. PICK i \in 1 .. Len(q) : q[i] = x
    BY <1>6 DEF Contains
  <2>2. CASE i = 1
    BY <1>4, <2>1, <2>2 DEF JobIds
  <2>3. CASE i # 1
    <3>1. 1 \in 1 .. Len(q) /\ 1 < i
      BY <1>4, <2>1, <2>3
    <3>2. q[1] < q[i]
      BY <3>1 DEF Ascending
    <3> QED
      BY <1>1, <1>4, <2>1, <3>1, <3>2 DEF JobIds
  <2> QED
    BY <2>2, <2>3
<1> QED
  BY <1>3, <1>5, <1>6

\* Job ids are handed out in order, each to one conversation; only a job that
\* exists is ever sent.
TableShape ==
    /\ \A j \in JobIds : state[j] = "absent" <=> j >= nextId
    /\ \A j \in JobIds : state[j] # "absent" => conv[j] \in Convs
    /\ \A j \in sent : j < nextId

\* The boot loop has not queued anything beyond its cursor yet.
BootAhead == mode = "booting" => \A c \in Convs, j \in JobIds : Contains(queues[c], j) => j < cursor

JInv == IInv /\ TableShape /\ QueuesMirrorStore /\ BootAhead /\ NoOvertaking

\* The same, one fact at a time.
LEMMA MirrorFacts ==
    ASSUME IInv, QueuesMirrorStore
    PROVE  /\ \A c \in Convs : queues[c] \in Seq(JobIds) /\ Ascending(queues[c])
           /\ \A c \in Convs, j \in JobIds :
                 Contains(queues[c], j) => (conv[j] = c /\ state[j] = "pending")
BY DEF IInv, SlotInv, SlotType, QueuesMirrorStore, Ascending

\* The head of a queue is the first job of its conversation without a verdict,
\* the dropped ones aside.
HeadsFirst ==
    \A c \in Convs : queues[c] # <<>> =>
        \A i \in JobIds : (i < Head(queues[c]) /\ conv[i] = c) =>
                              (state[i] # "pending" \/ i \in dropped)

LEMMA HeadIsFirst == (IInv /\ QueuesMirrorStore /\ BootAhead) => HeadsFirst
<1> SUFFICES ASSUME IInv, QueuesMirrorStore, BootAhead,
                    NEW c \in Convs, queues[c] # <<>>,
                    NEW i \in JobIds, i < Head(queues[c]), conv[i] = c, state[i] = "pending",
                    i \notin dropped
             PROVE  FALSE
  BY DEF HeadsFirst
<1>1. queues[c] \in Seq(JobIds) /\ Ascending(queues[c])
  BY MirrorFacts
<1>2. /\ Head(queues[c]) \in JobIds
      /\ Contains(queues[c], Head(queues[c]))
      /\ \A x \in JobIds : Contains(queues[c], x) => Head(queues[c]) <= x
  BY <1>1, AscendingTail
<1>3. CASE Contains(queues[c], i)
  BY <1>2, <1>3 DEF JobIds
<1>4. CASE mode = "booting" /\ i >= cursor
  <2>1. Head(queues[c]) < cursor
    BY <1>2, <1>4 DEF BootAhead
  <2> QED
    BY <1>2, <1>4, <2>1 DEF JobIds, IInv, RestType
<1> QED
  BY <1>3, <1>4 DEF QueuesMirrorStore, Pending

\* NoOvertaking in the next state: what is newly sent is the head of a queue.
LEMMA OrderNext ==
    ASSUME JInv, IInv', QueuesMirrorStore', BootAhead',
           dropped \subseteq dropped',
           \A j \in JobIds : j < nextId => conv'[j] = conv[j],
           \A j \in JobIds : (state'[j] = "pending" /\ state[j] # "pending") => j >= nextId,
           \A j \in JobIds : (state'[j] = "pending") => conv'[j] \in Convs,
           \A j \in sent' : \/ j \in sent
                            \/ \E c \in Convs : /\ queues'[c] # <<>>
                                                /\ j = Head(queues'[c])
    PROVE  NoOvertaking'
<1> SUFFICES ASSUME NEW i \in JobIds, NEW j \in JobIds, j \in sent',
                    i < j, conv'[i] = conv'[j], state'[i] = "pending", i \notin dropped'
             PROVE  FALSE
  <2>1. sent' \in SUBSET JobIds
    BY DEF IInv, SlotInv, SlotType
  <2> QED
    BY <2>1 DEF NoOvertaking
<1>1. CASE j \in sent
  <2>1. j < nextId /\ nextId \in Nat
    BY <1>1 DEF JInv, TableShape, IInv, RestType
  <2>2. i < nextId
    BY <2>1 DEF JobIds
  <2>3. conv[i] = conv[j] /\ state[i] = "pending"
    BY <2>1, <2>2 DEF JobIds
  <2> QED
    BY <1>1, <2>3 DEF JInv, NoOvertaking
<1>2. CASE j \notin sent
  <2>1. PICK c \in Convs : queues'[c] # <<>> /\ j = Head(queues'[c])
    BY <1>2
  <2>2. conv'[j] = c
    <3>1. queues'[c] \in Seq(JobIds) /\ Ascending(queues'[c])
      BY DEF IInv, SlotInv, SlotType, QueuesMirrorStore, Ascending
    <3>2. Contains(queues'[c], j)
      BY <2>1, <3>1, AscendingTail
    <3> QED
      BY <3>2 DEF QueuesMirrorStore
  <2>3. HeadsFirst'
    BY HeadIsFirst, PTL
  <2> QED
    BY <2>1, <2>2, <2>3 DEF HeadsFirst
<1> QED
  BY <1>1, <1>2

\* Only a head of a queue is newly sent.
SentAreHeads ==
    \A j \in sent' : j \in sent \/ \E d \in Convs : queues'[d] # <<>> /\ j = Head(queues'[d])

LEMMA PushSends ==
    ASSUME SlotInv, NEW c \in Convs, NEW j \in JobIds, NEW h, Push(c, j, h)
    PROVE  /\ queues' = [queues EXCEPT ![c] = Append(@, j)]
           /\ SentAreHeads
<1>1. queues' = [queues EXCEPT ![c] = Append(@, j)]
  BY DEF Push
<1>2. queues'[c] # <<>>
  <2>1. queues[c] \in Seq(JobIds) /\ queues'[c] = Append(queues[c], j)
    BY <1>1 DEF SlotInv, SlotType
  <2> QED
    BY <2>1
<1>3. sent' = sent \/ Begin(c, Head(queues'[c]), {}, h)
  BY DEF Push
<1> QED
  BY <1>1, <1>2, <1>3 DEF Begin, SentAreHeads

LEMMA ReleaseSends ==
    ASSUME SlotInv, NEW c \in running, Release(c)
    PROVE  /\ c \in Convs /\ queues[c] # <<>>
           /\ queues' = [queues EXCEPT ![c] = Tail(@)]
           /\ SentAreHeads
<1>1. c \in Convs /\ queues[c] # <<>>
  BY SlotFacts DEF SlotType
<1>2. queues' = [queues EXCEPT ![c] = Tail(@)]
  BY DEF Release
<1>3. ASSUME NEW d \in Heir(c) PROVE d \in Convs /\ queues'[d] # <<>>
  <2>1. CASE Tail(queues[c]) # <<>>
    BY <1>1, <1>2, <1>3, <2>1 DEF Heir, SlotInv, SlotType
  <2>2. CASE Tail(queues[c]) = <<>> /\ waiting # <<>>
    <3>1. d = Head(waiting)
      BY <1>3, <2>2 DEF Heir
    <3>2. d \in Convs /\ Contains(waiting, d)
      BY <2>2, <3>1, SlotFacts, LeaveFacts
    <3>3. d # c /\ queues[d] # <<>>
      BY <3>2, SlotFacts
    <3> QED
      BY <1>2, <3>2, <3>3 DEF SlotInv, SlotType
  <2> QED
    BY <1>3, <2>1, <2>2 DEF Heir
<1>4. sent' = sent \/ \E d \in Heir(c) : Begin(d, Head(queues'[d]), {c}, held)
  BY DEF Release
<1> QED
  BY <1>1, <1>2, <1>3, <1>4 DEF Begin, SentAreHeads

\* Pushing a job that is newer than what its queue holds.
LEMMA MirrorAfterPush ==
    ASSUME JInv, NEW c \in Convs, NEW j \in JobIds,
           queues' = [queues EXCEPT ![c] = Append(@, j)],
           conv'[j] = c, state'[j] = "pending",
           conv[j] = c \/ state[j] # "pending",
           \A x \in JobIds \ {j} : conv'[x] = conv[x] /\ state'[x] = state[x],
           \A x \in JobIds : Contains(queues[c], x) => x < j,
           dropped \subseteq dropped', UNCHANGED mode,
           \A x \in JobIds \ {j} : (state[x] = "pending" /\ mode = "booting" /\ x >= cursor) => x >= cursor'
    PROVE  QueuesMirrorStore'
<1>1. /\ IInv /\ QueuesMirrorStore /\ PendingHasConv
      /\ queues \in [Convs -> Seq(JobIds)]
  BY DEF JInv, IInv, SlotInv, SlotType
<1>2. queues[c] \in Seq(JobIds) /\ Ascending(queues[c])
  BY <1>1, MirrorFacts
<1>3. /\ queues'[c] = Append(queues[c], j)
      /\ \A d \in Convs \ {c} : queues'[d] = queues[d]
  BY <1>1
<1>4. /\ Ascending(queues'[c])
      /\ \A x \in JobIds : Contains(queues'[c], x) <=> (Contains(queues[c], x) \/ x = j)
  BY <1>2, <1>3, AscendingAppend
<1>5. \A d \in Convs : \A i, k \in 1 .. Len(queues'[d]) : i < k => queues'[d][i] < queues'[d][k]
  BY <1>1, <1>3, <1>4 DEF QueuesMirrorStore, Ascending
<1>6. ASSUME NEW d \in Convs, NEW x \in JobIds, Contains(queues'[d], x)
      PROVE  conv'[x] = d /\ state'[x] = "pending"
  <2>1. CASE d = c
    BY <1>1, <1>4, <1>6, <2>1 DEF QueuesMirrorStore
  <2>2. CASE d # c
    <3>1. conv[x] = d /\ state[x] = "pending"
      BY <1>1, <1>3, <1>6, <2>2 DEF QueuesMirrorStore
    <3>2. x # j
      BY <2>2, <3>1
    <3> QED
      BY <3>1, <3>2
  <2> QED
    BY <2>1, <2>2
<1>7. ASSUME NEW x \in JobIds, state'[x] = "pending", x \notin dropped'
      PROVE  Contains(queues'[conv'[x]], x) \/ (mode' = "booting" /\ x >= cursor')
  <2>1. CASE x = j
    BY <1>4, <2>1
  <2>2. CASE x # j
    <3>1. state[x] = "pending" /\ conv'[x] = conv[x] /\ conv[x] \in Convs
      BY <1>1, <1>7, <2>2 DEF PendingHasConv
    <3>2. Contains(queues[conv[x]], x) \/ (mode = "booting" /\ x >= cursor)
      BY <1>1, <1>7, <3>1 DEF QueuesMirrorStore, Pending
    <3>3. CASE Contains(queues[conv[x]], x)
      BY <1>3, <1>4, <3>1, <3>3
    <3>4. CASE mode = "booting" /\ x >= cursor
      BY <2>2, <3>1, <3>4
    <3> QED
      BY <3>2, <3>3, <3>4
  <2> QED
    BY <2>1, <2>2
<1> QED
  BY <1>5, <1>6, <1>7 DEF QueuesMirrorStore, Pending

\* Dropping the head of a queue, with its verdict written or its write failed.
LEMMA MirrorAfterRelease ==
    ASSUME JInv, NEW c \in Convs, queues[c] # <<>>,
           queues' = [queues EXCEPT ![c] = Tail(@)],
           \/ /\ \E v \in {"ok", "failed"} : state' = [state EXCEPT ![Head(queues[c])] = v]
              /\ UNCHANGED dropped
           \/ UNCHANGED state /\ dropped' = dropped \cup {Head(queues[c])},
           UNCHANGED <<conv, mode, cursor>>
    PROVE  QueuesMirrorStore' /\ BootAhead'
<1> DEFINE h == Head(queues[c])
<1>1. /\ IInv /\ QueuesMirrorStore /\ PendingHasConv /\ BootAhead
      /\ queues \in [Convs -> Seq(JobIds)]
      /\ state \in [JobIds -> JobStates]
  BY DEF JInv, IInv, SlotInv, SlotType, RestType
<1>2. queues[c] \in Seq(JobIds) /\ Ascending(queues[c])
  BY <1>1, MirrorFacts
<1>3. /\ queues'[c] = Tail(queues[c])
      /\ \A d \in Convs \ {c} : queues'[d] = queues[d]
  BY <1>1
<1>4. /\ Ascending(queues'[c])
      /\ Contains(queues[c], h) /\ h \in JobIds
      /\ \A x \in JobIds : Contains(queues'[c], x) <=> (Contains(queues[c], x) /\ x # h)
  BY <1>2, <1>3, AscendingTail
<1> HIDE DEF h
<1>5. \A d \in Convs : \A i, k \in 1 .. Len(queues'[d]) : i < k => queues'[d][i] < queues'[d][k]
  BY <1>1, <1>3, <1>4 DEF QueuesMirrorStore, Ascending
<1>6. /\ \A x \in JobIds \ {h} : state'[x] = state[x]
      /\ dropped \subseteq dropped' /\ (h \in dropped' \/ state'[h] # "pending")
      /\ \A x \in JobIds : state'[x] = "pending" => state[x] = "pending"
  BY <1>1, <1>4 DEF h
<1>7. conv[h] = c
  BY <1>1, <1>4 DEF QueuesMirrorStore
<1>8. ASSUME NEW d \in Convs, NEW x \in JobIds, Contains(queues'[d], x)
      PROVE  Contains(queues[d], x) /\ conv[x] = d /\ state'[x] = "pending" /\ x # h
  <2>1. Contains(queues[d], x)
    BY <1>3, <1>4, <1>8
  <2>2. conv[x] = d /\ state[x] = "pending"
    BY <1>1, <2>1 DEF QueuesMirrorStore
  <2>3. x # h
    BY <1>4, <1>7, <1>8, <2>2
  <2> QED
    BY <1>6, <2>1, <2>2, <2>3
<1>9. ASSUME NEW x \in JobIds, state'[x] = "pending", x \notin dropped'
      PROVE  Contains(queues'[conv[x]], x) \/ (mode = "booting" /\ x >= cursor)
  <2>1. state[x] = "pending" /\ x # h /\ conv[x] \in Convs
    BY <1>1, <1>6, <1>9 DEF PendingHasConv
  <2>2. Contains(queues[conv[x]], x) \/ (mode = "booting" /\ x >= cursor)
    BY <1>1, <1>6, <1>9, <2>1 DEF QueuesMirrorStore, Pending
  <2> QED
    BY <1>3, <1>4, <2>1, <2>2
<1>10. QueuesMirrorStore'
  BY <1>5, <1>8, <1>9 DEF QueuesMirrorStore, Pending
<1> QED
  BY <1>1, <1>8, <1>10 DEF BootAhead

\* The end of a task keeps the whole invariant.
LEMMA ReleaseKeepsJInv ==
    ASSUME JInv, IInv', NEW c \in Convs, phase[c] # "none", Release(c),
           \/ /\ \E v \in {"ok", "failed"} : state' = [state EXCEPT ![Head(queues[c])] = v]
              /\ UNCHANGED dropped
           \/ UNCHANGED state /\ dropped' = dropped \cup {Head(queues[c])},
           UNCHANGED <<conv, nextId, mode, cursor>>
    PROVE  JInv'
<1>1. SlotInv /\ IInv /\ TableShape
  BY DEF JInv, IInv
<1>2. c \in running /\ queues[c] # <<>> /\ Head(queues[c]) \in JobIds
  BY <1>1, HeadIsJob
<1>3. queues' = [queues EXCEPT ![c] = Tail(@)] /\ SentAreHeads
  BY <1>1, <1>2, ReleaseSends
<1>4. QueuesMirrorStore' /\ BootAhead'
  BY <1>2, <1>3, MirrorAfterRelease
<1>5. /\ state[Head(queues[c])] = "pending"
      /\ \A d \in Convs : queues'[d] # <<>> => Head(queues'[d]) < nextId
  <2>1. \A d \in Convs : queues'[d] \in Seq(JobIds)
    BY DEF IInv, SlotInv, SlotType
  <2>2. \A d \in Convs : queues'[d] # <<>> => Contains(queues'[d], Head(queues'[d])) /\ Head(queues'[d]) \in JobIds
    BY <1>4, <2>1, AscendingTail DEF QueuesMirrorStore, Ascending
  <2>3. \A j \in JobIds : state'[j] = "pending" => state[j] = "pending"
    BY <1>1, <1>2 DEF IInv, RestType
  <2>4. \A j \in JobIds : state[j] = "pending" => j < nextId
    BY <1>1 DEF TableShape, JobIds, IInv, RestType
  <2>5. queues[c] \in Seq(JobIds) /\ Ascending(queues[c])
    BY <1>1, MirrorFacts DEF JInv
  <2>6. Contains(queues[c], Head(queues[c]))
    BY <1>2, <2>5, AscendingTail
  <2> QED
    BY <1>2, <1>4, <2>2, <2>3, <2>4, <2>6 DEF QueuesMirrorStore, JInv
<1>6. \A j \in JobIds : /\ state'[j] = "absent" <=> state[j] = "absent"
                        /\ state'[j] = "pending" => state[j] = "pending"
  BY <1>1, <1>2, <1>5 DEF IInv, RestType
<1>7. TableShape'
  BY <1>1, <1>3, <1>5, <1>6 DEF TableShape, SentAreHeads
<1>8. NoOvertaking'
  <2>1. dropped \subseteq dropped'
    OBVIOUS
  <2>2. \A j \in JobIds : state'[j] = "pending" => conv'[j] \in Convs
    BY <1>1, <1>6 DEF IInv, PendingHasConv
  <2> QED
    BY <1>3, <1>4, <1>6, <2>1, <2>2, OrderNext DEF SentAreHeads
<1> QED
  BY <1>4, <1>7, <1>8 DEF JInv

\* A step that leaves the table and the queues alone.
LEMMA QuietKeepsJInv ==
    ASSUME JInv, IInv', UNCHANGED <<conv, state, nextId, queues, dropped, mode, cursor>>,
           \A j \in sent' : j \in sent \/ \E d \in Convs : queues[d] # <<>> /\ j = Head(queues[d])
    PROVE  JInv'
<1>1. QueuesMirrorStore' /\ BootAhead'
  BY DEF JInv, QueuesMirrorStore, BootAhead, Pending
<1>2. TableShape'
  <2>1. ASSUME NEW d \in Convs, queues[d] # <<>> PROVE Head(queues[d]) < nextId
    <3>1. queues[d] \in Seq(JobIds) /\ Ascending(queues[d])
      BY MirrorFacts DEF JInv
    <3>2. Contains(queues[d], Head(queues[d])) /\ Head(queues[d]) \in JobIds
      BY <2>1, <3>1, AscendingTail
    <3>3. state[Head(queues[d])] = "pending"
      BY <3>2 DEF JInv, QueuesMirrorStore
    <3> QED
      BY <3>2, <3>3 DEF JInv, TableShape, JobIds, IInv, RestType
  <2> QED
    BY <2>1 DEF JInv, TableShape
<1>3. NoOvertaking'
  <2>1. SentAreHeads
    BY DEF SentAreHeads
  <2>2. \A j \in JobIds : state'[j] = "pending" => conv'[j] \in Convs
    BY DEF JInv, IInv, PendingHasConv
  <2>3. /\ dropped \subseteq dropped'
        /\ \A j \in JobIds : j < nextId => conv'[j] = conv[j]
        /\ \A j \in JobIds : (state'[j] = "pending" /\ state[j] # "pending") => j >= nextId
    OBVIOUS
  <2> QED
    BY <1>1, <2>1, <2>2, <2>3, OrderNext DEF SentAreHeads
<1> QED
  BY <1>1, <1>2, <1>3 DEF JInv

\* Memory is dropped: nothing is queued, nothing new is sent.
LEMMA DropKeepsJInv ==
    ASSUME JInv, IInv', DropMemory,
           UNCHANGED <<conv, nextId, sent, dropped>>,
           \/ UNCHANGED state /\ mode' = "booting" /\ cursor' = 1
           \/ /\ state' = [j \in JobIds |-> IF state[j] = "absent" THEN "absent" ELSE "deleted"]
              /\ UNCHANGED <<mode, cursor>>
    PROVE  JInv'
<1>1. \A c \in Convs : queues'[c] = <<>>
  BY DEF DropMemory
<1>2. \A c \in Convs : Len(queues'[c]) = 0 /\ \A j \in JobIds : ~Contains(queues'[c], j)
  BY <1>1 DEF Contains
<1>3. QueuesMirrorStore' /\ BootAhead'
  <2>1. \A j \in JobIds : state'[j] = "pending" => (mode' = "booting" /\ j >= cursor')
    <3>1. CASE mode' = "booting" /\ cursor' = 1
      BY <3>1 DEF JobIds
    <3>2. CASE state' = [j \in JobIds |-> IF state[j] = "absent" THEN "absent" ELSE "deleted"]
      BY <3>2
    <3> QED
      BY <3>1, <3>2
  <2>2. \A c \in Convs : \A i, k \in 1 .. Len(queues'[c]) : i < k => queues'[c][i] < queues'[c][k]
    BY <1>2
  <2> QED
    BY <1>2, <2>1, <2>2 DEF QueuesMirrorStore, BootAhead, Pending
<1>4. \A j \in JobIds : /\ state'[j] = "absent" <=> state[j] = "absent"
                        /\ state'[j] = "pending" => state[j] = "pending"
  OBVIOUS
<1>5. TableShape'
  BY <1>4 DEF JInv, TableShape
<1>6. NoOvertaking'
  BY <1>4 DEF JInv, NoOvertaking, IInv, SlotInv, SlotType
<1> QED
  BY <1>3, <1>5, <1>6 DEF JInv

LEMMA StepKeepsJInv == JInv /\ [Next]_vars => JInv'
<1> SUFFICES ASSUME JInv, [Next]_vars PROVE JInv'
  OBVIOUS
<1>0. /\ IInv /\ SlotInv /\ TableShape /\ QueuesMirrorStore /\ BootAhead /\ IInv'
      /\ nextId \in 1 .. MaxJobs + 1 /\ cursor \in 1 .. MaxJobs + 1
  BY StepKeepsIInv DEF JInv, IInv, RestType
<1>1. ASSUME NEW c \in Convs, NEW hold \in BOOLEAN, Enqueue(c, hold) PROVE JInv'
  <2> DEFINE h == IF hold THEN held \cup {nextId} ELSE held
  <2>1. nextId \in JobIds /\ state[nextId] = "absent"
    BY <1>0, <1>1, BoundsAssumption DEF Enqueue, TableShape, JobIds
  <2>2. queues' = [queues EXCEPT ![c] = Append(@, nextId)] /\ SentAreHeads
    <3>1. Push(c, nextId, h)
      BY <1>1 DEF Enqueue
    <3> HIDE DEF h
    <3> QED
      BY <1>0, <2>1, <3>1, PushSends
  <2>3. /\ conv' = [conv EXCEPT ![nextId] = c]
        /\ state' = [state EXCEPT ![nextId] = "pending"]
        /\ nextId' = nextId + 1
        /\ mode = "up"
        /\ UNCHANGED <<mode, cursor, dropped>>
    BY <1>1 DEF Enqueue, bootVars, failures
  <2>4. /\ conv'[nextId] = c /\ state'[nextId] = "pending"
        /\ \A x \in JobIds \ {nextId} : conv'[x] = conv[x] /\ state'[x] = state[x]
    BY <1>0, <2>1, <2>3 DEF IInv, RestType
  <2>5. \A d \in Convs, x \in JobIds : Contains(queues[d], x) => x < nextId
    BY <1>0 DEF QueuesMirrorStore, TableShape, JobIds
  <2>6. QueuesMirrorStore'
    BY <2>1, <2>2, <2>3, <2>4, <2>5, MirrorAfterPush
  <2>7. BootAhead'
    BY <2>3 DEF BootAhead
  <2>8. ASSUME NEW d \in Convs, queues'[d] # <<>> PROVE Head(queues'[d]) < nextId'
    <3>1. queues'[d] \in Seq(JobIds) /\ Ascending(queues'[d])
      BY <1>0, <2>6 DEF IInv, SlotInv, SlotType, QueuesMirrorStore, Ascending
    <3>2. Contains(queues'[d], Head(queues'[d])) /\ Head(queues'[d]) \in JobIds
      BY <2>8, <3>1, AscendingTail
    <3>3. state'[Head(queues'[d])] = "pending"
      BY <2>6, <3>2 DEF QueuesMirrorStore
    <3> QED
      BY <1>0, <2>3, <2>4, <3>2, <3>3 DEF TableShape, JobIds
  <2>9. TableShape'
    <3>1. \A j \in JobIds : state'[j] = "absent" <=> j >= nextId'
      BY <1>0, <2>1, <2>3, <2>4 DEF TableShape, JobIds
    <3>2. \A j \in JobIds : state'[j] # "absent" => conv'[j] \in Convs
      BY <1>0, <2>1, <2>4 DEF TableShape
    <3>3. \A j \in sent' : j < nextId'
      <4>1. sent \subseteq JobIds
        BY <1>0 DEF SlotInv, SlotType
      <4>2. SUFFICES ASSUME NEW j \in sent' PROVE j < nextId'
        OBVIOUS
      <4>3. CASE j \in sent
        BY <1>0, <2>3, <4>1, <4>3 DEF TableShape, JobIds
      <4>4. CASE j \notin sent
        BY <2>2, <2>8, <4>4 DEF SentAreHeads
      <4> QED
        BY <4>3, <4>4
    <3> QED
      BY <3>1, <3>2, <3>3 DEF TableShape
  <2>10. NoOvertaking'
    <3>1. /\ dropped \subseteq dropped'
          /\ \A j \in JobIds : j < nextId => conv'[j] = conv[j]
          /\ \A j \in JobIds : (state'[j] = "pending" /\ state[j] # "pending") => j >= nextId
          /\ \A j \in JobIds : state'[j] = "pending" => conv'[j] \in Convs
      BY <1>0, <2>1, <2>3, <2>4 DEF IInv, PendingHasConv, JobIds
    <3> QED
      BY <1>0, <2>2, <2>6, <2>7, <3>1, OrderNext DEF SentAreHeads
  <2> QED
    BY <1>0, <2>6, <2>7, <2>9, <2>10 DEF JInv
<1>2. ASSUME NEW c \in Convs, SleepEnds(c) PROVE JInv'
  <2>1. queues[c] # <<>>
    BY <1>0, <1>2, HeadIsJob DEF SleepEnds
  <2> QED
    BY <1>0, <1>2, <2>1, QuietKeepsJInv DEF SleepEnds, storeVars, slotVars, bootVars, failures
<1>3. ASSUME NEW c \in Convs, Handle(c) PROVE JInv'
  BY <1>0, <1>3, QuietKeepsJInv DEF Handle, storeVars, slotVars, bootVars, failures
<1>4. ASSUME NEW j \in JobIds, HandleLate(j) PROVE JInv'
  BY <1>0, <1>4, QuietKeepsJInv DEF HandleLate, storeVars, slotVars, bootVars, failures
<1>5. ASSUME NEW c \in Convs, AttemptEnds(c) PROVE JInv'
  <2>1. CASE AttemptOk(c)
    BY <1>0, <2>1, ReleaseKeepsJInv DEF AttemptOk, Answered200, Finish, bootVars, failures
  <2>2. ASSUME NEW open \in BOOLEAN, AttemptMissed(c, open) PROVE JInv'
    BY <1>0, <2>2, QuietKeepsJInv DEF AttemptMissed, slotVars, bootVars, failures
  <2>3. ASSUME NEW open \in BOOLEAN, LastAttemptMissed(c, open) PROVE JInv'
    BY <1>0, <2>3, ReleaseKeepsJInv DEF LastAttemptMissed, Finish, bootVars, failures
  <2>4. ASSUME NEW atFinish \in BOOLEAN, NEW open \in BOOLEAN, StoreWriteFails(c, atFinish, open)
        PROVE  JInv'
    BY <1>0, <2>4, ReleaseKeepsJInv DEF StoreWriteFails, bootVars
  <2> QED
    BY <1>5, <2>1, <2>2, <2>3, <2>4 DEF AttemptEnds
<1>6. ASSUME NEW c \in Convs, BackoffEnds(c) PROVE JInv'
  BY <1>0, <1>6, QuietKeepsJInv DEF BackoffEnds, storeVars, slotVars, bootVars, failures
<1>7. ASSUME Idle PROVE JInv'
  BY <1>0, <1>7, QuietKeepsJInv DEF Idle, storeVars, slotVars, bootVars, failures
<1>8. ASSUME Reset PROVE JInv'
  BY <1>0, <1>8, DropKeepsJInv DEF Reset, bootVars, failures
<1>9. ASSUME Crash PROVE JInv'
  BY <1>0, <1>9, DropKeepsJInv DEF Crash
<1>10. ASSUME NEW j \in JobIds, Resume(j) PROVE JInv'
  <2> DEFINE c == conv[j]
  <2>1. /\ c \in Convs /\ state[j] = "pending" /\ mode = "booting" /\ j >= cursor
        /\ \A i \in cursor .. j - 1 : state[i] # "pending"
    BY <1>0, <1>10 DEF Resume, Resumable, IInv, PendingHasConv
  <2>2. queues' = [queues EXCEPT ![c] = Append(@, j)] /\ SentAreHeads
    BY <1>0, <1>10, <2>1, PushSends DEF Resume
  <2>3. cursor' = j + 1 /\ UNCHANGED <<conv, state, nextId, mode, dropped>>
    BY <1>10 DEF Resume, storeVars, failures
  <2>4. \A d \in Convs, x \in JobIds : Contains(queues[d], x) => x < j
    BY <1>0, <2>1 DEF BootAhead, JobIds
  <2>5. \A x \in JobIds \ {j} : (state[x] = "pending" /\ x >= cursor) => x >= cursor'
    <3>1. SUFFICES ASSUME NEW x \in JobIds \ {j}, state[x] = "pending", x >= cursor
                   PROVE  x >= j + 1
      BY <2>3
    <3>2. x \notin cursor .. j - 1
      BY <2>1, <3>1
    <3> QED
      BY <1>0, <3>1, <3>2 DEF JobIds
  <2>6. QueuesMirrorStore'
    <3> HIDE DEF c
    <3>1. conv'[j] = c /\ conv[j] = c
      BY <2>3 DEF c
    <3> QED
      BY <2>1, <2>2, <2>3, <2>4, <2>5, <3>1, MirrorAfterPush
  <2>7. BootAhead'
    <3>1. SUFFICES ASSUME NEW d \in Convs, NEW x \in JobIds, Contains(queues'[d], x)
                   PROVE  x < j + 1
      BY <2>3 DEF BootAhead
    <3>2. queues \in [Convs -> Seq(JobIds)]
      BY <1>0 DEF SlotInv, SlotType
    <3>3. CASE d = c
      <4>1. queues[c] \in Seq(JobIds) /\ Ascending(queues[c])
        BY <1>0, <2>1, MirrorFacts
      <4>2. Contains(queues[c], x) \/ x = j
        BY <2>1, <2>2, <2>4, <3>1, <3>2, <3>3, <4>1, AscendingAppend
      <4> QED
        BY <2>1, <2>4, <4>2 DEF JobIds
    <3>4. CASE d # c
      BY <2>2, <2>4, <3>1, <3>2, <3>4 DEF JobIds
    <3> QED
      BY <3>3, <3>4
  <2>8. TableShape'
    <3>1. ASSUME NEW d \in Convs, queues'[d] # <<>> PROVE Head(queues'[d]) < nextId
      <4>1. queues'[d] \in Seq(JobIds) /\ Ascending(queues'[d])
        BY <1>0, <2>6 DEF IInv, SlotInv, SlotType, QueuesMirrorStore, Ascending
      <4>2. Contains(queues'[d], Head(queues'[d])) /\ Head(queues'[d]) \in JobIds
        BY <3>1, <4>1, AscendingTail
      <4>3. state[Head(queues'[d])] = "pending"
        BY <2>3, <2>6, <4>2 DEF QueuesMirrorStore
      <4> QED
        BY <1>0, <4>2, <4>3 DEF TableShape, JobIds
    <3> QED
      BY <1>0, <2>2, <2>3, <3>1 DEF TableShape, SentAreHeads
  <2>9. NoOvertaking'
    <3>1. /\ dropped \subseteq dropped'
          /\ \A i \in JobIds : i < nextId => conv'[i] = conv[i]
          /\ \A i \in JobIds : (state'[i] = "pending" /\ state[i] # "pending") => i >= nextId
          /\ \A i \in JobIds : state'[i] = "pending" => conv'[i] \in Convs
      BY <1>0, <2>3 DEF IInv, PendingHasConv
    <3> QED
      BY <1>0, <2>2, <2>6, <2>7, <3>1, OrderNext DEF SentAreHeads
  <2> QED
    BY <1>0, <2>6, <2>7, <2>8, <2>9 DEF JInv
<1>11. ASSUME BootDone PROVE JInv'
  <2>1. /\ UNCHANGED <<conv, state, nextId, queues, sent, dropped>>
        /\ mode' = "up"
        /\ \A j \in cursor .. MaxJobs : state[j] # "pending"
    BY <1>11 DEF BootDone, storeVars, slotVars, failures
  <2>2. \A j \in Pending : ~(j >= cursor)
    BY <1>0, <2>1 DEF Pending, JobIds
  <2>3. QueuesMirrorStore'
    BY <1>0, <2>1, <2>2 DEF QueuesMirrorStore, Pending
  <2>4. BootAhead' /\ TableShape' /\ NoOvertaking'
    BY <1>0, <2>1 DEF BootAhead, TableShape, NoOvertaking, JInv
  <2> QED
    BY <1>0, <2>3, <2>4 DEF JInv
<1>12. CASE UNCHANGED vars
  BY <1>0, <1>12, QuietKeepsJInv DEF vars, storeVars, slotVars, bootVars, failures
<1> QED
  BY <1>1, <1>2, <1>3, <1>4, <1>5, <1>6, <1>7, <1>8, <1>9, <1>10, <1>11, <1>12 DEF Next

LEMMA InitEstablishesJInv == Init => JInv
<1> SUFFICES ASSUME Init PROVE JInv
  OBVIOUS
<1>1. IInv
  BY InitEstablishesIInv
<1>2. \A c \in Convs : queues[c] = <<>> /\ Len(queues[c]) = 0
  BY DEF Init
<1>3. \A c \in Convs, j \in JobIds : ~Contains(queues[c], j)
  BY <1>2 DEF Contains
<1>4. QueuesMirrorStore /\ BootAhead
  BY <1>2, <1>3 DEF Init, QueuesMirrorStore, BootAhead, Pending
<1>5. TableShape /\ NoOvertaking
  BY DEF Init, TableShape, NoOvertaking, JobIds
<1> QED
  BY <1>1, <1>4, <1>5 DEF JInv

LEMMA JInvHolds == Spec => []JInv
BY InitEstablishesJInv, StepKeepsJInv, PTL DEF Spec

\* The queues in memory and the pending rows of the table agree at all times,
\* through restarts and resets.
THEOREM QueuesMirrorStoreHolds == Spec => []QueuesMirrorStore
<1>1. JInv => QueuesMirrorStore
  BY DEF JInv
<1> QED
  BY <1>1, JInvHolds, PTL

\* A status in retry is never overtaken by a later one of its conversation.
THEOREM NoOvertakingHolds == Spec => []NoOvertaking
<1>1. JInv => NoOvertaking
  BY DEF JInv
<1> QED
  BY <1>1, JInvHolds, PTL

-----------------------------------------------------------------------------
(* What a push or the end of a task does to the tasks.                      *)

\* A task stays on its job, or it has none, or it has just begun.
TaskMoves(d) ==
    \/ /\ phase'[d] = phase[d] /\ phase[d] # "none" /\ n'[d] = n[d]
       /\ Head(queues'[d]) = Head(queues[d])
    \/ /\ phase[d] = "none" \/ queues'[d] = Tail(queues[d])
       /\ \/ phase'[d] = "none"
          \/ /\ phase'[d] \in {"sleep", "sent"}
             /\ n'[d] = 1
             /\ queues'[d] # <<>>
             /\ phase'[d] = "sent" => Head(queues'[d]) \in sent'

TasksMove ==
    /\ sent \subseteq sent'
    /\ \A d \in Convs : TaskMoves(d)

LEMMA PushMoves ==
    ASSUME SlotInv, NEW c \in Convs, NEW j \in JobIds, NEW h, Push(c, j, h)
    PROVE  TasksMove
<1>1. /\ SlotType
      /\ \A d \in Convs : d \in running <=> phase[d] # "none"
      /\ c \in running => queues[c] # <<>>
  BY SlotFacts
<1>2. /\ queues'[c] = Append(queues[c], j)
      /\ \A d \in Convs \ {c} : queues'[d] = queues[d]
      /\ queues[c] \in Seq(JobIds)
  BY <1>1 DEF Push, SlotType
<1>3. /\ queues'[c] # <<>>
      /\ queues[c] # <<>> => Head(queues'[c]) = Head(queues[c])
  BY <1>2
<1>4. CASE UNCHANGED <<phase, n, sent>> /\ (phase[c] # "none" => queues[c] # <<>>)
  BY <1>2, <1>3, <1>4 DEF TasksMove, TaskMoves
<1>5. CASE c \notin running /\ Begin(c, Head(queues'[c]), {}, h)
  <2>1. /\ phase'[c] \in {"sleep", "sent"} /\ n'[c] = 1
        /\ phase'[c] = "sent" => Head(queues'[c]) \in sent'
        /\ sent \subseteq sent'
        /\ \A d \in Convs \ {c} : phase'[d] = phase[d] /\ n'[d] = n[d]
    BY <1>5 DEF Begin
  <2> QED
    BY <1>1, <1>2, <1>3, <1>5, <2>1 DEF TasksMove, TaskMoves
<1> QED
  BY <1>1, <1>4, <1>5 DEF Push

LEMMA ReleaseMoves ==
    ASSUME SlotInv, NEW c \in running, Release(c)
    PROVE  TasksMove
<1>1. /\ SlotType /\ c \in Convs
      /\ \A d \in Convs : d \in running <=> phase[d] # "none"
      /\ \A d \in Convs : Contains(waiting, d) => d \notin running
  BY SlotFacts DEF SlotType
<1>2. /\ queues[c] # <<>>
      /\ queues' = [queues EXCEPT ![c] = Tail(@)]
  BY ReleaseSends
<1>3. /\ queues'[c] = Tail(queues[c])
      /\ \A d \in Convs \ {c} : queues'[d] = queues[d]
  BY <1>1, <1>2 DEF SlotType
<1>4. CASE Heir(c) = {} /\ phase' = [phase EXCEPT ![c] = "none"] /\ n' = [n EXCEPT ![c] = 0]
           /\ UNCHANGED sent
  BY <1>1, <1>3, <1>4 DEF TasksMove, TaskMoves, SlotType
<1>5. ASSUME NEW d \in Heir(c), Begin(d, Head(queues'[d]), {c}, held) PROVE TasksMove
  <2>1. /\ d \in Convs /\ queues'[d] # <<>>
        /\ d = c \/ phase[d] = "none"
    <3>1. CASE Tail(queues[c]) # <<>>
      BY <1>1, <1>3, <1>5, <3>1 DEF Heir
    <3>2. CASE Tail(queues[c]) = <<>> /\ waiting # <<>>
      <4>1. d = Head(waiting)
        BY <1>5, <3>2 DEF Heir
      <4>2. d \in Convs /\ Contains(waiting, d)
        BY <3>2, <4>1, SlotFacts, LeaveFacts
      <4>3. d \notin running /\ queues[d] # <<>>
        BY <1>1, <4>2, SlotFacts
      <4> QED
        BY <1>1, <1>3, <4>2, <4>3
    <3> QED
      BY <1>5, <3>1, <3>2 DEF Heir
  <2>2. /\ phase'[d] \in {"sleep", "sent"} /\ n'[d] = 1
        /\ phase'[d] = "sent" => Head(queues'[d]) \in sent'
        /\ sent \subseteq sent'
        /\ \A x \in Convs \ {d} :
              /\ phase'[x] = IF x = c THEN "none" ELSE phase[x]
              /\ x # c => n'[x] = n[x]
    BY <1>5, <2>1 DEF Begin
  <2>3. ASSUME NEW x \in Convs PROVE TaskMoves(x)
    <3>1. CASE x = d
      BY <1>3, <2>1, <2>2, <3>1 DEF TaskMoves
    <3>2. CASE x # d
      BY <1>1, <1>3, <2>2, <3>2 DEF TaskMoves
    <3> QED
      BY <3>1, <3>2
  <2> QED
    BY <2>2, <2>3 DEF TasksMove
<1> QED
  BY <1>4, <1>5 DEF Release

-----------------------------------------------------------------------------
(* What has been on the wire, and what Comdove has taken.                   *)

\* A task that is past its sleep has sent its job; Comdove has taken nothing
\* that was not sent, and everything that was answered 200; only a job that was
\* sent can be dropped.
WireInv ==
    /\ late \subseteq sent
    /\ received \subseteq sent
    /\ dropped \subseteq sent
    /\ \A c \in Convs : phase[c] \in {"sent", "handled", "backoff"} => Head(queues[c]) \in sent
    /\ \A c \in Convs : phase[c] = "handled" => Head(queues[c]) \in received
    /\ \A j \in JobIds : state[j] = "ok" => j \in received

\* The tasks move on: what is in flight afterwards was in flight or is sent now.
LEMMA WireNext ==
    ASSUME WireInv, TasksMove, UNCHANGED received, late' \subseteq sent, dropped' \subseteq sent,
           \A j \in JobIds : state'[j] = "ok" => j \in received
    PROVE  WireInv'
<1>1. late' \subseteq sent' /\ received' \subseteq sent' /\ dropped' \subseteq sent'
  BY DEF WireInv, TasksMove
<1>2. ASSUME NEW c \in Convs
      PROVE  /\ phase'[c] \in {"sent", "handled", "backoff"} => Head(queues'[c]) \in sent'
             /\ phase'[c] = "handled" => Head(queues'[c]) \in received'
  <2>1. TaskMoves(c) /\ sent \subseteq sent'
    BY DEF TasksMove
  <2>2. CASE phase'[c] = phase[c] /\ Head(queues'[c]) = Head(queues[c])
    BY <2>1, <2>2 DEF WireInv
  <2>3. CASE phase'[c] \in {"none", "sleep"} \/ (phase'[c] = "sent" /\ Head(queues'[c]) \in sent')
    BY <2>3
  <2> QED
    BY <2>1, <2>2, <2>3 DEF TaskMoves
<1> QED
  BY <1>1, <1>2 DEF WireInv

\* A POST that is given up on was sent.
LEMMA AbandonSent ==
    ASSUME WireInv, NEW c \in Convs, NEW open \in BOOLEAN, phase[c] \in {"sent", "handled"},
           Abandon(Head(queues[c]), phase[c], open)
    PROVE  late' \subseteq sent
BY DEF Abandon, WireInv

LEMMA DropKeepsWire ==
    ASSUME WireInv, DropMemory, UNCHANGED <<received, sent, dropped>>,
           \A j \in JobIds : state'[j] = "ok" => state[j] = "ok"
    PROVE  WireInv'
<1>1. OnWire \subseteq sent
  BY DEF OnWire, WireInv
<1>2. late' \subseteq sent
  BY <1>1 DEF DropMemory, WireInv
<1>3. \A c \in Convs : phase'[c] = "none"
  BY DEF DropMemory
<1> QED
  BY <1>2, <1>3 DEF WireInv

LEMMA StepKeepsWire == JInv /\ WireInv /\ [Next]_vars => WireInv'
<1> SUFFICES ASSUME JInv, WireInv, [Next]_vars PROVE WireInv'
  OBVIOUS
<1>0. /\ IInv /\ SlotInv /\ SlotType /\ RestType /\ TableShape
      /\ \A j \in JobIds : state[j] = "ok" => j \in received
      /\ late \subseteq sent /\ dropped \subseteq sent
  BY DEF JInv, IInv, SlotInv, WireInv
<1>1. ASSUME NEW c \in Convs, NEW hold \in BOOLEAN, Enqueue(c, hold) PROVE WireInv'
  <2> DEFINE h == IF hold THEN held \cup {nextId} ELSE held
  <2>1. nextId \in JobIds
    BY <1>0, <1>1, BoundsAssumption DEF Enqueue, RestType, JobIds
  <2>2. Push(c, nextId, h) /\ UNCHANGED <<late, received, dropped>> /\ state' = [state EXCEPT ![nextId] = "pending"]
    BY <1>1 DEF Enqueue, comdove, failures
  <2>3. \A j \in JobIds : state'[j] = "ok" => j \in received
    BY <1>0, <2>2 DEF RestType
  <2> HIDE DEF h
  <2>4. TasksMove
    BY <1>0, <2>1, <2>2, PushMoves
  <2> QED
    BY <1>0, <2>2, <2>3, <2>4, WireNext
<1>2. ASSUME NEW c \in Convs, SleepEnds(c) PROVE WireInv'
  BY <1>0, <1>2 DEF SleepEnds, WireInv, SlotType, slotVars, storeVars, comdove, failures
<1>3. ASSUME NEW c \in Convs, Handle(c) PROVE WireInv'
  BY <1>0, <1>3 DEF Handle, WireInv, SlotType, slotVars, storeVars, failures
<1>4. ASSUME NEW j \in JobIds, HandleLate(j) PROVE WireInv'
  BY <1>0, <1>4 DEF HandleLate, WireInv, taskVars, slotVars, storeVars, failures
<1>5. ASSUME NEW c \in Convs, AttemptEnds(c) PROVE WireInv'
  <2>1. CASE AttemptOk(c)
    <3>1. c \in running /\ Head(queues[c]) \in JobIds /\ Head(queues[c]) \in received
      BY <1>0, <2>1, HeadIsJob DEF AttemptOk, Answered200, WireInv
    <3>2. TasksMove
      BY <1>0, <2>1, <3>1, ReleaseMoves DEF AttemptOk
    <3>3. /\ UNCHANGED <<received, late, dropped>>
          /\ state' = [state EXCEPT ![Head(queues[c])] = "ok"]
      BY <2>1 DEF AttemptOk, Finish, comdove, failures
    <3>4. \A j \in JobIds : state'[j] = "ok" => j \in received
      BY <1>0, <3>1, <3>3 DEF RestType
    <3> QED
      BY <1>0, <3>2, <3>3, <3>4, WireNext
  <2>2. ASSUME NEW open \in BOOLEAN, AttemptMissed(c, open) PROVE WireInv'
    <3>1. late' \subseteq sent
      BY <2>2, AbandonSent DEF AttemptMissed
    <3> QED
      BY <1>0, <2>2, <3>1 DEF AttemptMissed, WireInv, SlotType, slotVars, failures
  <2>3. ASSUME NEW open \in BOOLEAN, LastAttemptMissed(c, open) PROVE WireInv'
    <3>1. c \in running /\ Head(queues[c]) \in JobIds /\ late' \subseteq sent
      BY <1>0, <2>3, HeadIsJob, AbandonSent DEF LastAttemptMissed
    <3>2. TasksMove
      BY <1>0, <2>3, <3>1, ReleaseMoves DEF LastAttemptMissed
    <3>3. UNCHANGED <<received, dropped>> /\ state' = [state EXCEPT ![Head(queues[c])] = "failed"]
      BY <2>3 DEF LastAttemptMissed, Finish, failures
    <3>4. \A j \in JobIds : state'[j] = "ok" => j \in received
      BY <1>0, <3>1, <3>3 DEF RestType
    <3> QED
      BY <1>0, <3>1, <3>2, <3>3, <3>4, WireNext
  <2>4. ASSUME NEW atFinish \in BOOLEAN, NEW open \in BOOLEAN, StoreWriteFails(c, atFinish, open)
        PROVE  WireInv'
    <3>1. c \in running /\ late' \subseteq sent
      BY <1>0, <2>4, HeadIsJob, AbandonSent DEF StoreWriteFails
    <3>2. TasksMove
      BY <1>0, <2>4, <3>1, ReleaseMoves DEF StoreWriteFails
    <3>3. UNCHANGED <<received, state>> /\ dropped' \subseteq sent
      BY <1>0, <2>4 DEF StoreWriteFails, WireInv
    <3> QED
      BY <1>0, <3>1, <3>2, <3>3, WireNext
  <2> QED
    BY <1>5, <2>1, <2>2, <2>3, <2>4 DEF AttemptEnds
<1>6. ASSUME NEW c \in Convs, BackoffEnds(c) PROVE WireInv'
  BY <1>0, <1>6 DEF BackoffEnds, WireInv, SlotType, slotVars, storeVars, comdove, failures
<1>7. ASSUME Idle PROVE WireInv'
  BY <1>7 DEF Idle, WireInv, taskVars, slotVars, storeVars, comdove, failures
<1>8. ASSUME Reset PROVE WireInv'
  <2>1. \A j \in JobIds : state'[j] # "ok"
    BY <1>8 DEF Reset
  <2> QED
    BY <1>8, <2>1, DropKeepsWire DEF Reset, failures
<1>9. ASSUME Crash PROVE WireInv'
  BY <1>9, DropKeepsWire DEF Crash
<1>10. ASSUME NEW j \in JobIds, Resume(j) PROVE WireInv'
  <2>1. conv[j] \in Convs
    BY <1>0, <1>10 DEF Resume, Resumable, IInv, PendingHasConv
  <2>2. TasksMove /\ UNCHANGED <<late, received, state, dropped>>
    BY <1>0, <1>10, <2>1, PushMoves DEF Resume, comdove, storeVars, failures
  <2> QED
    BY <1>0, <2>2, WireNext
<1>11. ASSUME BootDone PROVE WireInv'
  BY <1>11 DEF BootDone, WireInv, taskVars, slotVars, storeVars, comdove, failures
<1>12. CASE UNCHANGED vars
  BY <1>12 DEF vars, WireInv, taskVars, slotVars, storeVars, comdove, failures
<1> QED
  BY <1>1, <1>2, <1>3, <1>4, <1>5, <1>6, <1>7, <1>8, <1>9, <1>10, <1>11, <1>12 DEF Next

LEMMA WireHolds == Spec => [](JInv /\ WireInv)
<1>1. Init => WireInv
  BY DEF Init, WireInv
<1> QED
  BY <1>1, InitEstablishesJInv, StepKeepsJInv, StepKeepsWire, PTL DEF Spec

\* Comdove first hears of a job before any later one of its conversation,
\* unless the job had failed, was wiped or was dropped by then.
THEOREM FirstReceiptInOrderHolds == Spec => FirstReceiptInOrder
<1>1. JInv /\ WireInv /\ [Next]_vars =>
        [\A i, j \in JobIds :
            (/\ i < j
             /\ conv[i] = conv[j]
             /\ i \in received' \ received
             /\ j \in received) => (state[i] \in {"failed", "deleted"} \/ i \in dropped)]_vars
  <2> SUFFICES ASSUME JInv, WireInv, [Next]_vars,
                      NEW i \in JobIds, NEW j \in JobIds, i < j, conv[i] = conv[j],
                      i \in received', i \notin received, j \in received
               PROVE  state[i] \in {"failed", "deleted"} \/ i \in dropped
    OBVIOUS
  <2>1. /\ RestType /\ TableShape /\ NoOvertaking
        /\ j \in sent /\ j < nextId
    BY DEF JInv, IInv, WireInv, TableShape
  <2>2. state[i] # "pending" \/ i \in dropped
    BY <2>1 DEF NoOvertaking
  <2>3. state[i] # "absent"
    BY <2>1 DEF TableShape, JobIds, RestType
  <2>4. state[i] # "ok"
    BY DEF WireInv
  <2> QED
    BY <2>1, <2>2, <2>3, <2>4 DEF RestType, JobStates
<1> QED
  BY <1>1, WireHolds, PTL DEF Spec, FirstReceiptInOrder

-----------------------------------------------------------------------------
(* Verdicts.                                                                *)

\* The job of a running task has no verdict yet, and is no other task's job.
LEMMA TaskJob ==
    ASSUME JInv, NEW c \in Convs, phase[c] # "none"
    PROVE  /\ c \in running
           /\ Head(queues[c]) \in JobIds
           /\ state[Head(queues[c])] = "pending"
           /\ conv[Head(queues[c])] = c
           /\ Head(queues[c]) < nextId
<1>1. IInv /\ SlotInv /\ QueuesMirrorStore
  BY DEF JInv, IInv
<1>2. c \in running /\ queues[c] # <<>> /\ Head(queues[c]) \in JobIds
  BY <1>1, HeadIsJob
<1>3. queues[c] \in Seq(JobIds) /\ Ascending(queues[c])
  BY <1>1, MirrorFacts
<1>4. Contains(queues[c], Head(queues[c]))
  BY <1>2, <1>3, AscendingTail
<1>5. conv[Head(queues[c])] = c /\ state[Head(queues[c])] = "pending"
  BY <1>1, <1>2, <1>4, MirrorFacts
<1> QED
  BY <1>2, <1>5 DEF JInv, TableShape, JobIds, IInv, RestType

\* A verdict stands, and is not worked for again, until a reset wipes it.
THEOREM VerdictsFinalHolds == Spec => VerdictsFinal
<1>1. JInv /\ [Next]_vars =>
        [\A j \in JobIds : state[j] \in {"ok", "failed"} =>
            \/ state'[j] = state[j] /\ tries'[j] = tries[j]
            \/ state'[j] = "deleted"]_vars
  <2> SUFFICES ASSUME JInv, [Next]_vars, NEW x \in JobIds, state[x] \in {"ok", "failed"}
               PROVE  \/ state'[x] = state[x] /\ tries'[x] = tries[x]
                      \/ state'[x] = "deleted"
    OBVIOUS
  <2>0. RestType /\ TableShape /\ nextId \in Nat
    BY DEF JInv, IInv, RestType
  <2>1. ASSUME NEW c \in Convs, NEW hold \in BOOLEAN, Enqueue(c, hold)
        PROVE  state'[x] = state[x] /\ tries'[x] = tries[x]
    <3>1. x # nextId
      BY <2>0 DEF TableShape
    <3> QED
      BY <2>0, <2>1, <3>1 DEF Enqueue, RestType
  <2>2. ASSUME NEW c \in Convs, AttemptEnds(c)
        PROVE  state'[x] = state[x] /\ tries'[x] = tries[x]
    <3> DEFINE h == Head(queues[c])
    <3>1. phase[c] # "none"
      BY <2>2 DEF AttemptEnds, AttemptOk, Answered200, AttemptMissed, LastAttemptMissed, StoreWriteFails
    <3>2. h # x
      BY <3>1, TaskJob
    <3>3. /\ state' = state \/ \E v \in {"ok", "failed"} : state' = [state EXCEPT ![h] = v]
          /\ tries' = tries \/ tries' = [tries EXCEPT ![h] = @ + 1]
      BY <2>2 DEF AttemptEnds, AttemptOk, AttemptMissed, LastAttemptMissed, StoreWriteFails, Finish
    <3> HIDE DEF h
    <3> QED
      BY <2>0, <3>2, <3>3 DEF RestType
  <2>3. ASSUME Crash PROVE state'[x] = state[x] /\ tries'[x] = tries[x]
    <3>1. x \notin InFlight
      BY TaskJob DEF InFlight
    <3> QED
      BY <2>0, <2>3, <3>1 DEF Crash, RestType
  <2>4. CASE Reset
    BY <2>0, <2>4 DEF Reset, RestType
  <2>5. CASE UNCHANGED storeVars
    BY <2>5 DEF storeVars
  <2> QED
    BY <2>1, <2>2, <2>3, <2>4, <2>5
       DEF Next, SleepEnds, Handle, HandleLate, BackoffEnds, Idle, Resume, BootDone, vars
<1> QED
  BY <1>1, JInvHolds, PTL DEF Spec, VerdictsFinal

-----------------------------------------------------------------------------
(* The refinement: the dispatcher is a stream.                              *)

\* What a step newly puts on the wire is an offer in order.
LEMMA OffersFollow ==
    ASSUME IInv', QueuesMirrorStore', BootAhead', SentAreHeads, sent \subseteq sent'
    PROVE  Stream!OffersInOrder
<1>1. HeadsFirst'
  BY HeadIsFirst, PTL
<1>2. ASSUME NEW j \in sent' \ sent
      PROVE  /\ state'[j] = "pending"
             /\ \A i \in JobIds : (i < j /\ conv'[i] = conv'[j]) =>
                    (state'[i] # "pending" \/ i \in dropped')
  <2>1. PICK d \in Convs : queues'[d] # <<>> /\ j = Head(queues'[d])
    BY <1>2 DEF SentAreHeads
  <2>2. queues'[d] \in Seq(JobIds) /\ Ascending(queues'[d])
    BY DEF IInv, SlotInv, SlotType, QueuesMirrorStore, Ascending
  <2>3. Contains(queues'[d], j) /\ j \in JobIds
    BY <2>1, <2>2, AscendingTail
  <2>4. conv'[j] = d /\ state'[j] = "pending"
    BY <2>3 DEF QueuesMirrorStore
  <2> QED
    BY <1>1, <2>1, <2>4 DEF HeadsFirst
<1> QED
  BY <1>2 DEF Stream!OffersInOrder, Stream!JobIds, JobIds

LEMMA PushOffers ==
    ASSUME SlotInv, NEW c \in Convs, NEW j \in JobIds, NEW h, Push(c, j, h),
           IInv', QueuesMirrorStore', BootAhead'
    PROVE  Stream!OffersInOrder
BY PushSends, PushMoves, OffersFollow DEF TasksMove

LEMMA ReleaseOffers ==
    ASSUME SlotInv, NEW c \in running, Release(c),
           IInv', QueuesMirrorStore', BootAhead'
    PROVE  Stream!OffersInOrder
BY ReleaseSends, ReleaseMoves, OffersFollow DEF TasksMove

\* What the refinement needs of the two invariants, before the step and after.
Sound == JInv /\ WireInv /\ JInv'

LEMMA SoundFacts ==
    ASSUME Sound
    PROVE  /\ IInv /\ SlotInv /\ SlotType /\ RestType /\ TableShape
           /\ IInv' /\ QueuesMirrorStore' /\ BootAhead'
           /\ JobIds = Stream!JobIds
BY DEF Sound, JInv, IInv, SlotInv, JobIds, Stream!JobIds

Silent == UNCHANGED <<conv, state, sent, received, dropped>>

LEMMA EnqueueSubmits ==
    ASSUME Sound, NEW c \in Convs, NEW hold \in BOOLEAN, Enqueue(c, hold)
    PROVE  Stream!Submit(nextId, c) /\ nextId \in JobIds
<1> DEFINE h == IF hold THEN held \cup {nextId} ELSE held
<1>1. nextId \in JobIds
  BY SoundFacts, BoundsAssumption DEF Enqueue, RestType, JobIds
<1>2. /\ Push(c, nextId, h)
      /\ conv' = [conv EXCEPT ![nextId] = c]
      /\ state' = [state EXCEPT ![nextId] = "pending"]
      /\ UNCHANGED <<received, dropped>>
  BY DEF Enqueue, comdove, failures
<1> HIDE DEF h
<1>3. Stream!OffersInOrder
  BY SoundFacts, <1>1, <1>2, PushOffers
<1> QED
  BY SoundFacts, <1>1, <1>2, <1>3 DEF Stream!Submit, TableShape

LEMMA ComdoveTakes ==
    ASSUME Sound
    PROVE  /\ \A c \in Convs : Handle(c) => /\ Stream!Take(Head(queues[c]))
                                            /\ Head(queues[c]) \in JobIds
           /\ \A j \in JobIds : HandleLate(j) => Stream!Take(j)
<1>1. ASSUME NEW c \in Convs, Handle(c)
      PROVE  Stream!Take(Head(queues[c])) /\ Head(queues[c]) \in JobIds
  BY <1>1, TaskJob DEF Handle, Stream!Take, Sound, WireInv, storeVars, failures
<1>2. ASSUME NEW j \in JobIds, HandleLate(j) PROVE Stream!Take(j)
  BY <1>2 DEF HandleLate, Stream!Take, Sound, WireInv, storeVars, taskVars, failures
<1> QED
  BY <1>1, <1>2

\* A timer, an answer or a turn of the boot loop is an offer, a verdict, a verdict
\* that could not be written, or none of the stream's business.
Progresses ==
    \/ Silent
    \/ Stream!Offer
    \/ \E j \in JobIds : Stream!Drop(j)
    \/ \E j \in JobIds, verdict \in {"ok", "failed"} : Stream!Settle(j, verdict)

LEMMA AttemptProgresses ==
    ASSUME Sound, NEW c \in Convs, AttemptEnds(c)
    PROVE  Progresses
<1>1. ASSUME AttemptOk(c)
      PROVE  Stream!Settle(Head(queues[c]), "ok") /\ Head(queues[c]) \in JobIds
  <2>1. /\ phase[c] = "handled" /\ Release(c)
        /\ state' = [state EXCEPT ![Head(queues[c])] = "ok"]
        /\ UNCHANGED <<conv, received, dropped>>
    BY <1>1 DEF AttemptOk, Answered200, Finish, comdove, failures
  <2>2. c \in running /\ Head(queues[c]) \in JobIds /\ state[Head(queues[c])] = "pending"
    BY <2>1, TaskJob DEF Sound
  <2>3. Head(queues[c]) \in received
    BY <2>1 DEF Sound, WireInv
  <2>4. Stream!OffersInOrder
    BY SoundFacts, <2>1, <2>2, ReleaseOffers
  <2> QED
    BY <2>1, <2>2, <2>3, <2>4 DEF Stream!Settle
<1>2. ASSUME NEW open \in BOOLEAN, LastAttemptMissed(c, open)
      PROVE  Stream!Settle(Head(queues[c]), "failed") /\ Head(queues[c]) \in JobIds
  <2>1. /\ phase[c] \in {"sent", "handled"} /\ Release(c)
        /\ state' = [state EXCEPT ![Head(queues[c])] = "failed"]
        /\ UNCHANGED <<conv, received, dropped>>
    BY <1>2 DEF LastAttemptMissed, Finish, failures
  <2>2. c \in running /\ Head(queues[c]) \in JobIds /\ state[Head(queues[c])] = "pending"
    BY <2>1, TaskJob DEF Sound
  <2>3. Head(queues[c]) \in sent
    BY <2>1 DEF Sound, WireInv
  <2>4. Stream!OffersInOrder
    BY SoundFacts, <2>1, <2>2, ReleaseOffers
  <2> QED
    BY <2>1, <2>2, <2>3, <2>4 DEF Stream!Settle
<1>3. ASSUME NEW atFinish \in BOOLEAN, NEW open \in BOOLEAN, StoreWriteFails(c, atFinish, open)
      PROVE  Stream!Drop(Head(queues[c])) /\ Head(queues[c]) \in JobIds
  <2>1. /\ phase[c] \in {"sent", "handled"} /\ Release(c)
        /\ dropped' = dropped \cup {Head(queues[c])}
        /\ UNCHANGED <<conv, state, received>>
    BY <1>3 DEF StoreWriteFails
  <2>2. c \in running /\ Head(queues[c]) \in JobIds /\ state[Head(queues[c])] = "pending"
    BY <2>1, TaskJob DEF Sound
  <2>3. Head(queues[c]) \in sent
    BY <2>1 DEF Sound, WireInv
  <2>4. Stream!OffersInOrder
    BY SoundFacts, <2>1, <2>2, ReleaseOffers
  <2> QED
    BY <2>1, <2>2, <2>3, <2>4 DEF Stream!Drop
<1>4. ASSUME NEW open \in BOOLEAN, AttemptMissed(c, open) PROVE Silent
  BY <1>4 DEF AttemptMissed, failures, Silent
<1> QED
  BY <1>1, <1>2, <1>3, <1>4 DEF AttemptEnds, Progresses

LEMMA WorkProgresses ==
    ASSUME Sound,
           \/ \E c \in Convs : SleepEnds(c) \/ AttemptEnds(c) \/ BackoffEnds(c)
           \/ \E j \in JobIds : Resume(j)
           \/ BootDone
    PROVE  Progresses
<1>1. ASSUME NEW c \in Convs, SleepEnds(c) PROVE Stream!Offer
  <2>1. phase[c] # "none" /\ queues[c] # <<>>
    BY SoundFacts, <1>1, HeadIsJob DEF SleepEnds
  <2>2. /\ UNCHANGED <<queues, conv, state, received, dropped>>
        /\ sent' = sent \cup {Head(queues[c])}
    BY <1>1 DEF SleepEnds, slotVars, storeVars, comdove, failures
  <2>3. SentAreHeads /\ sent \subseteq sent'
    BY <2>1, <2>2 DEF SentAreHeads
  <2> QED
    BY SoundFacts, <2>2, <2>3, OffersFollow DEF Stream!Offer
<1>2. ASSUME NEW c \in Convs, BackoffEnds(c) PROVE Silent
  BY <1>2 DEF BackoffEnds, storeVars, comdove, failures, Silent
<1>3. ASSUME NEW j \in JobIds, Resume(j) PROVE Stream!Offer
  <2>1. conv[j] \in Convs
    BY SoundFacts, <1>3 DEF Resume, Resumable, IInv, PendingHasConv
  <2>2. Stream!OffersInOrder
    BY SoundFacts, <1>3, <2>1, PushOffers DEF Resume
  <2> QED
    BY <1>3, <2>2 DEF Resume, Stream!Offer, storeVars, comdove, failures
<1>4. BootDone => Silent
  BY DEF BootDone, storeVars, comdove, failures, Silent
<1> QED
  BY <1>1, <1>2, <1>3, <1>4, AttemptProgresses DEF Progresses

LEMMA ResetWipes == Sound /\ Reset => Stream!Wipe
BY SoundFacts DEF Reset, Stream!Wipe, failures

LEMMA RestSilent == Idle \/ Crash \/ UNCHANGED vars => Silent
BY DEF Idle, Crash, vars, storeVars, comdove, failures, Silent

LEMMA StepImplements ==
    ASSUME JInv, WireInv, JInv', [Next]_vars
    PROVE  [Stream!Next]_(Stream!vars)
<1>0. Sound /\ JobIds = Stream!JobIds
  BY DEF Sound, JobIds, Stream!JobIds
<1>1. Silent => UNCHANGED Stream!vars
  BY DEF Silent, Stream!vars
<1>2. Progresses => [Stream!Next]_(Stream!vars)
  BY <1>0, <1>1 DEF Progresses, Stream!Next
<1>3. ASSUME NEW c \in Convs, NEW hold \in BOOLEAN, Enqueue(c, hold) PROVE Stream!Next
  BY <1>0, <1>3, EnqueueSubmits DEF Stream!Next
<1>4. ASSUME (\E c \in Convs : Handle(c)) \/ (\E j \in JobIds : HandleLate(j)) PROVE Stream!Next
  BY <1>0, <1>4, ComdoveTakes DEF Stream!Next
<1>5. Reset => Stream!Next
  BY <1>0, ResetWipes DEF Stream!Next
<1> QED
  BY <1>0, <1>1, <1>2, <1>3, <1>4, <1>5, WorkProgresses, RestSilent DEF Next

\* The pool, the queues, the retries, the restarts, the late POSTs and the
\* failed store writes together are one ordered, at-least-once stream of
\* webhooks per conversation.
THEOREM ImplementsStreamHolds == Spec => ImplementsStream
<1>1. Init => Stream!Init
  BY DEF Init, Stream!Init, JobIds, Stream!JobIds
<1>2. JInv /\ WireInv /\ JInv' /\ [Next]_vars => [Stream!Next]_(Stream!vars)
  BY StepImplements
<1> QED
  BY <1>1, <1>2, WireHolds, PTL DEF Spec, ImplementsStream, Stream!Spec

-----------------------------------------------------------------------------
(* How often a job can have been tried.                                     *)

\* The attempts that earlier lives of the process may have recorded for a job.
Budget == MaxAttempts * crashes

\* The attempts of this life that are recorded while the task is at n[c].
Made(c) == IF phase[c] = "backoff" THEN n[c] ELSE n[c] - 1

\* A task's job has been tried in this life exactly as often as the task says.
Counted ==
    \A c \in Convs : phase[c] # "none" =>
        /\ Made(c) <= tries[Head(queues[c])]
        /\ tries[Head(queues[c])] <= Budget + Made(c)

\* A queued job whose task has not come to it was not tried in this life.
Fresh ==
    \A c \in Convs, j \in JobIds :
        (Contains(queues[c], j) /\ (phase[c] = "none" \/ j # Head(queues[c]))) => tries[j] <= Budget

\* What the record says of every job, queued or not.
TriesBounded ==
    /\ mode = "booting" => \A j \in JobIds : tries[j] <= Budget
    /\ \A j \in JobIds : /\ tries[j] <= Budget + MaxAttempts
                         /\ state[j] = "absent" => tries[j] = 0
                         /\ state[j] = "failed" => tries[j] >= MaxAttempts

TriesInv == Counted /\ Fresh /\ TriesBounded

LEMMA BudgetFacts ==
    ASSUME crashes \in Nat
    PROVE  /\ Budget \in Nat
           /\ MaxAttempts * (crashes + 1) = Budget + MaxAttempts
           /\ crashes' = crashes => Budget' = Budget
           /\ crashes' = crashes + 1 => Budget' = Budget + MaxAttempts
BY LimitsAssumption DEF Budget

\* When tasks move on, a task that begins does so on a job that was fresh.
LEMMA TriesFollow ==
    ASSUME TriesInv, TasksMove, Budget \in Nat, Budget' = Budget,
           tries \in [JobIds -> Nat], tries' \in [JobIds -> Nat],
           queues' \in [Convs -> Seq(JobIds)],
           \A d \in Convs : \A x \in JobIds :
               Contains(queues'[d], x) =>
                   /\ tries'[x] = tries[x]
                   /\ \/ Contains(queues[d], x) /\ (queues'[d] = Tail(queues[d]) => x # Head(queues[d]))
                      \/ tries[x] <= Budget /\ (phase[d] # "none" => x # Head(queues[d])),
           \A d \in Convs : phase'[d] # "none" => Contains(queues'[d], Head(queues'[d]))
                                                /\ Head(queues'[d]) \in JobIds
    PROVE  Counted' /\ Fresh'
<1>1. ASSUME NEW d \in Convs, phase'[d] # "none"
      PROVE  /\ Made(d)' <= tries'[Head(queues'[d])]
             /\ tries'[Head(queues'[d])] <= Budget + Made(d)'
  <2> DEFINE x == Head(queues'[d])
  <2>1. x \in JobIds /\ Contains(queues'[d], x) /\ tries'[x] = tries[x] /\ TaskMoves(d)
    BY <1>1 DEF TasksMove
  <2>2. CASE phase'[d] = phase[d] /\ phase[d] # "none" /\ n'[d] = n[d] /\ x = Head(queues[d])
    BY <2>1, <2>2 DEF TriesInv, Counted, Made
  <2>3. CASE /\ phase'[d] \in {"sleep", "sent"} /\ n'[d] = 1
             /\ phase[d] = "none" \/ queues'[d] = Tail(queues[d])
    <3>1. tries[x] <= Budget
      BY <2>1, <2>3 DEF TriesInv, Fresh
    <3>2. Made(d)' = 0
      BY <2>3 DEF Made
    <3> HIDE DEF x
    <3> QED
      BY <2>1, <3>1, <3>2 DEF x
  <2> QED
    BY <1>1, <2>1, <2>2, <2>3 DEF TaskMoves
<1>2. ASSUME NEW d \in Convs, NEW x \in JobIds, Contains(queues'[d], x),
             phase'[d] = "none" \/ x # Head(queues'[d])
      PROVE  tries'[x] <= Budget'
  <2>1. TaskMoves(d) /\ tries'[x] = tries[x]
    BY <1>2 DEF TasksMove
  <2>2. CASE tries[x] <= Budget
    BY <2>1, <2>2
  <2>3. CASE Contains(queues[d], x) /\ (queues'[d] = Tail(queues[d]) => x # Head(queues[d]))
    <3>1. phase[d] = "none" \/ x # Head(queues[d])
      BY <1>2, <2>1, <2>3 DEF TaskMoves
    <3> QED
      BY <2>1, <2>3, <3>1 DEF TriesInv, Fresh
  <2> QED
    BY <1>2, <2>2, <2>3
<1> QED
  BY <1>1, <1>2 DEF Counted, Fresh

HeadsQueued ==
    \A d \in Convs : phase[d] # "none" => /\ Contains(queues[d], Head(queues[d]))
                                          /\ Head(queues[d]) \in JobIds

LEMMA TasksHaveHeads == IInv => HeadsQueued
<1> SUFFICES ASSUME IInv, NEW d \in Convs, phase[d] # "none"
             PROVE  Contains(queues[d], Head(queues[d])) /\ Head(queues[d]) \in JobIds
  BY DEF HeadsQueued
<1>1. queues[d] # <<>> /\ Head(queues[d]) \in JobIds /\ queues[d] \in Seq(JobIds)
  BY HeadIsJob DEF IInv, SlotInv, SlotType
<1>2. 1 \in 1 .. Len(queues[d]) /\ queues[d][1] = Head(queues[d])
  BY <1>1
<1> QED
  BY <1>1, <1>2 DEF Contains

LEMMA TailDiffers ==
    ASSUME NEW q \in Seq(JobIds), q # <<>>
    PROVE  q # Tail(q)
<1> DEFINE r == Tail(q)
<1>1. Len(r) = Len(q) - 1 /\ Len(q) \in Nat
  OBVIOUS
<1> HIDE DEF r
<1>2. q # r
  BY <1>1
<1> QED
  BY <1>2 DEF r

\* Queueing a fresh job keeps the count.
LEMMA PushTries ==
    ASSUME JInv, TriesInv, IInv', NEW c \in Convs, NEW j \in JobIds, NEW h, Push(c, j, h),
           UNCHANGED <<tries, crashes>>, tries[j] <= Budget,
           \A x \in JobIds : Contains(queues[c], x) => x < j
    PROVE  Counted' /\ Fresh'
<1>0. IInv /\ SlotInv /\ crashes \in Nat /\ tries \in [JobIds -> Nat]
  BY DEF JInv, IInv, RestType
<1>1. TasksMove /\ queues' = [queues EXCEPT ![c] = Append(@, j)]
  BY <1>0, PushMoves, PushSends
<1>2. queues \in [Convs -> Seq(JobIds)] /\ queues' \in [Convs -> Seq(JobIds)]
  BY <1>0 DEF IInv, SlotInv, SlotType
<1>3. HeadsQueued /\ HeadsQueued'
  BY <1>0, TasksHaveHeads, PTL
<1>4. ASSUME NEW d \in Convs, NEW x \in JobIds, Contains(queues'[d], x)
      PROVE  \/ Contains(queues[d], x) /\ (queues'[d] = Tail(queues[d]) => x # Head(queues[d]))
             \/ tries[x] <= Budget /\ (phase[d] # "none" => x # Head(queues[d]))
  <2>1. CASE d # c
    <3>1. queues'[d] = queues[d] /\ queues[d] \in Seq(JobIds) /\ Contains(queues[d], x)
      BY <1>1, <1>2, <1>4, <2>1
    <3>2. queues[d] # <<>>
      BY <3>1 DEF Contains
    <3>3. queues[d] # Tail(queues[d])
      BY <3>1, <3>2, TailDiffers
    <3> QED
      BY <3>1, <3>3
  <2>2. CASE d = c
    <3>1. queues[c] \in Seq(JobIds) /\ Ascending(queues[c]) /\ queues'[c] = Append(queues[c], j)
      BY <1>0, <1>1, <1>2, MirrorFacts DEF JInv
    <3>2. Contains(queues[c], x) \/ x = j
      BY <1>4, <2>2, <3>1, AscendingAppend
    <3>3. CASE x = j
      BY <1>3, <2>2, <3>3 DEF HeadsQueued, JobIds
    <3>4. CASE Contains(queues[c], x)
      <4>1. queues[c] # <<>>
        BY <3>1, <3>4 DEF Contains
      <4>2. Append(queues[c], j) # Tail(queues[c])
        <5>1. Len(Append(queues[c], j)) = Len(queues[c]) + 1 /\ Len(Tail(queues[c])) = Len(queues[c]) - 1
              /\ Len(queues[c]) \in Nat
          BY <3>1, <4>1
        <5> QED
          BY <5>1
      <4> QED
        BY <2>2, <3>1, <3>4, <4>2
    <3> QED
      BY <3>2, <3>3, <3>4
  <2> QED
    BY <2>1, <2>2
<1> QED
  BY <1>0, <1>1, <1>2, <1>3, <1>4, BudgetFacts, TriesFollow DEF HeadsQueued

\* The end of a task keeps the count: only the job that leaves was tried.
LEMMA ReleaseTries ==
    ASSUME JInv, TriesInv, IInv', NEW c \in Convs, phase[c] # "none", Release(c),
           tries' \in {tries, [tries EXCEPT ![Head(queues[c])] = @ + 1]}, UNCHANGED crashes
    PROVE  Counted' /\ Fresh'
<1> DEFINE g == Head(queues[c])
<1>0. /\ IInv /\ SlotInv /\ QueuesMirrorStore /\ crashes \in Nat /\ tries \in [JobIds -> Nat]
      /\ tries' \in [JobIds -> Nat]
      /\ c \in running /\ g \in JobIds /\ conv[g] = c
  BY TaskJob DEF JInv, IInv, RestType
<1>1. TasksMove /\ queues' = [queues EXCEPT ![c] = Tail(@)] /\ queues[c] # <<>>
  BY <1>0, ReleaseMoves, ReleaseSends
<1>2. queues \in [Convs -> Seq(JobIds)] /\ queues' \in [Convs -> Seq(JobIds)]
  BY <1>0 DEF IInv, SlotInv, SlotType
<1>3. HeadsQueued'
  BY <1>0, TasksHaveHeads, PTL
<1>4. ASSUME NEW d \in Convs, NEW x \in JobIds, Contains(queues'[d], x)
      PROVE  /\ x # g
             /\ Contains(queues[d], x)
             /\ queues'[d] = Tail(queues[d]) => x # Head(queues[d])
  <2>1. CASE d = c
    <3>1. queues[c] \in Seq(JobIds) /\ Ascending(queues[c]) /\ queues'[c] = Tail(queues[c])
      BY <1>0, <1>1, <1>2, MirrorFacts
    <3> QED
      BY <1>1, <1>4, <2>1, <3>1, AscendingTail
  <2>2. CASE d # c
    <3>1. queues'[d] = queues[d] /\ queues[d] \in Seq(JobIds) /\ Contains(queues[d], x)
      BY <1>1, <1>2, <1>4, <2>2
    <3>2. queues[d] # <<>>
      BY <3>1 DEF Contains
    <3>3. queues[d] # Tail(queues[d])
      BY <3>1, <3>2, TailDiffers
    <3>4. conv[x] = d
      BY <1>0, <3>1, MirrorFacts
    <3> QED
      BY <1>0, <2>2, <3>1, <3>3, <3>4
  <2> QED
    BY <2>1, <2>2
<1>5. \A x \in JobIds \ {g} : tries'[x] = tries[x]
  BY <1>0
<1> HIDE DEF g
<1>6. \A d \in Convs : \A x \in JobIds :
        Contains(queues'[d], x) =>
            /\ tries'[x] = tries[x]
            /\ Contains(queues[d], x) /\ (queues'[d] = Tail(queues[d]) => x # Head(queues[d]))
  BY <1>4, <1>5
<1>7. Budget \in Nat /\ Budget' = Budget
  BY <1>0, BudgetFacts
<1> QED
  BY <1>0, <1>1, <1>2, <1>3, <1>6, <1>7, TriesFollow DEF HeadsQueued

LEMMA StepKeepsTries == JInv /\ JInv' /\ TriesInv /\ [Next]_vars => TriesInv'
<1> SUFFICES ASSUME JInv, JInv', TriesInv, [Next]_vars PROVE TriesInv'
  OBVIOUS
<1>0. /\ IInv /\ IInv' /\ SlotInv /\ SlotType /\ RestType /\ TableShape /\ QueuesMirrorStore /\ BootAhead
      /\ crashes \in Nat /\ tries \in [JobIds -> Nat] /\ nextId \in Nat
  BY DEF JInv, IInv, SlotInv, RestType
<1>1. /\ Budget \in Nat /\ MaxAttempts \in Nat \ {0}
      /\ crashes' = crashes => Budget' = Budget
      /\ crashes' = crashes + 1 => Budget' = Budget + MaxAttempts
  BY <1>0, BudgetFacts, LimitsAssumption
<1>2. ASSUME UNCHANGED <<tries, crashes>>, Counted', Fresh', mode' = "booting" => mode = "booting",
             \A j \in JobIds : /\ state'[j] = "absent" => state[j] = "absent"
                               /\ state'[j] = "failed" => state[j] = "failed"
      PROVE  TriesInv'
  <2>1. Budget' = Budget
    BY <1>1, <1>2
  <2>2. TriesBounded'
    BY <1>0, <1>1, <1>2, <2>1 DEF TriesInv, TriesBounded
  <2> QED
    BY <1>2, <2>2 DEF TriesInv
<1>3. ASSUME UNCHANGED <<tries, crashes, queues, state>>, mode' = "booting" => mode = "booting",
             \A c \in Convs : /\ phase[c] = "none" <=> phase'[c] = "none"
                              /\ phase[c] # "none" => Made(c)' = Made(c)
      PROVE  TriesInv'
  <2>1. Budget' = Budget
    BY <1>1, <1>3
  <2>2. Counted'
    BY <1>0, <1>1, <1>3, <2>1 DEF TriesInv, Counted
  <2>3. Fresh'
    BY <1>3, <2>1 DEF TriesInv, Fresh
  <2> QED
    BY <1>2, <1>3, <2>2, <2>3
<1>4. ASSUME NEW c \in Convs, NEW hold \in BOOLEAN, Enqueue(c, hold) PROVE TriesInv'
  <2> DEFINE h == IF hold THEN held \cup {nextId} ELSE held
  <2>1. nextId \in JobIds /\ state[nextId] = "absent"
    BY <1>0, <1>4, BoundsAssumption DEF Enqueue, TableShape, RestType, JobIds
  <2>2. /\ Push(c, nextId, h) /\ mode' = mode
        /\ UNCHANGED <<tries, crashes>>
        /\ state' = [state EXCEPT ![nextId] = "pending"]
    BY <1>4 DEF Enqueue, failures, bootVars
  <2> HIDE DEF h
  <2>3. tries[nextId] <= Budget
    BY <1>1, <2>1 DEF TriesInv, TriesBounded
  <2>4. \A x \in JobIds : Contains(queues[c], x) => x < nextId
    BY <1>0 DEF QueuesMirrorStore, TableShape, JobIds
  <2>5. Counted' /\ Fresh'
    BY <1>0, <2>1, <2>2, <2>3, <2>4, PushTries
  <2>6. \A j \in JobIds : /\ state'[j] = "absent" => state[j] = "absent"
                          /\ state'[j] = "failed" => state[j] = "failed"
    BY <1>0, <2>2 DEF RestType
  <2> QED
    BY <1>2, <2>2, <2>5, <2>6
<1>5. ASSUME NEW c \in Convs, SleepEnds(c) PROVE TriesInv'
  <2>1. \A d \in Convs : /\ phase[d] = "none" <=> phase'[d] = "none"
                         /\ Made(d)' = Made(d)
    BY <1>0, <1>5 DEF SleepEnds, SlotType, Made
  <2> QED
    BY <1>3, <1>5, <2>1 DEF SleepEnds, slotVars, storeVars, bootVars, failures
<1>6. ASSUME NEW c \in Convs, Handle(c) PROVE TriesInv'
  <2>1. \A d \in Convs : /\ phase[d] = "none" <=> phase'[d] = "none"
                         /\ Made(d)' = Made(d)
    BY <1>0, <1>6 DEF Handle, SlotType, Made
  <2> QED
    BY <1>3, <1>6, <2>1 DEF Handle, slotVars, storeVars, bootVars, failures
<1>7. ASSUME NEW c \in Convs, BackoffEnds(c) PROVE TriesInv'
  <2>1. \A d \in Convs : /\ phase[d] = "none" <=> phase'[d] = "none"
                         /\ Made(d)' = Made(d)
    BY <1>0, <1>7 DEF BackoffEnds, SlotType, Made
  <2> QED
    BY <1>3, <1>7, <2>1 DEF BackoffEnds, slotVars, storeVars, bootVars, failures
<1>8. ASSUME \/ \E j \in JobIds : HandleLate(j)
             \/ Idle
             \/ UNCHANGED vars
      PROVE  TriesInv'
  <2>1. UNCHANGED <<tries, crashes, queues, state, mode, phase, n>>
    BY <1>8 DEF HandleLate, Idle, vars, slotVars, taskVars, storeVars, bootVars, failures
  <2>2. \A d \in Convs : Made(d)' = Made(d)
    BY <2>1 DEF Made
  <2> QED
    BY <1>3, <2>1, <2>2
<1>9. ASSUME BootDone PROVE TriesInv'
  <2>1. UNCHANGED <<tries, crashes, queues, state, phase, n>> /\ mode' = "up"
    BY <1>9 DEF BootDone, slotVars, taskVars, storeVars, failures
  <2>2. \A d \in Convs : Made(d)' = Made(d)
    BY <2>1 DEF Made
  <2> QED
    BY <1>3, <2>1, <2>2
<1>10. ASSUME NEW j \in JobIds, Resume(j) PROVE TriesInv'
  <2>1. /\ conv[j] \in Convs /\ mode = "booting" /\ j >= cursor
        /\ Push(conv[j], j, held) /\ UNCHANGED <<tries, crashes, state, mode>>
    BY <1>0, <1>10 DEF Resume, Resumable, IInv, PendingHasConv, storeVars, failures
  <2>2. tries[j] <= Budget
    BY <2>1 DEF TriesInv, TriesBounded
  <2>3. \A x \in JobIds : Contains(queues[conv[j]], x) => x < j
    BY <1>0, <2>1 DEF BootAhead, JobIds, RestType
  <2>4. Counted' /\ Fresh'
    BY <1>0, <2>1, <2>2, <2>3, PushTries
  <2> QED
    BY <1>2, <2>1, <2>4
<1>11. ASSUME NEW c \in Convs, AttemptEnds(c) PROVE TriesInv'
  <2> DEFINE g == Head(queues[c])
  <2>1. /\ phase[c] \in {"sent", "handled"} /\ mode' = mode /\ mode = "up" /\ crashes' = crashes
        /\ tries' = tries \/ tries' = [tries EXCEPT ![g] = @ + 1]
    BY <1>11 DEF AttemptEnds, AttemptOk, Answered200, AttemptMissed, LastAttemptMissed, StoreWriteFails,
                 failures, bootVars
  <2>2. /\ g \in JobIds /\ conv[g] = c /\ state[g] = "pending" /\ c \in running
        /\ n[c] \in 0 .. MaxAttempts /\ tries[g] \in Nat
    BY <1>0, <2>1, TaskJob DEF SlotType
  <2>3. n[c] - 1 <= tries[g] /\ tries[g] <= Budget + n[c] - 1
    BY <1>1, <2>1, <2>2 DEF TriesInv, Counted, Made
  <2>4. /\ Budget' = Budget
        /\ \A j \in JobIds \ {g} : tries'[j] = tries[j]
        /\ tries'[g] \in {tries[g], tries[g] + 1}
    BY <1>0, <1>1, <2>1, <2>2
  <2>5. \A j \in JobIds : tries'[j] <= Budget' + MaxAttempts
    <3>1. tries'[g] <= Budget + MaxAttempts
      <4> HIDE DEF g
      <4> QED
        BY <1>1, <2>2, <2>3, <2>4
    <3> QED
      BY <2>4, <3>1 DEF TriesInv, TriesBounded
  <2>6. ASSUME Release(c) PROVE Counted' /\ Fresh'
    BY <1>0, <2>1, <2>6, ReleaseTries
  <2>7. ASSUME \/ UNCHANGED state
               \/ state' = [state EXCEPT ![g] = "ok"]
               \/ state' = [state EXCEPT ![g] = "failed"] /\ tries'[g] >= MaxAttempts
        PROVE  \A j \in JobIds : /\ state'[j] = "absent" => tries'[j] = 0
                                 /\ state'[j] = "failed" => tries'[j] >= MaxAttempts
    <3>1. \A j \in JobIds \ {g} : state'[j] = state[j]
      BY <1>0, <2>2, <2>7 DEF RestType
    <3>2. \/ state'[g] \in {"pending", "ok"}
          \/ state'[g] = "failed" /\ tries'[g] >= MaxAttempts
      BY <1>0, <2>2, <2>7 DEF RestType
    <3> HIDE DEF g
    <3> QED
      BY <2>4, <3>1, <3>2 DEF TriesInv, TriesBounded
  <2>8. ASSUME Counted', Fresh',
               \/ UNCHANGED state
               \/ state' = [state EXCEPT ![g] = "ok"]
               \/ state' = [state EXCEPT ![g] = "failed"] /\ tries'[g] >= MaxAttempts
        PROVE  TriesInv'
    <3>1. TriesBounded'
      BY <1>1, <2>1, <2>5, <2>7, <2>8 DEF TriesBounded
    <3> QED
      BY <2>8, <3>1 DEF TriesInv
  <2>9. CASE AttemptOk(c)
    BY <2>6, <2>8, <2>9 DEF AttemptOk, Finish
  <2>10. ASSUME NEW open \in BOOLEAN, AttemptMissed(c, open) PROVE TriesInv'
    <3>1. /\ tries' = [tries EXCEPT ![g] = @ + 1] /\ phase' = [phase EXCEPT ![c] = "backoff"]
          /\ UNCHANGED <<state, queues, n>>
      BY <2>10 DEF AttemptMissed, slotVars
    <3>2. /\ tries'[g] = tries[g] + 1
          /\ Made(c)' = n[c]
          /\ \A d \in Convs \ {c} : phase'[d] = phase[d] /\ Made(d)' = Made(d)
      BY <1>0, <2>2, <3>1 DEF SlotType, Made
    <3>3. ASSUME NEW d \in Convs, phase'[d] # "none"
          PROVE  /\ Made(d)' <= tries'[Head(queues'[d])]
                 /\ tries'[Head(queues'[d])] <= Budget' + Made(d)'
      <4>1. CASE d = c
        <5> HIDE DEF g
        <5>1. n[c] <= tries'[g] /\ tries'[g] <= Budget + n[c]
          BY <1>1, <2>2, <2>3, <3>2
        <5> QED
          BY <2>4, <3>1, <3>2, <4>1, <5>1 DEF g
      <4>2. CASE d # c
        <5>1. phase[d] # "none" /\ Made(d)' = Made(d)
          BY <3>2, <3>3, <4>2
        <5>2. Head(queues[d]) \in JobIds /\ conv[Head(queues[d])] = d
          BY <5>1, TaskJob
        <5>3. tries'[Head(queues[d])] = tries[Head(queues[d])]
          BY <2>2, <2>4, <4>2, <5>2
        <5> QED
          BY <2>4, <3>1, <5>1, <5>3 DEF TriesInv, Counted
      <4> QED
        BY <4>1, <4>2
    <3>4. Counted'
      BY <3>3 DEF Counted
    <3>5. ASSUME NEW d \in Convs, NEW x \in JobIds, Contains(queues'[d], x),
                 phase'[d] = "none" \/ x # Head(queues'[d])
          PROVE  tries'[x] <= Budget'
      <4>1. Contains(queues[d], x) /\ (phase[d] = "none" \/ x # Head(queues[d]))
        BY <1>0, <2>1, <2>2, <3>1, <3>5 DEF SlotType
      <4>2. conv[x] = d
        BY <1>0, <4>1, MirrorFacts
      <4>3. x # g
        BY <2>1, <2>2, <4>1, <4>2
      <4> QED
        BY <2>4, <4>1, <4>3 DEF TriesInv, Fresh
    <3>6. Fresh'
      BY <3>5 DEF Fresh
    <3> QED
      BY <2>8, <3>1, <3>4, <3>6
  <2>11. ASSUME NEW open \in BOOLEAN, LastAttemptMissed(c, open) PROVE TriesInv'
    <3>1. /\ Release(c) /\ state' = [state EXCEPT ![g] = "failed"]
          /\ tries' = [tries EXCEPT ![g] = @ + 1]
          /\ ~(n[c] < MaxAttempts)
      BY <2>11 DEF LastAttemptMissed, Finish, AttemptsLeft
    <3>2. tries'[g] = tries[g] + 1
      BY <1>0, <2>2, <3>1
    <3>3. tries'[g] >= MaxAttempts
      <4> HIDE DEF g
      <4> QED
        BY <1>1, <2>2, <2>3, <3>1, <3>2
    <3> QED
      BY <2>6, <2>8, <3>1, <3>3
  <2>12. ASSUME NEW atFinish \in BOOLEAN, NEW open \in BOOLEAN, StoreWriteFails(c, atFinish, open)
         PROVE  TriesInv'
    BY <2>6, <2>8, <2>12 DEF StoreWriteFails
  <2> QED
    BY <1>11, <2>9, <2>10, <2>11, <2>12 DEF AttemptEnds
<1>12. ASSUME DropMemory PROVE Counted' /\ Fresh'
  <2>1. \A d \in Convs : queues'[d] = <<>> /\ phase'[d] = "none"
    BY <1>12 DEF DropMemory
  <2> QED
    BY <2>1 DEF Counted, Fresh, Contains
<1>13. ASSUME Reset PROVE TriesInv'
  <2>1. /\ mode' = "up" /\ Budget' = Budget
        /\ \A j \in JobIds : tries'[j] = 0 /\ state'[j] # "failed"
    BY <1>1, <1>13 DEF Reset, bootVars, failures
  <2> QED
    <3>1. TriesBounded'
      BY <1>1, <2>1 DEF TriesBounded
    <3> QED
      BY <1>12, <1>13, <3>1 DEF Reset, TriesInv
<1>14. ASSUME Crash PROVE TriesInv'
  <2>1. DropMemory /\ UNCHANGED state /\ Budget' = Budget + MaxAttempts
    BY <1>1, <1>14 DEF Crash
  <2>2. ASSUME NEW j \in JobIds
        PROVE  /\ tries'[j] <= Budget + MaxAttempts
               /\ tries'[j] >= tries[j]
               /\ state[j] = "absent" => tries'[j] = tries[j]
    <3>1. tries[j] \in Nat /\ tries[j] <= Budget + MaxAttempts
      BY <1>0 DEF TriesInv, TriesBounded
    <3>2. CASE tries'[j] = tries[j]
      BY <3>1, <3>2
    <3>3. CASE tries'[j] = tries[j] + 1 /\ j \in InFlight
      <4>1. PICK d \in Convs : phase[d] \in {"sent", "handled"} /\ j = Head(queues[d])
        BY <3>3 DEF InFlight
      <4>2. n[d] \in 0 .. MaxAttempts /\ state[j] = "pending"
        BY <1>0, <4>1, TaskJob DEF SlotType
      <4>3. tries[j] <= Budget + n[d] - 1
        BY <1>1, <4>1, <4>2 DEF TriesInv, Counted, Made
      <4> QED
        BY <1>1, <3>1, <3>3, <4>2, <4>3
    <3> QED
      BY <1>0, <1>14, <3>2, <3>3 DEF Crash
  <2>3. \A j \in JobIds : tries'[j] \in Nat
    BY <1>0 DEF IInv, RestType
  <2>4. \A j \in JobIds : tries'[j] <= Budget' /\ tries'[j] <= Budget' + MaxAttempts
    BY <1>1, <2>1, <2>2, <2>3
  <2>5. \A j \in JobIds : /\ state'[j] = "absent" => tries'[j] = 0
                          /\ state'[j] = "failed" => tries'[j] >= MaxAttempts
    BY <1>0, <1>1, <2>1, <2>2, <2>3 DEF TriesInv, TriesBounded
  <2>6. TriesBounded'
    BY <1>1, <2>1, <2>4, <2>5 DEF TriesBounded
  <2> QED
    BY <1>12, <2>1, <2>6 DEF TriesInv
<1> QED
  BY <1>4, <1>5, <1>6, <1>7, <1>8, <1>9, <1>10, <1>11, <1>13, <1>14 DEF Next

\* ok is said only of a job Comdove took, failed only after every attempt, and
\* no life of the process makes more attempts than the limit.
THEOREM VerdictsEarnedHolds == Spec => []VerdictsEarned
<1>1. Init => TriesInv
  <2> SUFFICES ASSUME Init PROVE TriesInv
    OBVIOUS
  <2>1. Budget = 0
    BY LimitsAssumption DEF Init, Budget
  <2>2. \A c \in Convs, j \in JobIds : ~Contains(queues[c], j)
    BY DEF Init, Contains
  <2> QED
    BY <2>1, <2>2, LimitsAssumption DEF Init, TriesInv, TriesBounded, Counted, Fresh
<1>2. JInv /\ WireInv /\ TriesInv => VerdictsEarned
  <2> SUFFICES ASSUME JInv, WireInv, TriesInv PROVE VerdictsEarned
    OBVIOUS
  <2>1. MaxAttempts * (crashes + 1) = Budget + MaxAttempts
    BY BudgetFacts DEF JInv, IInv, RestType
  <2> QED
    BY <2>1 DEF VerdictsEarned, WireInv, TriesInv, TriesBounded
<1> QED
  BY <1>1, <1>2, WireHolds, StepKeepsTries, PTL DEF Spec

===============================================================================
