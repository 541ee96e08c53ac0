------------------------------- MODULE TabProofs -------------------------------
(***************************************************************************)
(* Proofs about Tab, for any businesses, any limit of the history and any   *)
(* number of messages.                                                      *)
(***************************************************************************)
EXTENDS Tab, FiniteSetTheorems, TLAPS

-----------------------------------------------------------------------------
(* What is true of every message and of its bubble.                         *)

Facts ==
    /\ dir \in [Ids -> {"none", "out", "in"}]
    /\ bizOf \in [Ids -> Businesses \cup {Nobody}]
    /\ next \in 1 .. MaxMsgs + 1
    /\ live \in SUBSET Ids
    /\ bubbles \in [Ids -> Statuses \cup {"none"}]
    /\ \A m \in live \cup awaiting : m < next
    /\ \A m \in Ids : bubbles[m] # "none" => m < next
    /\ \A m \in delivered : m \in live
    /\ \A m \in read : m \in live /\ (dir[m] = "out" => m \in delivered)
    /\ awaiting \in SUBSET Ids

\* Inductive: the bubbles are current, and nothing is known of a message before
\* it is stored.
TInv == Facts /\ BubblesCurrent

\* The messages, the marks and the bubbles stay.
LEMMA SameTab ==
    ASSUME TInv, UNCHANGED <<messages, marks, bubbles>>, awaiting' \subseteq awaiting,
           session' = "open" => session = "open" /\ stale \subseteq stale'
    PROVE  TInv'
<1>1. UNCHANGED <<dir, bizOf, next, live, delivered, read>>
  BY DEF messages, marks
<1>2. Facts'
  BY <1>1 DEF TInv, Facts
<1>3. BubblesCurrent'
  BY <1>1 DEF TInv, BubblesCurrent, StatusOf
<1> QED
  BY <1>2, <1>3 DEF TInv

\* There is no tab.
LEMMA NoTabInv ==
    ASSUME Facts, UNCHANGED <<messages, read>>, \A m \in delivered' : m \in live,
           delivered \subseteq delivered', awaiting' \subseteq awaiting,
           session' = "none", bubbles' = Blank
    PROVE  TInv'
<1>1. UNCHANGED <<dir, bizOf, next, live>>
  BY DEF messages
<1>2. bubbles' \in [Ids -> Statuses \cup {"none"}] /\ \A m \in Ids : bubbles'[m] = "none"
  BY DEF Blank
<1>3. Facts'
  BY <1>1, <1>2 DEF Facts
<1>4. BubblesCurrent'
  BY DEF BubblesCurrent
<1> QED
  BY <1>3, <1>4 DEF TInv

\* Only messages of the batch are announced.
LEMMA AnnouncedIsDelivered ==
    ASSUME NEW S, NEW told \in Announceable(S)
    PROVE  told \subseteq S
BY DEF Announceable

\* delivered() of queued messages, whose bubbles are there by now if they ever
\* will be; the other bubbles are as they were.
LEMMA DeliverCurrent ==
    ASSUME Facts, NEW S \in SUBSET Queued, NEW told \in Announceable(S),
           NEW shown \in [Ids -> Statuses \cup {"none"}],
           UNCHANGED <<messages, read>>, awaiting' \subseteq awaiting, delivered' = delivered \cup S,
           \/ session' # "open" /\ bubbles' = bubbles
           \/ bubbles' = Ticked(shown, told, "delivered"),
           \A m \in Ids : shown[m] # "none" => m < next,
           session' = "open" => bubbles' = Ticked(shown, told, "delivered"),
           session' = "open" => \A m \in S : m \notin told => m \in stale',
           session' = "open" => \A m \in live \ S : m \in stale' \/ shown[m] \in {"none", StatusOf(m)}
    PROVE  TInv'
<1>1. UNCHANGED <<dir, bizOf, next, live>>
  BY DEF messages
<1>2. told \subseteq S /\ \A m \in S : m \in live /\ m \notin delivered /\ dir[m] = "out"
  BY AnnouncedIsDelivered DEF Queued
<1>3. \A m \in S : m \notin read
  BY <1>2 DEF Facts
<1>4. Facts'
  <2>1. bubbles' \in [Ids -> Statuses \cup {"none"}] /\ \A m \in Ids : bubbles'[m] # "none" => m < next
    BY DEF Facts, Ticked, Statuses
  <2> QED
    BY <1>1, <1>2, <2>1 DEF Facts
<1>5. ASSUME session' = "open", NEW m \in live \ stale'
      PROVE  bubbles'[m] \in {"none", StatusOf(m)'}
  <2>1. /\ m \in Ids
        /\ bubbles'[m] = IF m \in told /\ shown[m] # "none" THEN "delivered" ELSE shown[m]
    BY <1>5 DEF Facts, Ticked
  <2>2. CASE m \in S
    BY <1>2, <1>3, <1>5, <2>1, <2>2 DEF StatusOf
  <2>3. CASE m \notin S
    <3>1. StatusOf(m)' = StatusOf(m)
      BY <2>3 DEF StatusOf
    <3> QED
      BY <1>2, <1>5, <2>1, <2>3, <3>1
  <2> QED
    BY <2>2, <2>3
<1>6. BubblesCurrent'
  BY <1>1, <1>5 DEF BubblesCurrent
<1> QED
  BY <1>4, <1>6 DEF TInv

\* A message is read and its bubble, if it is there, ticked.
LEMMA ReadCurrent ==
    ASSUME TInv, NEW S \in SUBSET live, \A m \in S : dir[m] = "out" => m \in delivered,
           UNCHANGED <<messages, delivered, awaiting, session, stale>>, read' = read \cup S, Ticks(S)
    PROVE  TInv'
<1>1. UNCHANGED <<dir, bizOf, next, live>>
  BY DEF messages
<1>2. bubbles' = IF session = "open" THEN Ticked(bubbles, S, "read") ELSE bubbles
  BY DEF Ticks, Shows
<1>3. Facts'
  <2>1. bubbles' \in [Ids -> Statuses \cup {"none"}] /\ \A m \in Ids : bubbles'[m] # "none" => m < next
    BY <1>2 DEF TInv, Facts, Ticked, Statuses
  <2> QED
    BY <1>1, <2>1 DEF TInv, Facts
<1>4. ASSUME session = "open", NEW m \in live \ stale
      PROVE  bubbles'[m] \in {"none", StatusOf(m)'}
  <2>1. m \in Ids /\ bubbles'[m] = IF m \in S /\ bubbles[m] # "none" THEN "read" ELSE bubbles[m]
    BY <1>2, <1>4 DEF TInv, Facts, Ticked
  <2>2. bubbles[m] \in {"none", StatusOf(m)}
    BY <1>4 DEF TInv, BubblesCurrent
  <2>3. m \in S => StatusOf(m)' = "read"
    BY DEF StatusOf
  <2>4. m \notin S => StatusOf(m)' = StatusOf(m)
    BY DEF StatusOf
  <2> QED
    BY <2>1, <2>2, <2>3, <2>4
<1>5. BubblesCurrent'
  BY <1>1, <1>4 DEF BubblesCurrent
<1> QED
  BY <1>3, <1>5 DEF TInv

\* storeMessage() hands out an id that no mark and no bubble bears.
LEMMA StoreFacts ==
    ASSUME TInv, NEW d \in {"in", "out"}, NEW b \in Businesses, Store(d, b)
    PROVE  /\ next \in Ids /\ next' = next + 1 /\ live' = live \cup {next}
           /\ next \notin live /\ next \notin delivered /\ next \notin read /\ bubbles[next] = "none"
           /\ dir' \in [Ids -> {"none", "out", "in"}]
           /\ bizOf' \in [Ids -> Businesses \cup {Nobody}]
           /\ dir'[next] = d /\ \A m \in Ids \ {next} : dir'[m] = dir[m]
           /\ next' \in 1 .. MaxMsgs + 1
           /\ \A m \in Ids : m < next => m < next'
           /\ next < next'
<1>1. next \in Ids /\ next' = next + 1 /\ live' = live \cup {next} /\ ~(next < next)
  BY BoundAssumption DEF TInv, Facts, Store, Ids
<1>2. next \notin live /\ next \notin delivered /\ next \notin read /\ bubbles[next] = "none"
  BY <1>1 DEF TInv, Facts
<1>3. /\ next' \in 1 .. MaxMsgs + 1 /\ next < next'
      /\ \A m \in Ids : m < next => m < next'
  BY <1>1, BoundAssumption DEF Ids
<1> QED
  BY <1>1, <1>2, <1>3 DEF TInv, Facts, Store

LEMMA StepKeepsTab == TInv /\ [Next]_vars => TInv'
<1> SUFFICES ASSUME TInv, [Next]_vars PROVE TInv'
  OBVIOUS
<1>0. Facts /\ BubblesCurrent
  BY DEF TInv
<1>1. ASSUME NEW b \in Businesses, Accept(b) PROVE TInv'
  <2>1. /\ Store("out", b) /\ awaiting' = awaiting \cup {next}
        /\ UNCHANGED <<delivered, read, session, bubbles, stale>>
    BY <1>1 DEF Accept, marks, tab
  <2>2. Facts'
    BY <1>0, <2>1, StoreFacts DEF Facts
  <2>3. BubblesCurrent'
    BY <1>0, <2>1, StoreFacts DEF BubblesCurrent, StatusOf
  <2> QED
    BY <2>2, <2>3 DEF TInv
<1>2. ASSUME NEW b \in Businesses, Inbound(b) PROVE TInv'
  <2>1. /\ Store("in", b) /\ Shows(With(bubbles, {next}))
        /\ UNCHANGED <<delivered, read, awaiting, session, stale>>
    BY <1>2 DEF Inbound, marks
  <2>2. /\ bubbles' \in [Ids -> Statuses \cup {"none"}]
        /\ \A m \in Ids \ {next} : bubbles'[m] = bubbles[m]
        /\ session = "open" => bubbles'[next] = "sent"
    BY <1>0, <2>1, StoreFacts DEF Shows, With, Facts, Statuses
  <2>3. Facts'
    BY <1>0, <2>1, <2>2, StoreFacts DEF Facts
  <2>4. BubblesCurrent'
    BY <1>0, <2>1, <2>2, StoreFacts DEF BubblesCurrent, StatusOf, Facts
  <2> QED
    BY <2>3, <2>4 DEF TInv
<1>3. ASSUME NEW b \in Businesses, ChatRead(b) PROVE TInv'
  <2>1. /\ UnreadDelivered(b) \in SUBSET live
        /\ \A m \in UnreadDelivered(b) : dir[m] = "out" => m \in delivered
    BY DEF UnreadDelivered
  <2> QED
    BY <1>3, <2>1, ReadCurrent DEF ChatRead
<1>4. ASSUME NEW m \in Ids, MarkInboundRead(m) PROVE TInv'
  <2>1. m \in live /\ dir[m] = "in"
    BY <1>4 DEF MarkInboundRead
  <2> QED
    BY <1>4, <2>1, ReadCurrent DEF MarkInboundRead
<1>5. ASSUME NEW m \in Ids, Finish(m) PROVE TInv'
  <2>1. /\ m \in awaiting /\ awaiting' \subseteq awaiting
        /\ UNCHANGED <<messages, read>>
    BY <1>5 DEF Finish
  <2>2. CASE UNCHANGED <<delivered, tab>>
    BY <2>1, <2>2, SameTab DEF tab, marks
  <2>3. CASE m \in Queued /\ Deliver(With(bubbles, {m}), {m}) /\ UNCHANGED session
    <3> DEFINE shown == With(bubbles, {m})
    <3>1. PICK told \in Announceable({m}) :
             Shows(Ticked(shown, told, "delivered")) /\ stale' = stale \cup ({m} \ told)
      BY <2>3 DEF Deliver
    <3>2. /\ shown \in [Ids -> Statuses \cup {"none"}]
          /\ \A x \in Ids \ {m} : shown[x] = bubbles[x]
          /\ \A x \in Ids : shown[x] # "none" => x < next
      BY <1>0, <2>1 DEF With, Facts, Statuses
    <3>3. delivered' = delivered \cup {m} /\ {m} \in SUBSET Queued
      BY <2>3 DEF Deliver
    <3> HIDE DEF shown
    <3>4. session' = "open" => \A x \in live \ {m} : x \in stale' \/ shown[x] \in {"none", StatusOf(x)}
      BY <1>0, <2>3, <3>1, <3>2 DEF BubblesCurrent, Facts
    <3>5. /\ session' = "open" => bubbles' = Ticked(shown, told, "delivered")
          /\ session' # "open" => bubbles' = bubbles
      BY <2>3, <3>1 DEF Shows
    <3> QED
      BY <1>0, <2>1, <3>1, <3>2, <3>3, <3>4, <3>5, DeliverCurrent
  <2>4. CASE Shows(With(bubbles, {m})) /\ stale' = stale \cup {m} /\ UNCHANGED <<delivered, session>>
    <3>1. UNCHANGED <<dir, bizOf, next, live>>
      BY <2>1 DEF messages
    <3>2. /\ bubbles' \in [Ids -> Statuses \cup {"none"}]
          /\ \A x \in Ids \ {m} : bubbles'[x] = bubbles[x]
      BY <1>0, <2>4 DEF Shows, With, Facts, Statuses
    <3>3. Facts'
      BY <1>0, <2>1, <2>4, <3>1, <3>2 DEF Facts
    <3>4. BubblesCurrent'
      BY <1>0, <2>1, <2>4, <3>1, <3>2 DEF BubblesCurrent, StatusOf, Facts
    <3> QED
      BY <3>3, <3>4 DEF TInv
  <2> QED
    BY <1>5, <2>2, <2>3, <2>4 DEF Finish
<1>6. ASSUME NEW m \in Ids, FinishThrows(m) PROVE TInv'
  <2>1. /\ Restart /\ m \in live /\ delivered' = delivered \cup {m}
        /\ UNCHANGED <<messages, read>>
    BY <1>6 DEF FinishThrows, Queued
  <2> QED
    BY <1>0, <2>1, NoTabInv DEF Restart, NoTab, Facts
<1>7. ASSUME NEW m \in Ids, AnswerAborted(m) PROVE TInv'
  BY <1>7, SameTab DEF AnswerAborted, tab
<1>8. ASSUME NEW on \in BOOLEAN, Presence(on) PROVE TInv'
  <2>1. UNCHANGED <<messages, read, awaiting, session>>
    BY <1>8 DEF Presence
  <2>2. CASE UNCHANGED <<delivered, bubbles, stale>>
    BY <2>1, <2>2, SameTab DEF marks
  <2>3. CASE Flush
    <3> DEFINE shown == With(bubbles, Queued)
    <3>1. PICK told \in Announceable(Queued) :
             Shows(Ticked(shown, told, "delivered")) /\ stale' = stale \cup (Queued \ told)
      BY <2>3 DEF Flush, Deliver
    <3>2. /\ shown \in [Ids -> Statuses \cup {"none"}]
          /\ \A x \in Ids \ Queued : shown[x] = bubbles[x]
          /\ \A x \in Ids : shown[x] # "none" => x < next
      BY <1>0 DEF With, Facts, Statuses, Queued
    <3>3. delivered' = delivered \cup Queued
      BY <2>3 DEF Flush, Deliver
    <3> HIDE DEF shown
    <3>4. session' = "open" => \A x \in live \ Queued : x \in stale' \/ shown[x] \in {"none", StatusOf(x)}
      BY <1>0, <2>1, <3>1, <3>2 DEF BubblesCurrent, Facts
    <3>5. /\ session' = "open" => bubbles' = Ticked(shown, told, "delivered")
          /\ session' # "open" => bubbles' = bubbles
      BY <2>1, <3>1 DEF Shows
    <3> QED
      BY <1>0, <2>1, <3>1, <3>2, <3>3, <3>4, <3>5, DeliverCurrent
  <2> QED
    BY <1>8, <2>2, <2>3 DEF Presence
<1>9. ASSUME NEW on \in BOOLEAN, SetAutoReply(on) PROVE TInv'
  BY <1>9, SameTab DEF SetAutoReply
<1>10. ASSUME Claim PROVE TInv'
  <2>1. PICK slice \in Slices :
          LET shown  == [m \in Ids |-> IF m \in slice \cup Queued THEN StatusOf(m) ELSE "none"]
              queue  == IF online THEN Queued ELSE {}
          IN  /\ delivered' = delivered \cup queue
              /\ \E told \in Announceable(queue) :
                    /\ bubbles' = Ticked(shown, told, "delivered")
                    /\ stale' = queue \ told
    BY <1>10 DEF Claim
  <2> DEFINE shown == [m \in Ids |-> IF m \in slice \cup Queued THEN StatusOf(m) ELSE "none"]
             queue == IF online THEN Queued ELSE {}
  <2>2. PICK told \in Announceable(queue) :
           bubbles' = Ticked(shown, told, "delivered") /\ stale' = queue \ told
    BY <2>1
  <2>3. delivered' = delivered \cup queue /\ queue \in SUBSET Queued
    BY <2>1
  <2>4. slice \subseteq live /\ Queued \subseteq live
    BY DEF Slices, Past, Queued
  <2>5. /\ shown \in [Ids -> Statuses \cup {"none"}]
        /\ \A m \in Ids : shown[m] # "none" => m < next
        /\ \A m \in Ids : shown[m] \in {"none", StatusOf(m)}
    BY <1>0, <2>4 DEF StatusOf, Statuses, Facts
  <2>6. UNCHANGED <<messages, read, awaiting>>
    BY <1>10 DEF Claim
  <2> HIDE DEF shown, queue
  <2>7. \A m \in live \ queue : shown[m] \in {"none", StatusOf(m)}
    BY <1>0, <2>5 DEF Facts
  <2>8. \A m \in queue : m \notin told => m \in stale'
    BY <2>2
  <2> QED
    BY <1>0, <2>2, <2>3, <2>5, <2>6, <2>7, <2>8, DeliverCurrent
<1>11. ASSUME SocketEnds PROVE TInv'
  BY <1>11, SameTab DEF SocketEnds
<1>12. ASSUME SessionEnds PROVE TInv'
  BY <1>0, <1>12, NoTabInv DEF SessionEnds, NoTab, marks, Facts
<1>13. ASSUME Crash PROVE TInv'
  BY <1>0, <1>13, NoTabInv DEF Crash, Restart, NoTab, marks, Facts
<1>14. ASSUME NEW keep \in BOOLEAN, Reset(keep) PROVE TInv'
  <2>1. /\ live' = {} /\ delivered' = {} /\ read' = {}
        /\ UNCHANGED <<dir, bizOf, next, awaiting>>
    BY <1>14 DEF Reset
  <2>2. bubbles' = Blank \/ bubbles' = bubbles
    BY <1>14 DEF Reset, Shows, NoTab
  <2>3. Facts'
    BY <1>0, <2>1, <2>2 DEF Facts, Blank
  <2>4. BubblesCurrent'
    BY <2>1 DEF BubblesCurrent
  <2> QED
    BY <2>3, <2>4 DEF TInv
<1>15. ASSUME NEW b \in Businesses, RegisterBusiness(b) \/ DeleteBusiness(b) PROVE TInv'
  BY <1>15, SameTab DEF RegisterBusiness, DeleteBusiness, tab
<1>16. ASSUME CreateGroup \/ DeleteGroup PROVE TInv'
  BY <1>16, SameTab DEF CreateGroup, DeleteGroup, tab
<1>17. CASE UNCHANGED vars
  BY <1>17, SameTab DEF vars, tab
<1> QED
  BY <1>1, <1>2, <1>3, <1>4, <1>5, <1>6, <1>7, <1>8, <1>9, <1>10, <1>11, <1>12, <1>13, <1>14, <1>15,
     <1>16, <1>17 DEF Next

LEMMA InitTab == Init => TInv
<1> SUFFICES ASSUME Init PROVE TInv
  OBVIOUS
<1>1. 1 \in 1 .. MaxMsgs + 1
  BY BoundAssumption
<1>2. Facts
  BY <1>1 DEF Init, Facts, Blank
<1>3. BubblesCurrent
  BY DEF Init, BubblesCurrent
<1> QED
  BY <1>2, <1>3 DEF TInv

\* Every bubble of an open tab shows the status its message has in the database,
\* save those whose business went away under them and those that were pushed
\* after a claim or a flush had delivered them.
THEOREM BubblesCurrentHolds == Spec => []BubblesCurrent
<1>1. TInv => BubblesCurrent
  BY DEF TInv
<1> QED
  BY <1>1, InitTab, StepKeepsTab, PTL DEF Spec

-----------------------------------------------------------------------------
(* The newest of a finite set, and what stays of them when it grows.        *)

\* R orders T, with ties.
OrderedBy(R, T) ==
    \A i, j, k \in T :
        /\ <<i, i>> \notin R
        /\ <<i, j>> \in R /\ <<j, k>> \in R => <<i, k>> \in R
        /\ <<i, j>> \in R => <<i, k>> \in R \/ <<k, j>> \in R

\* U is T cut at its HistoryLimit newest.
IsCut(R, T, U) ==
    /\ U \subseteq T
    /\ IF Cardinality(T) <= HistoryLimit THEN U = T ELSE Cardinality(U) = HistoryLimit
    /\ \A i \in T \ U, j \in U : <<i, j>> \notin R

\* A family of subsets of a finite set has a minimal member.
LEMMA MinimalSet ==
    ASSUME NEW T, IsFiniteSet(T), NEW C \in SUBSET (SUBSET T), C # {}
    PROVE  \E X \in C : \A Y \in C : Y \subseteq X => Y = X
<1>1. IsWellFoundedOn(StrictSubsetOrdering(T), SUBSET T)
  BY FS_StrictSubsetOrderingWellFounded, FS_FiniteSubsetsOfFinite
<1>2. PICK X \in C : \A Y \in C : <<Y, X>> \notin StrictSubsetOrdering(T)
  BY <1>1, WFMin
<1> QED
  BY <1>2 DEF StrictSubsetOrdering

\* A set that is finite and not empty has a member that none is after.
LEMMA NewestExists ==
    ASSUME NEW T, IsFiniteSet(T), T # {}, NEW R, OrderedBy(R, T)
    PROVE  \E x \in T : \A y \in T : <<y, x>> \notin R
<1> DEFINE Above(x) == {y \in T : <<y, x>> \in R}
           C == {Above(x) : x \in T}
<1>1. C \in SUBSET (SUBSET T) /\ C # {}
  OBVIOUS
<1>2. PICK X \in C : \A Y \in C : Y \subseteq X => Y = X
  <2> HIDE DEF C
  <2> QED
    BY <1>1, MinimalSet
<1>3. PICK x \in T : X = Above(x)
  BY <1>2
<1>4. ASSUME NEW y \in T, <<y, x>> \in R PROVE FALSE
  <2>1. Above(y) \subseteq Above(x)
    BY <1>4 DEF OrderedBy
  <2>2. y \in Above(x) /\ y \notin Above(y)
    BY <1>4 DEF OrderedBy
  <2> QED
    BY <1>2, <1>3, <2>1, <2>2
<1> QED
  BY <1>4

\* The least that can be left when at most HistoryLimit of the newest are taken
\* is left by a cut.
LEMMA CutExists ==
    ASSUME NEW T, IsFiniteSet(T), NEW R, OrderedBy(R, T)
    PROVE  \E U : IsCut(R, T, U)
<1> DEFINE Good(X) == /\ Cardinality(T \ X) <= HistoryLimit
                      /\ \A i \in X, j \in T \ X : <<i, j>> \notin R
           C == {X \in SUBSET T : Good(X)}
<1>1. T \in C
  <2>1. T \ T = {}
    OBVIOUS
  <2> QED
    BY <2>1, FS_EmptySet, LimitAssumption
<1>2. PICK X \in C : \A Y \in C : Y \subseteq X => Y = X
  <2>1. C \in SUBSET (SUBSET T) /\ C # {}
    BY <1>1
  <2> HIDE DEF C
  <2> QED
    BY <2>1, MinimalSet
<1> DEFINE U == T \ X
<1>3. /\ X \in SUBSET T /\ T \ U = X /\ U \in SUBSET T
      /\ IsFiniteSet(X) /\ IsFiniteSet(U)
      /\ Cardinality(U) \in Nat /\ Cardinality(T) \in Nat
      /\ Cardinality(U) <= Cardinality(T)
      /\ Cardinality(U) = Cardinality(T) => U = T
  BY FS_Subset, FS_CardinalityType
<1>4. Cardinality(U) <= HistoryLimit /\ \A i \in X, j \in U : <<i, j>> \notin R
  BY <1>2
<1>5. ASSUME X # {} PROVE Cardinality(U) = HistoryLimit
  <2>1. OrderedBy(R, X)
    BY <1>3 DEF OrderedBy
  <2>2. PICK x \in X : \A y \in X : <<y, x>> \notin R
    BY <1>3, <1>5, <2>1, NewestExists
  <2> DEFINE Y == X \ {x}
  <2>3. T \ Y = U \cup {x} /\ x \notin U /\ Y \in SUBSET T /\ Y \subseteq X /\ Y # X
    BY <1>3, <2>2
  <2>4. \A i \in Y, j \in T \ Y : <<i, j>> \notin R
    BY <1>4, <2>2, <2>3
  <2>5. Cardinality(T \ Y) = Cardinality(U) + 1
    BY <1>3, <2>3, FS_AddElement
  <2>6. ~(Cardinality(U) + 1 <= HistoryLimit)
    BY <1>2, <2>3, <2>4, <2>5
  <2> QED
    BY <1>3, <1>4, <2>6, LimitAssumption
<1> HIDE DEF U
<1>6. CASE X = {}
  BY <1>3, <1>4, <1>6 DEF IsCut
<1>7. CASE X # {}
  <2>1. Cardinality(U) = HistoryLimit /\ U # T
    BY <1>3, <1>5, <1>7
  <2> QED
    BY <1>3, <1>4, <2>1, LimitAssumption DEF IsCut
<1> QED
  BY <1>6, <1>7

\* When a set grows, what is new to its cut is new to the set.
LEMMA CutGrows ==
    ASSUME NEW P, NEW S, IsFiniteSet(P), IsFiniteSet(S), NEW R, OrderedBy(R, P \cup S),
           NEW U, IsCut(R, P, U)
    PROVE  \E V \in SUBSET (U \cup S) : IsCut(R, P \cup S, V)
<1>1. U \subseteq P /\ IsFiniteSet(U) /\ IsFiniteSet(U \cup S) /\ IsFiniteSet(P \cup S)
  BY FS_Subset, FS_Union DEF IsCut
<1>2. OrderedBy(R, U \cup S)
  BY <1>1 DEF OrderedBy
<1>3. PICK V : IsCut(R, U \cup S, V)
  BY <1>1, <1>2, CutExists
<1>4. V \subseteq U \cup S /\ IsFiniteSet(V)
  BY <1>1, <1>3, FS_Subset DEF IsCut
<1>5. CASE Cardinality(P) <= HistoryLimit
  BY <1>3, <1>4, <1>5 DEF IsCut
<1>6. CASE ~(Cardinality(P) <= HistoryLimit)
  <2>1. Cardinality(U) = HistoryLimit
    BY <1>6 DEF IsCut
  <2>2. Cardinality(V) = HistoryLimit
    <3>1. CASE Cardinality(U \cup S) <= HistoryLimit
      <4>1. /\ U \in SUBSET (U \cup S) /\ Cardinality(U) <= Cardinality(U \cup S)
            /\ Cardinality(U \cup S) \in Nat
            /\ Cardinality(U \cup S) = Cardinality(U) => U \cup S = U
        BY <1>1, FS_Subset, FS_CardinalityType
      <4>2. Cardinality(U \cup S) = Cardinality(U)
        BY <2>1, <3>1, <4>1, LimitAssumption
      <4> QED
        BY <1>3, <2>1, <3>1, <4>2 DEF IsCut
    <3>2. CASE ~(Cardinality(U \cup S) <= HistoryLimit)
      BY <1>3, <3>2 DEF IsCut
    <3> QED
      BY <3>1, <3>2
  <2>3. ~(Cardinality(P \cup S) <= HistoryLimit)
    <3>1. P \in SUBSET (P \cup S)
      OBVIOUS
    <3>2. /\ Cardinality(P) <= Cardinality(P \cup S)
          /\ Cardinality(P) \in Nat /\ Cardinality(P \cup S) \in Nat
      BY <1>1, <3>1, FS_Subset, FS_CardinalityType
    <3> QED
      BY <1>6, <3>2, LimitAssumption
  <2>4. ASSUME NEW i \in (P \cup S) \ V, NEW j \in V PROVE <<i, j>> \notin R
    <3>1. CASE i \in U \cup S
      BY <1>3, <3>1 DEF IsCut
    <3>2. CASE i \in P \ U /\ j \in U
      BY <3>2 DEF IsCut
    <3>3. CASE i \in P \ U /\ j \notin U
      <4>1. PICK s \in U : s \notin V
        <5>1. U \subseteq V => U = V
          BY <1>1, <1>4, <2>1, <2>2, FS_Subset
        <5> QED
          BY <3>3, <5>1
      <4>2. <<s, j>> \notin R
        BY <1>3, <4>1 DEF IsCut
      <4>3. <<i, s>> \notin R
        BY <3>3, <4>1 DEF IsCut
      <4> QED
        BY <1>1, <1>4, <3>3, <4>1, <4>2, <4>3 DEF OrderedBy
    <3> QED
      BY <3>1, <3>2, <3>3
  <2> QED
    BY <1>1, <1>4, <2>2, <2>3, <2>4 DEF IsCut
<1> QED
  BY <1>5, <1>6

-----------------------------------------------------------------------------
(* What a claim would show is in the tab already.                           *)

OrderBy(f, g) ==
    {p \in Ids \X Ids : f[p[1]] > f[p[2]] \/ (f[p[1]] = f[p[2]] /\ g[p[1]] > g[p[2]])}

LEMMA OrderByOrders ==
    ASSUME NEW f \in [Ids -> Nat], NEW g \in [Ids -> Nat], NEW T \in SUBSET Ids
    PROVE  OrderedBy(OrderBy(f, g), T)
<1> SUFFICES ASSUME NEW i \in Ids, NEW j \in Ids, NEW k \in Ids
             PROVE  /\ <<i, i>> \notin OrderBy(f, g)
                    /\ <<i, j>> \in OrderBy(f, g) /\ <<j, k>> \in OrderBy(f, g)
                          => <<i, k>> \in OrderBy(f, g)
                    /\ <<i, j>> \in OrderBy(f, g)
                          => <<i, k>> \in OrderBy(f, g) \/ <<k, j>> \in OrderBy(f, g)
  BY DEF OrderedBy
<1>1. \A x, y \in Ids : <<x, y>> \in OrderBy(f, g) <=> (f[x] > f[y] \/ (f[x] = f[y] /\ g[x] > g[y]))
  BY DEF OrderBy
<1>2. /\ f[i] \in Nat /\ f[j] \in Nat /\ f[k] \in Nat
      /\ g[i] \in Nat /\ g[j] \in Nat /\ g[k] \in Nat
  OBVIOUS
<1> QED
  BY <1>1, <1>2

LEMMA IdsFinite ==
    ASSUME NEW S \in SUBSET Ids
    PROVE  IsFiniteSet(S) /\ Cardinality(S) \in Nat
<1>1. IsFiniteSet(Ids)
  BY BoundAssumption, FS_Interval DEF Ids
<1> QED
  BY <1>1, FS_Subset, FS_CardinalityType

Seqs == [m \in Ids |-> Seq(m)]
Later == OrderBy(at, Seqs)

SeqsTyped == live \in SUBSET Ids => Seqs \in [Ids -> Nat]

LEMMA SeqsAreTyped == SeqsTyped
<1> SUFFICES ASSUME live \in SUBSET Ids, NEW m \in Ids PROVE Seq(m) \in Nat
  BY DEF SeqsTyped, Seqs
<1>1. {i \in live : bizOf[i] = bizOf[m] /\ i <= m} \in SUBSET Ids
  OBVIOUS
<1> QED
  BY <1>1, IdsFinite DEF Seq

\* A slice of the history is a cut, and the other way round.
LEMMA SliceIsCut ==
    ASSUME live \in SUBSET Ids, NEW T
    PROVE  T \in Slices <=> IsCut(Later, Past, T)
<1>1. \A i, j \in live : After(i, j) <=> <<i, j>> \in Later
  BY DEF After, Later, OrderBy, Seqs
<1>2. Past \subseteq live
  BY DEF Past
<1> QED
  BY <1>1, <1>2 DEF Slices, IsCut

\* The bubbles of a cut are there.
Shown(U) == \A m \in U : bubbles[m] # "none"

Kept ==
    /\ at \in [Ids -> Nat]
    /\ session # "none" => known
    /\ session = "open" =>
          /\ \E U : IsCut(Later, Past, U) /\ Shown(U)
          /\ tile = [online |-> online, auto |-> auto]

KInv == TInv /\ Kept

\* Nothing new in the history, and no bubble goes away.
LEMMA SameKept ==
    ASSUME Kept, UNCHANGED <<dir, at, bizOf, live, delivered>>,
           session' # "none" => known' /\ session # "none",
           session' = "open" => /\ session = "open"
                                /\ tile' = [online |-> online', auto |-> auto']
                                /\ \A m \in live : bubbles[m] # "none" => bubbles'[m] # "none"
    PROVE  Kept'
<1>1. Past' = Past /\ Later' = Later
  BY DEF Past, Queued, Later, Seqs, Seq
<1>2. ASSUME session' = "open" PROVE \E U : IsCut(Later', Past', U) /\ Shown(U)'
  <2>1. PICK U : IsCut(Later, Past, U) /\ Shown(U)
    BY <1>2 DEF Kept
  <2>2. U \subseteq live
    BY <2>1 DEF IsCut, Past
  <2> QED
    BY <1>1, <1>2, <2>1, <2>2 DEF Shown
<1> QED
  BY <1>2 DEF Kept

\* What joins the history is shown.
LEMMA GrownKept ==
    ASSUME live \in SUBSET Ids, live' \in SUBSET Ids, at' \in [Ids -> Nat],
           NEW U, IsCut(Later, Past, U), NEW S \in SUBSET Ids, Past' = Past \cup S,
           \A i, j \in Past : <<i, j>> \in Later <=> <<i, j>> \in Later',
           \A m \in U \cup S : bubbles'[m] # "none"
    PROVE  \E V : IsCut(Later', Past', V) /\ Shown(V)'
<1>1. SeqsTyped'
  BY SeqsAreTyped, PTL
<1>2. Past \in SUBSET Ids /\ IsFiniteSet(Past) /\ IsFiniteSet(S) /\ Past \cup S \in SUBSET Ids
  BY IdsFinite DEF Past
<1>3. OrderedBy(Later', Past \cup S)
  BY <1>1, <1>2, OrderByOrders DEF Later, SeqsTyped
<1>4. IsCut(Later', Past, U)
  BY DEF IsCut
<1>5. PICK V \in SUBSET (U \cup S) : IsCut(Later', Past \cup S, V)
  BY <1>2, <1>3, <1>4, CutGrows
<1> QED
  BY <1>5 DEF Shown

\* A row that is stored comes after the others and changes nothing among them.
LEMMA StoreKeepsOrder ==
    ASSUME TInv, Kept, NEW d \in {"in", "out"}, NEW b \in Businesses, Store(d, b)
    PROVE  /\ at' \in [Ids -> Nat]
           /\ \A i, j \in live : <<i, j>> \in Later <=> <<i, j>> \in Later'
<1>1. /\ next \in Ids /\ live \in SUBSET Ids /\ next \notin live /\ live' = live \cup {next}
      /\ \A m \in live : m < next
  BY StoreFacts DEF TInv, Facts
<1>2. PICK tick \in {0, 1} : at' = [at EXCEPT ![next] = IF next = 1 THEN 0 ELSE at[next - 1] + tick]
  BY DEF Store
<1>3. at \in [Ids -> Nat]
  BY DEF Kept
<1>4. next = 1 \/ next - 1 \in Ids
  BY <1>1, BoundAssumption DEF Ids
<1>5. at' \in [Ids -> Nat]
  BY <1>1, <1>2, <1>3, <1>4
<1>6. \A m \in live : at'[m] = at[m] /\ bizOf'[m] = bizOf[m]
  BY <1>1, <1>2, <1>3 DEF Store, TInv, Facts
<1>7. ASSUME NEW m \in live PROVE Seq(m)' = Seq(m)
  <2>1. m \in Ids /\ ~(next <= m)
    BY <1>1 DEF Ids
  <2>2. {i \in live' : bizOf'[i] = bizOf'[m] /\ i <= m} = {i \in live : bizOf[i] = bizOf[m] /\ i <= m}
    BY <1>1, <1>6, <2>1
  <2> QED
    BY <2>2 DEF Seq
<1>8. \A i, j \in live : <<i, j>> \in Later <=> <<i, j>> \in Later'
  BY <1>1, <1>6, <1>7 DEF Later, OrderBy, Seqs
<1> QED
  BY <1>5, <1>8

\* A delivery or a stored message of one's own is shown, and a queued one waits.
LEMMA StepKeepsKept == KInv /\ [Next]_vars => Kept'
<1> SUFFICES ASSUME TInv, Kept, [Next]_vars PROVE Kept'
  BY DEF KInv
<1>0. /\ live \in SUBSET Ids /\ at \in [Ids -> Nat]
      /\ Queued \subseteq live /\ Past \subseteq live /\ Past = live \ Queued
      /\ delivered \subseteq live
  BY DEF TInv, Facts, Kept, Queued, Past
<1>1. ASSUME session = "open"
      PROVE  \E U : IsCut(Later, Past, U) /\ Shown(U)
  BY <1>1 DEF Kept
\* A callback that marks or shows messages and stores none.
<1>2. ASSUME NEW S \in SUBSET Queued, UNCHANGED messages, delivered' = delivered \cup S
      PROVE  /\ Past' = Past \cup S /\ Later' = Later /\ live' = live /\ at' = at
  <2>1. UNCHANGED <<dir, at, bizOf, live>>
    BY <1>2 DEF messages
  <2>2. Later' = Later
    BY <2>1 DEF Later, Seqs, Seq
  <2> QED
    BY <1>0, <1>2, <2>1, <2>2 DEF Past, Queued
<1>3. ASSUME NEW b \in Businesses, Accept(b) PROVE Kept'
  <2>1. /\ Store("out", b)
        /\ UNCHANGED <<delivered, read, row, session, bubbles, tile>>
    BY <1>3 DEF Accept, marks, tab
  <2>2. /\ at' \in [Ids -> Nat]
        /\ \A i, j \in live : <<i, j>> \in Later <=> <<i, j>> \in Later'
    BY <2>1, StoreKeepsOrder
  <2>3. Past' = Past \cup {} /\ live' \in SUBSET Ids
    BY <1>0, <2>1, StoreFacts DEF Past, Queued
  <2>4. ASSUME session' = "open" PROVE \E V : IsCut(Later', Past', V) /\ Shown(V)'
    <3>1. PICK U : IsCut(Later, Past, U) /\ Shown(U)
      BY <1>1, <2>1, <2>4
    <3>2. {} \in SUBSET Ids /\ \A m \in U \cup {} : bubbles'[m] # "none"
      BY <2>1, <3>1 DEF Shown
    <3>3. \A i, j \in Past : <<i, j>> \in Later <=> <<i, j>> \in Later'
      BY <1>0, <2>2
    <3> QED
      BY <1>0, <2>2, <2>3, <3>1, <3>2, <3>3, GrownKept
  <2> QED
    BY <2>1, <2>2, <2>4 DEF Kept, row
<1>4. ASSUME NEW b \in Businesses, Inbound(b) PROVE Kept'
  <2>1. /\ Store("in", b) /\ Shows(With(bubbles, {next}))
        /\ UNCHANGED <<delivered, read, row, session, tile>>
    BY <1>4 DEF Inbound, marks
  <2>2. /\ at' \in [Ids -> Nat]
        /\ \A i, j \in live : <<i, j>> \in Later <=> <<i, j>> \in Later'
    BY <2>1, StoreKeepsOrder
  <2>3. next \in Ids /\ Past' = Past \cup {next} /\ live' \in SUBSET Ids
    BY <1>0, <2>1, StoreFacts DEF Past, Queued
  <2>4. ASSUME session' = "open" PROVE \E V : IsCut(Later', Past', V) /\ Shown(V)'
    <3>1. PICK U : IsCut(Later, Past, U) /\ Shown(U)
      BY <1>1, <2>1, <2>4
    <3>2. U \subseteq Ids
      BY <1>0, <3>1 DEF IsCut
    <3>3. \A m \in U \cup {next} : bubbles'[m] # "none"
      BY <2>1, <2>3, <2>4, <3>1, <3>2 DEF Shown, Shows, With
    <3> QED
      BY <1>0, <2>2, <2>3, <3>1, <3>3, GrownKept
  <2> QED
    BY <2>1, <2>2, <2>4 DEF Kept, row
<1>5. ASSUME NEW b \in Businesses, ChatRead(b) PROVE Kept'
  BY <1>0, <1>5, SameKept DEF ChatRead, messages, row, Kept, Ticks, Shows, Ticked
<1>6. ASSUME NEW m \in Ids, MarkInboundRead(m) PROVE Kept'
  BY <1>0, <1>6, SameKept DEF MarkInboundRead, messages, row, Kept, Ticks, Shows, Ticked
\* deliver() and queue.flush: the queue of S is shown, ticked and marked.
<1>7. ASSUME NEW S \in SUBSET Queued, Deliver(With(bubbles, S), S),
             UNCHANGED <<messages, session, known>>,
             session = "open" => tile' = [online |-> online', auto |-> auto']
      PROVE  Kept'
  <2>1. /\ delivered' = delivered \cup S
        /\ \E told : Shows(Ticked(With(bubbles, S), told, "delivered"))
    BY <1>7 DEF Deliver
  <2>2. Past' = Past \cup S /\ Later' = Later /\ live' = live /\ at' = at
    BY <1>2, <1>7, <2>1
  <2>3. ASSUME session' = "open" PROVE \E V : IsCut(Later', Past', V) /\ Shown(V)'
    <3>1. PICK U : IsCut(Later, Past, U) /\ Shown(U)
      BY <1>1, <1>7, <2>3
    <3>2. U \subseteq Ids /\ S \in SUBSET Ids
      BY <1>0, <3>1 DEF IsCut
    <3>3. \A m \in U \cup S : bubbles'[m] # "none"
      BY <1>7, <2>1, <2>3, <3>1, <3>2 DEF Shown, Shows, With, Ticked
    <3> QED
      BY <1>0, <2>2, <3>1, <3>2, <3>3, GrownKept
  <2> QED
    BY <1>0, <1>7, <2>2, <2>3 DEF Kept
<1>8. ASSUME NEW m \in Ids, Finish(m) PROVE Kept'
  <2>1. UNCHANGED <<messages, row>>
    BY <1>8 DEF Finish
  <2>2. CASE UNCHANGED <<delivered, tab>>
    BY <2>1, <2>2, SameKept DEF messages, row, tab, Kept
  <2>3. CASE m \in Queued /\ Deliver(With(bubbles, {m}), {m}) /\ UNCHANGED <<session, tile>>
    BY <1>7, <2>1, <2>3 DEF row, Kept
  <2>4. CASE Shows(With(bubbles, {m})) /\ UNCHANGED <<delivered, session, tile>>
    BY <1>0, <2>1, <2>4, SameKept DEF messages, row, Kept, Shows, With
  <2> QED
    BY <1>8, <2>2, <2>3, <2>4 DEF Finish
<1>9. ASSUME session' = "none", at' = at PROVE Kept'
  BY <1>9 DEF Kept
<1>10. ASSUME NEW m \in Ids, FinishThrows(m) PROVE Kept'
  BY <1>9, <1>10 DEF FinishThrows, Restart, NoTab, messages
<1>11. ASSUME NEW m \in Ids, AnswerAborted(m) PROVE Kept'
  BY <1>11, SameKept DEF AnswerAborted, messages, marks, row, tab, Kept
<1>12. ASSUME NEW on \in BOOLEAN, Presence(on) PROVE Kept'
  <2>1. /\ UNCHANGED <<messages, session, known>>
        /\ session = "open" => tile' = [online |-> online', auto |-> auto']
    BY <1>12 DEF Presence, Told, Kept
  <2>2. CASE UNCHANGED <<delivered, bubbles>>
    BY <2>1, <2>2, SameKept DEF messages, Kept
  <2>3. CASE Flush
    BY <1>7, <2>1, <2>3 DEF Flush
  <2> QED
    BY <1>12, <2>2, <2>3 DEF Presence
<1>13. ASSUME NEW on \in BOOLEAN, SetAutoReply(on) PROVE Kept'
  <2>1. /\ UNCHANGED <<messages, delivered, bubbles, session, known>>
        /\ session = "open" => tile' = [online |-> online', auto |-> auto']
    BY <1>13 DEF SetAutoReply, Told, Kept, marks
  <2> QED
    BY <2>1, SameKept DEF messages, Kept
<1>14. ASSUME Claim PROVE Kept'
  <2> DEFINE queue == IF online THEN Queued ELSE {}
             Row(slice) == [m \in Ids |-> IF m \in slice \cup Queued THEN StatusOf(m) ELSE "none"]
  <2>1. /\ known /\ session' = "open" /\ UNCHANGED <<messages, row>>
        /\ tile' = [online |-> online, auto |-> auto]
    BY <1>14 DEF Claim
  <2>2. PICK slice \in Slices :
           /\ delivered' = delivered \cup queue
           /\ \E told : bubbles' = Ticked(Row(slice), told, "delivered")
    BY <1>14 DEF Claim
  <2>3. IsCut(Later, Past, slice) /\ slice \subseteq Ids
    BY <1>0, <2>2, SliceIsCut DEF IsCut
  <2>4. queue \in SUBSET Queued /\ queue \in SUBSET Ids
    BY <1>0
  <2>5. Past' = Past \cup queue /\ Later' = Later /\ live' = live /\ at' = at
    BY <1>2, <2>1, <2>2, <2>4
  <2>6. \A m \in slice \cup queue : bubbles'[m] # "none"
    BY <2>2, <2>3, <2>4 DEF Ticked, StatusOf
  <2> HIDE DEF queue
  <2>7. \E V : IsCut(Later', Past', V) /\ Shown(V)'
    BY <1>0, <2>3, <2>4, <2>5, <2>6, GrownKept
  <2> QED
    BY <1>0, <2>1, <2>5, <2>7 DEF Kept, row
<1>15. ASSUME SocketEnds PROVE Kept'
  BY <1>15, SameKept DEF SocketEnds, messages, marks, row, Kept
<1>16. ASSUME SessionEnds \/ Crash PROVE Kept'
  BY <1>9, <1>16 DEF SessionEnds, Crash, NoTab, Restart, messages
<1>17. ASSUME NEW keep \in BOOLEAN, Reset(keep) PROVE Kept'
  <2>1. CASE session' = "none"
    BY <1>9, <1>17, <2>1 DEF Reset
  <2>2. CASE UNCHANGED <<row, session, tile>>
    <3>1. Past' = {} /\ at' = at
      BY <1>17 DEF Reset, Past
    <3>2. IsCut(Later', {}, {}) /\ Shown({})'
      BY FS_EmptySet, LimitAssumption DEF IsCut, Shown
    <3> QED
      BY <2>2, <3>1, <3>2 DEF Kept, row
  <2> QED
    BY <1>17, <2>1, <2>2 DEF Reset, NoTab
<1>18. ASSUME NEW b \in Businesses, RegisterBusiness(b) \/ DeleteBusiness(b) PROVE Kept'
  BY <1>18, SameKept DEF RegisterBusiness, DeleteBusiness, messages, marks, row, tab, Kept
<1>19. ASSUME CreateGroup \/ DeleteGroup PROVE Kept'
  BY <1>9, <1>19 DEF CreateGroup, DeleteGroup, messages, tab, Kept
<1>20. CASE UNCHANGED vars
  BY <1>20, SameKept DEF vars, messages, marks, row, tab, Kept
<1> QED
  BY <1>3, <1>4, <1>5, <1>6, <1>8, <1>10, <1>11, <1>12, <1>13, <1>14, <1>15, <1>16, <1>17, <1>18,
     <1>19, <1>20 DEF Next

\* A queued message that an open tab lacks is withheld.
QueueExplained ==
    session = "open" => \A m \in Queued : bubbles[m] = "none" => Withheld(m)

\* Nothing joins the queue, no bubble goes away, and what is withheld stays so.
LEMMA SameQueue ==
    ASSUME QueueExplained, session' = "open" => session = "open",
           session' = "open" =>
               \A m \in Queued' : bubbles'[m] = "none" =>
                   /\ m \in Queued /\ bubbles[m] = "none"
                   /\ Withheld(m) => ~online' \/ m \in awaiting' \/ m \in missed'
    PROVE  QueueExplained'
BY DEF QueueExplained, Withheld

LEMMA StepKeepsQueue == KInv /\ QueueExplained /\ [Next]_vars => QueueExplained'
<1> SUFFICES ASSUME TInv, Kept, QueueExplained, [Next]_vars PROVE QueueExplained'
  BY DEF KInv
<1>0. /\ Queued \subseteq Ids /\ live \in SUBSET Ids /\ bubbles \in [Ids -> Statuses \cup {"none"}]
      /\ session # "none" => known
  BY DEF TInv, Facts, Kept, Queued
<1>1. ASSUME NEW b \in Businesses, Accept(b) PROVE QueueExplained'
  <2>1. /\ Store("out", b) /\ awaiting' = awaiting \cup {next}
        /\ UNCHANGED <<delivered, online, session, bubbles, missed>>
    BY <1>1 DEF Accept, marks, row, tab
  <2>2. \A m \in Queued' : m = next \/ m \in Queued
    BY <2>1, StoreFacts DEF Queued, TInv, Facts
  <2> QED
    BY <2>1, <2>2 DEF QueueExplained, Withheld
<1>2. ASSUME NEW b \in Businesses, Inbound(b) PROVE QueueExplained'
  <2>1. /\ Store("in", b) /\ Shows(With(bubbles, {next}))
        /\ UNCHANGED <<delivered, online, awaiting, session, missed>>
    BY <1>2 DEF Inbound, marks, row
  <2>2. Queued' \subseteq Queued
    BY <2>1, StoreFacts DEF Queued, TInv, Facts
  <2>3. \A m \in Ids : bubbles'[m] = "none" => bubbles[m] = "none"
    BY <1>0, <2>1 DEF Shows, With
  <2> QED
    BY <1>0, <2>1, <2>2, <2>3, SameQueue DEF Withheld
<1>3. ASSUME NEW b \in Businesses, ChatRead(b) PROVE QueueExplained'
  BY <1>0, <1>3, SameQueue DEF ChatRead, messages, row, Ticks, Shows, Ticked, Queued, Withheld
<1>4. ASSUME NEW m \in Ids, MarkInboundRead(m) PROVE QueueExplained'
  BY <1>0, <1>4, SameQueue DEF MarkInboundRead, messages, row, Ticks, Shows, Ticked, Queued, Withheld
\* What is delivered leaves the queue, whatever the tab shows of it.
<1>5. ASSUME NEW S \in SUBSET Queued, Deliver(With(bubbles, S), S), UNCHANGED <<messages, session>>
      PROVE  /\ Queued' = Queued \ S
             /\ \A m \in Ids : bubbles'[m] = "none" => bubbles[m] = "none"
  <2>1. /\ delivered' = delivered \cup S
        /\ \E told : Shows(Ticked(With(bubbles, S), told, "delivered"))
    BY <1>5 DEF Deliver
  <2>2. Queued' = Queued \ S
    BY <1>5, <2>1 DEF messages, Queued
  <2>3. \A m \in Ids : bubbles'[m] = "none" => bubbles[m] = "none"
    BY <1>0, <2>1 DEF Shows, Ticked, With
  <2> QED
    BY <2>2, <2>3
<1>6. ASSUME NEW m \in Ids, Finish(m) PROVE QueueExplained'
  <2>1. /\ UNCHANGED <<messages, row>> /\ awaiting' = awaiting \ {m} /\ m \in awaiting
    BY <1>6 DEF Finish
  <2>2. CASE ~Reachable /\ UNCHANGED <<delivered, tab>>
    <3>1. UNCHANGED <<Queued, online, session, bubbles, missed>>
      BY <2>1, <2>2 DEF messages, row, tab, Queued
    <3>2. session = "open" => ~online
      BY <1>0, <2>2 DEF Reachable
    <3> QED
      BY <3>1, <3>2, SameQueue DEF Withheld
  <2>3. CASE m \in Queued /\ Deliver(With(bubbles, {m}), {m}) /\ UNCHANGED <<session, missed>>
    <3>1. /\ Queued' = Queued \ {m}
          /\ \A x \in Ids : bubbles'[x] = "none" => bubbles[x] = "none"
      BY <1>5, <2>1, <2>3
    <3> QED
      BY <1>0, <2>1, <2>3, <3>1, SameQueue DEF row, Withheld
  <2>4. CASE m \notin Queued /\ Shows(With(bubbles, {m})) /\ UNCHANGED <<delivered, session, missed>>
    <3>1. Queued' = Queued
      BY <2>1, <2>4 DEF messages, Queued
    <3>2. \A x \in Ids : bubbles'[x] = "none" => bubbles[x] = "none"
      BY <1>0, <2>4 DEF Shows, With
    <3> QED
      BY <1>0, <2>1, <2>4, <3>1, <3>2, SameQueue DEF row, Withheld
  <2> QED
    BY <1>6, <2>2, <2>3, <2>4 DEF Finish
<1>7. ASSUME session' = "none" PROVE QueueExplained'
  BY <1>7 DEF QueueExplained
<1>8. ASSUME NEW m \in Ids, FinishThrows(m) PROVE QueueExplained'
  BY <1>7, <1>8 DEF FinishThrows, Restart, NoTab
<1>9. ASSUME NEW m \in Ids, AnswerAborted(m) PROVE QueueExplained'
  BY <1>9, SameQueue DEF AnswerAborted, messages, marks, row, Queued, Withheld
<1>10. ASSUME NEW on \in BOOLEAN, Presence(on) PROVE QueueExplained'
  <2>1. UNCHANGED <<messages, awaiting, session, missed>> /\ online' = on
    BY <1>10 DEF Presence
  <2>2. CASE UNCHANGED <<delivered, bubbles>> /\ ~(on /\ session # "none")
    <3>1. Queued' = Queued
      BY <2>1, <2>2 DEF messages, Queued
    <3>2. session = "open" => ~online'
      BY <2>1, <2>2
    <3> QED
      BY <2>1, <2>2, <3>1, <3>2, SameQueue
  <2>3. CASE Flush
    <3>1. Queued' = Queued \ Queued
      BY <1>5, <2>1, <2>3 DEF Flush
    <3> QED
      BY <3>1 DEF QueueExplained
  <2> QED
    BY <1>10, <2>2, <2>3 DEF Presence
<1>11. ASSUME NEW on \in BOOLEAN, SetAutoReply(on) PROVE QueueExplained'
  BY <1>11, SameQueue DEF SetAutoReply, messages, marks, Queued, Withheld
<1>12. ASSUME Claim PROVE QueueExplained'
  <2> DEFINE queue == IF online THEN Queued ELSE {}
             Row(slice) == [m \in Ids |-> IF m \in slice \cup Queued THEN StatusOf(m) ELSE "none"]
  <2>1. UNCHANGED messages
    BY <1>12 DEF Claim
  <2>2. PICK slice \in Slices :
           /\ delivered' = delivered \cup queue
           /\ \E told : bubbles' = Ticked(Row(slice), told, "delivered")
    BY <1>12 DEF Claim
  <2>3. Queued' \subseteq Queued
    BY <2>1, <2>2 DEF messages, Queued
  <2>4. \A m \in Queued : bubbles'[m] # "none"
    BY <1>0, <2>2 DEF Ticked, StatusOf
  <2> QED
    BY <2>3, <2>4 DEF QueueExplained
<1>13. ASSUME SocketEnds \/ SessionEnds \/ Crash PROVE QueueExplained'
  BY <1>13 DEF SocketEnds, SessionEnds, Crash, NoTab, Restart, QueueExplained
<1>14. ASSUME NEW keep \in BOOLEAN, Reset(keep) PROVE QueueExplained'
  BY <1>14 DEF Reset, Queued, QueueExplained
<1>15. ASSUME NEW b \in Businesses, RegisterBusiness(b) \/ DeleteBusiness(b) PROVE QueueExplained'
  BY <1>15, SameQueue DEF RegisterBusiness, DeleteBusiness, messages, marks, row, tab, Queued, Withheld
<1>16. ASSUME CreateGroup \/ DeleteGroup PROVE QueueExplained'
  BY <1>0, <1>7, <1>16 DEF CreateGroup, DeleteGroup, tab, QueueExplained
<1>17. CASE UNCHANGED vars
  BY <1>17, SameQueue DEF vars, messages, marks, row, tab, Queued, Withheld
<1> QED
  BY <1>1, <1>2, <1>3, <1>4, <1>6, <1>8, <1>9, <1>10, <1>11, <1>12, <1>13, <1>14, <1>15, <1>16, <1>17
     DEF Next

\* Whoever claims the group again sees nothing that the tab has not, but for the
\* queued messages that are withheld from it: an open tab has the newest of the
\* history, however they got there, and the rest of the queue, all with the
\* status of the moment but for the bubbles that the server left behind.
THEOREM ReclaimAddsOnlyWithheldHolds == Spec => []ReclaimAddsOnlyWithheld
<1>1. Init => KInv /\ QueueExplained
  BY InitTab DEF KInv, Kept, Init, QueueExplained
<1>2. KInv /\ QueueExplained /\ [Next]_vars => (KInv /\ QueueExplained)'
  BY StepKeepsTab, StepKeepsKept, StepKeepsQueue DEF KInv
<1>3. KInv /\ QueueExplained => ReclaimAddsOnlyWithheld
  <2> SUFFICES ASSUME KInv, QueueExplained, session = "open"
               PROVE  /\ \E slice \in Slices : \A m \in slice \cup Queued :
                            \/ bubbles[m] = StatusOf(m)
                            \/ bubbles[m] # "none" /\ m \in stale
                            \/ bubbles[m] = "none" /\ Withheld(m)
                      /\ tile = [online |-> online, auto |-> auto]
    BY DEF ReclaimAddsOnlyWithheld
  <2>1. live \in SUBSET Ids
    BY DEF KInv, TInv, Facts
  <2>2. PICK slice \in Slices : \A m \in slice : bubbles[m] # "none"
    BY <2>1, SliceIsCut DEF KInv, Kept, Shown
  <2>3. slice \subseteq live /\ Queued \subseteq live
    BY DEF Slices, Past, Queued
  <2>4. ASSUME NEW m \in slice \cup Queued
        PROVE  \/ bubbles[m] = StatusOf(m)
               \/ bubbles[m] # "none" /\ m \in stale
               \/ bubbles[m] = "none" /\ Withheld(m)
    BY <2>2, <2>3, <2>4 DEF KInv, TInv, BubblesCurrent, QueueExplained
  <2>5. tile = [online |-> online, auto |-> auto]
    BY DEF KInv, Kept
  <2> QED
    BY <2>2, <2>4, <2>5
<1> QED
  BY <1>1, <1>2, <1>3, PTL DEF Spec

===============================================================================
