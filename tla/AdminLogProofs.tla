---------------------------- MODULE AdminLogProofs ----------------------------
(***************************************************************************)
(* What holds of the admin log for any number of sockets, business numbers, *)
(* groups and rows, and any limits.  The inductive invariant LInv adds to   *)
(* the properties of AdminLog what the feed's memories stand for: a socket  *)
(* that is not in the feed has an empty table and no answer to come, a row  *)
(* that is not announced was introduced to nobody, only messages of the     *)
(* store have webhooks, and what an answer on its way shows is not older    *)
(* than the table it will be laid over.                                     *)
(***************************************************************************)
EXTENDS AdminLog, FiniteSetTheorems, TLAPS

Placed ==
    /\ \A r \in live : r < next
    /\ \A a \in Admins : from[a] <= next
    /\ announced \subseteq live
    /\ \A r \in Rows, k \in Kinds :
           jobs[r][k] # "none" => r \in live /\ dir[r] # "rejected"

Blank == \A a \in Admins, r \in Rows :
    /\ a \notin admins => view[a][r] = Unknown /\ answer[a][r] = Unknown
    /\ (a \notin admins \/ r \notin live) => entries[a][r] = 0

NewIsUnannounced == \A a \in admins, r \in live :
    (r \notin announced /\ dir[r] # "rejected") => entries[a][r] = 0

\* An answer on its way holds messages of the store, shown as the database has
\* them: a frame for one of them has taken it out.
AnswersCurrent == \A a \in Admins, r \in Rows :
    answer[a][r] # Unknown => r \in Messages /\ (r \in missed \/ Shows(answer[a][r], r))

LInv == /\ TypeOK /\ Placed /\ Blank /\ ViewsCurrent /\ AnswersCurrent
        /\ IntroducedOnce /\ NewIsUnannounced

-----------------------------------------------------------------------------
LEMMA TypeInit == Init => TypeOK
BY LimitsAssumption, BoundAssumption DEF Init, TypeOK, Rows, Kinds, JobStates, Nothing, Tables

LEMMA EntryTyped ==
    ASSUME TypeOK, NEW r \in Rows
    PROVE  EntryOf(r) \in Entries
BY DEF TypeOK, EntryOf, StatusOf, Entries, Statuses

\* The tables of the sockets keep their type when they are sent typed entries.
LEMMA BroadcastTyped ==
    ASSUME TypeOK, NEW S \in SUBSET Rows, NEW fresh \in SUBSET Rows, Broadcast(S, fresh),
           \A r \in Rows : EntryOf(r)' \in Entries
    PROVE  /\ view' \in [Admins -> Tables] /\ answer' \in [Admins -> Tables]
           /\ entries' \in [Admins -> [Rows -> Nat]]
<1>1. Sent(S) /\ Counted(fresh)
  BY DEF Broadcast
<1>2. view' \in [Admins -> Tables] /\ answer' \in [Admins -> Tables]
  BY <1>1 DEF TypeOK, Sent, Tables
<1>3. entries' \in [Admins -> [Rows -> Nat]]
  BY <1>1 DEF TypeOK, Counted
<1> QED BY <1>2, <1>3

\* The tables of the database and the names joined to them.
TableOK ==
    /\ dir \in [Rows -> {"none", "outbound", "inbound", "rejected"}]
    /\ at \in [Rows -> Nat]
    /\ biz \in [Rows -> Businesses \cup {Nobody}]
    /\ next \in 1 .. MaxRows + 1
    /\ live \in SUBSET Rows /\ delivered \in SUBSET Rows /\ read \in SUBSET Rows
    /\ jobs \in [Rows -> [Kinds -> JobStates]]
    /\ registered \in SUBSET Businesses
    /\ group \in Groups \cup {NoGroup}

LEMMA EntryTypedNext ==
    ASSUME TableOK', NEW r \in Rows
    PROVE  EntryOf(r)' \in Entries
BY DEF TableOK, EntryOf, StatusOf, Entries, Statuses

LEMMA StoreTyped ==
    ASSUME TypeOK, NEW d \in {"outbound", "inbound", "rejected"},
           NEW b \in Businesses \cup {Nobody}, Store(d, b)
    PROVE  /\ next \in Rows
           /\ dir' \in [Rows -> {"none", "outbound", "inbound", "rejected"}]
           /\ at' \in [Rows -> Nat]
           /\ biz' \in [Rows -> Businesses \cup {Nobody}]
           /\ next' \in 1 .. MaxRows + 1
           /\ live' \in SUBSET Rows
<1>1. next \in Rows /\ next \in Int /\ MaxRows \in Int
  BY BoundAssumption DEF TypeOK, Store, Rows
<1>2. next' \in 1 .. MaxRows + 1
  BY <1>1, BoundAssumption DEF Store, Rows
<1>3. dir' \in [Rows -> {"none", "outbound", "inbound", "rejected"}]
  BY <1>1 DEF TypeOK, Store
<1>4. biz' \in [Rows -> Businesses \cup {Nobody}] /\ live' \in SUBSET Rows
  BY <1>1 DEF TypeOK, Store
<1>5. at' \in [Rows -> Nat]
  <2>1. PICK tick \in {0, 1} :
            at' = [at EXCEPT ![next] = IF next = 1 THEN 0 ELSE at[next - 1] + tick]
    BY DEF Store
  <2>2. (IF next = 1 THEN 0 ELSE at[next - 1] + tick) \in Nat
    <3>1. next # 1 => next - 1 \in Rows
      BY <1>1 DEF Rows
    <3>2. next # 1 => at[next - 1] \in Nat
      BY <3>1 DEF TypeOK
    <3> QED BY <3>2
  <2> QED BY <2>1, <2>2 DEF TypeOK
<1> QED BY <1>1, <1>2, <1>3, <1>4, <1>5

LEMMA QueueTyped ==
    ASSUME TypeOK, NEW S \in SUBSET Rows, NEW k \in Kinds, Queue(S, k)
    PROVE  jobs' \in [Rows -> [Kinds -> JobStates]]
BY DEF TypeOK, Queue, JobStates

\* What logChanged() does to the feed, typed.
LEMMA LogChangedTyped ==
    ASSUME TypeOK, TableOK', NEW S \in SUBSET Rows, LogChanged(S)
    PROVE  TypeOK'
<1>1. \A r \in Rows : EntryOf(r)' \in Entries
  BY EntryTypedNext
<1>2. Introduces(S) \in SUBSET Rows
  BY DEF Introduces
<1>3. /\ view' \in [Admins -> Tables] /\ answer' \in [Admins -> Tables]
      /\ entries' \in [Admins -> [Rows -> Nat]]
  BY <1>1, <1>2, BroadcastTyped DEF LogChanged
<1>4. /\ announced' \in SUBSET Rows /\ missed' \in SUBSET Rows /\ renamed' \in SUBSET Rows
      /\ UNCHANGED <<admins, from>>
  BY DEF LogChanged, Announce, TypeOK
<1> QED BY <1>3, <1>4 DEF TypeOK, TableOK

-----------------------------------------------------------------------------
\* What an entry of row r is made of did not change.
Same(r) == EntryOf(r)' = EntryOf(r) /\ StatusOf(r)' = StatusOf(r) /\ jobs'[r] = jobs[r]

\* A frame for every row that has changed, or that is marked as missed, keeps the
\* tables and the answers on their way current.
LEMMA BroadcastCurrent ==
    ASSUME LInv, NEW S \in SUBSET Rows, Sent(S),
           UNCHANGED <<admins, from>>,
           live' \in SUBSET Rows, Messages \subseteq Messages', Messages' \subseteq Messages \cup S,
           admins # {} => missed \ S \subseteq missed' /\ renamed \ S \subseteq renamed',
           admins # {} => \A r \in Rows \ (S \cup missed') : Same(r)
    PROVE  ViewsCurrent' /\ AnswersCurrent'
<1>1. \A a \in Admins, r \in Rows :
         IF a \in admins /\ r \in S \cap Messages'
           THEN view'[a][r] = EntryOf(r)' /\ answer'[a][r] = Unknown
           ELSE view'[a][r] = view[a][r] /\ answer'[a][r] = answer[a][r]
  BY DEF Sent
<1>2. /\ admins' = admins /\ from' = from /\ admins \subseteq Admins
      /\ Messages' \subseteq Rows
  BY DEF LInv, TypeOK, Messages
<1>3. CASE admins = {}
  <2>1. \A a \in Admins, r \in Rows : view'[a][r] = Unknown /\ answer'[a][r] = Unknown
    BY <1>1, <1>3 DEF LInv, Blank
  <2> QED BY <1>2, <1>3, <2>1 DEF ViewsCurrent, AnswersCurrent
<1>4. CASE admins # {}
  <2>1. ASSUME NEW a \in admins, NEW r \in Messages' \ missed',
               r >= from[a] \/ view'[a][r] # Unknown
        PROVE  Shows(view[a][r], r)'
    <3>1. CASE r \in S
      BY <1>1, <1>2, <3>1 DEF Shows
    <3>2. CASE r \notin S
      <4>1. r \in Messages \ missed /\ view'[a][r] = view[a][r] /\ Same(r)
            /\ (r \in renamed => r \in renamed')
        BY <1>1, <1>2, <1>4, <3>2
      <4>2. Shows(view[a][r], r)
        BY <1>2, <2>1, <4>1 DEF LInv, ViewsCurrent
      <4> QED BY <4>1, <4>2 DEF Shows, Same
    <3> QED BY <3>1, <3>2
  <2>2. ASSUME NEW a \in Admins, NEW r \in Rows, view'[a][r] # Unknown
        PROVE  r \in Messages'
    BY <1>1, <2>2 DEF LInv, ViewsCurrent
  <2>3. ASSUME NEW a \in Admins, NEW r \in Rows, answer'[a][r] # Unknown
        PROVE  r \in Messages' /\ (r \in missed' \/ Shows(answer[a][r], r)')
    <3>1. ~(a \in admins /\ r \in S \cap Messages') /\ answer'[a][r] = answer[a][r]
      BY <1>1, <2>3
    <3>2. r \in Messages /\ (r \in missed \/ Shows(answer[a][r], r))
      BY <2>3, <3>1 DEF LInv, AnswersCurrent
    <3>3. a \in admins
      BY <2>3, <3>1 DEF LInv, Blank
    <3>4. r \in Messages' /\ r \notin S
      BY <3>1, <3>2, <3>3
    <3>5. CASE r \in missed'
      BY <3>4, <3>5
    <3>6. CASE r \notin missed'
      <4>1. r \notin missed /\ Same(r) /\ (r \in renamed => r \in renamed')
        BY <1>4, <3>4, <3>6
      <4> QED BY <3>1, <3>2, <3>4, <4>1 DEF Shows, Same
    <3> QED BY <3>5, <3>6
  <2> QED BY <1>2, <2>1, <2>2, <2>3 DEF ViewsCurrent, AnswersCurrent
<1> QED BY <1>3, <1>4

\* Rows that nobody was introduced to yet are introduced once.
LEMMA BroadcastIntroduces ==
    ASSUME LInv, NEW S \in SUBSET Rows, NEW fresh \in SUBSET S, Broadcast(S, fresh),
           UNCHANGED <<admins, from>>,
           live' \in SUBSET Rows, live \subseteq live', live' \subseteq live \cup fresh, S \subseteq live',
           \A r \in fresh \cap live : r \notin announced /\ dir[r] # "rejected"
    PROVE  /\ IntroducedOnce'
           /\ Blank'
           /\ \A a \in admins, r \in live' \ fresh : entries'[a][r] = entries[a][r]
<1>1. \A a \in Admins, r \in Rows :
         /\ a \notin admins => view'[a][r] = view[a][r] /\ answer'[a][r] = answer[a][r]
         /\ entries'[a][r] =
              IF a \in admins /\ r \in fresh THEN entries[a][r] + 1 ELSE entries[a][r]
  BY DEF Broadcast, Sent, Counted
<1>2. admins' = admins /\ from' = from /\ admins \subseteq Admins
  BY DEF LInv, TypeOK
<1>3. ASSUME NEW a \in admins, NEW r \in fresh
      PROVE  entries'[a][r] = 1
  <2>1. entries[a][r] = 0
    <3>1. CASE r \in live
      BY <3>1 DEF LInv, NewIsUnannounced
    <3>2. CASE r \notin live
      BY <1>2, <3>2 DEF LInv, Blank
    <3> QED BY <3>1, <3>2
  <2> QED BY <1>1, <1>2, <2>1
<1>4. IntroducedOnce'
  <2> SUFFICES ASSUME NEW a \in admins, NEW r \in live'
               PROVE  entries'[a][r] <= 1 /\ (r >= from[a] => entries'[a][r] = 1)
    BY <1>2 DEF IntroducedOnce
  <2>1. CASE r \in fresh
    BY <1>3, <2>1
  <2>2. CASE r \notin fresh
    BY <1>1, <1>2, <2>2 DEF LInv, IntroducedOnce
  <2> QED BY <2>1, <2>2
<1>5. Blank'
  BY <1>1, <1>2 DEF LInv, Blank
<1> QED BY <1>1, <1>2, <1>4, <1>5

\* logChanged() of stored messages keeps tables and introductions right.
LEMMA LogChangedKeeps ==
    ASSUME LInv, TypeOK', NEW S \in SUBSET Rows, LogChanged(S),
           live \subseteq live', live' \subseteq live \cup (S \ announced), S \subseteq live',
           \A r \in live : dir'[r] = dir[r],
           \A r \in S : dir'[r] # "rejected",
           \A r \in Rows \ (S \cup missed') : Same(r)
    PROVE  /\ Blank' /\ ViewsCurrent' /\ AnswersCurrent' /\ IntroducedOnce' /\ NewIsUnannounced'
           /\ announced' \subseteq live'
<1>1. Broadcast(S, S \ announced) /\ UNCHANGED <<admins, from>> /\ missed' = missed \ S
      /\ renamed' = renamed \ S /\ announced' = Announce(S)
  BY DEF LogChanged, Introduces
<1>2. live' \in SUBSET Rows
  BY DEF TypeOK
<1>3. ViewsCurrent' /\ AnswersCurrent'
  <2>1. Messages \subseteq Messages' /\ Messages' \subseteq Messages \cup S
    BY DEF Messages
  <2>2. Sent(S)
    BY <1>1 DEF Broadcast
  <2>3. missed \ S \subseteq missed' /\ renamed \ S \subseteq renamed'
    BY <1>1
  <2> QED BY <1>1, <1>2, <2>1, <2>2, <2>3, BroadcastCurrent
<1>4. /\ IntroducedOnce' /\ Blank'
      /\ \A a \in admins, r \in live' \ (S \ announced) : entries'[a][r] = entries[a][r]
  <2> DEFINE fresh == S \ announced
  <2>1. \A r \in fresh \cap live : r \notin announced /\ dir[r] # "rejected"
    OBVIOUS
  <2>2. fresh \in SUBSET S /\ live' \subseteq live \cup fresh /\ Broadcast(S, fresh)
    BY <1>1
  <2>3. UNCHANGED <<admins, from>>
    BY <1>1
  <2> HIDE DEF fresh
  <2>4. /\ IntroducedOnce' /\ Blank'
        /\ \A a \in admins, r \in live' \ fresh : entries'[a][r] = entries[a][r]
    BY <1>2, <2>1, <2>2, <2>3, BroadcastIntroduces
  <2> QED BY <2>4 DEF fresh
<1>5. NewIsUnannounced'
  <2> SUFFICES ASSUME NEW a \in admins, NEW r \in live', r \notin announced', dir'[r] # "rejected"
               PROVE  entries'[a][r] = 0
    BY <1>1 DEF NewIsUnannounced
  <2>1. r \notin S /\ r \notin announced
    BY <1>1 DEF Announce
  <2>2. r \in live /\ dir[r] # "rejected" /\ entries'[a][r] = entries[a][r]
    BY <1>4, <2>1
  <2> QED BY <2>1, <2>2 DEF LInv, NewIsUnannounced
<1>6. announced' \subseteq live'
  BY <1>1 DEF Announce, LInv, Placed
<1> QED BY <1>3, <1>4, <1>5, <1>6

-----------------------------------------------------------------------------
LEMMA InitLInv == Init => LInv
<1>1. Init => TypeOK
  BY TypeInit
<1> QED BY <1>1 DEF Init, LInv, Placed, Blank, ViewsCurrent, AnswersCurrent, IntroducedOnce,
               NewIsUnannounced, Nothing, Messages

\* The next row is new to the store and to the feed.
LEMMA NextIsNew ==
    ASSUME LInv
    PROVE  /\ next \notin live /\ next \notin announced
           /\ next \in Rows => \A k \in Kinds : jobs[next][k] = "none"
BY DEF LInv, TypeOK, Placed

\* What storing a row does, beyond the types of the table.
LEMMA StoreFacts ==
    ASSUME LInv, NEW d \in {"outbound", "inbound", "rejected"},
           NEW b \in Businesses \cup {Nobody}, Store(d, b)
    PROVE  /\ live' = live \cup {next} /\ next' = next + 1 /\ next \in Rows
           /\ dir'[next] = d
           /\ \A r \in Rows \ {next} : dir'[r] = dir[r]
           /\ \A r \in live' : r < next'
           /\ \A a \in Admins : from[a] <= next'
<1>1. next \in Rows
  BY StoreTyped DEF LInv
<1>2. next \in Int /\ \A r \in Rows : r \in Int
  BY <1>1 DEF Rows
<1>3. \A a \in Admins : from[a] \in Int
  BY DEF LInv, TypeOK
<1>4. live' = live \cup {next} /\ next' = next + 1
  BY DEF Store
<1>5. live \subseteq Rows /\ dir \in [Rows -> {"none", "outbound", "inbound", "rejected"}]
  BY DEF LInv, TypeOK
<1> QED BY <1>1, <1>2, <1>3, <1>4, <1>5 DEF Store, LInv, Placed

LEMMA NewMessageStep ==
    ASSUME LInv, NEW d \in {"outbound", "inbound"}, NEW b \in Businesses, NewMessage(d, b)
    PROVE  LInv'
<1> DEFINE k == IF d = "outbound" THEN "sent" ELSE "inbound"
<1>1. Store(d, b) /\ Queue({next}, k) /\ LogChanged({next})
      /\ UNCHANGED <<delivered, read, names>>
  BY DEF NewMessage
<1>2. k \in Kinds
  BY DEF Kinds
<1>3. /\ live' = live \cup {next} /\ next' = next + 1 /\ next \in Rows
      /\ dir'[next] = d
      /\ \A r \in Rows \ {next} : dir'[r] = dir[r]
      /\ \A r \in live' : r < next'
      /\ \A a \in Admins : from[a] <= next'
  BY <1>1, StoreFacts
<1>4. TypeOK'
  <2>1. jobs' \in [Rows -> [Kinds -> JobStates]]
    BY <1>1, <1>2, <1>3, QueueTyped DEF LInv
  <2>2. TableOK'
    BY <1>1, <2>1, StoreTyped DEF LInv, TypeOK, TableOK, names
  <2> QED BY <1>1, <1>3, <2>2, LogChangedTyped DEF LInv
<1>5. \A r \in Rows \ {next} : jobs'[r] = jobs[r]
  BY <1>1 DEF Queue
<1>6. next \notin live /\ next \notin announced
  BY NextIsNew
<1>7. /\ Blank' /\ ViewsCurrent' /\ AnswersCurrent' /\ IntroducedOnce' /\ NewIsUnannounced'
      /\ announced' \subseteq live'
  <2>1. live \subseteq live' /\ live' \subseteq live \cup ({next} \ announced)
        /\ {next} \subseteq live' /\ \A r \in live : dir'[r] = dir[r]
    BY <1>3, <1>6 DEF LInv, TypeOK
  <2>2. dir'[next] # "rejected"
    BY <1>3
  <2>3. \A r \in Rows \ ({next} \cup missed') : Same(r)
    BY <1>1, <1>3, <1>5 DEF Same, EntryOf, StatusOf, Store, names, LInv, TypeOK
  <2> QED BY <1>1, <1>3, <1>4, <2>1, <2>2, <2>3, LogChangedKeeps
<1>8. Placed'
  <2>1. \A r \in Rows, q \in Kinds : jobs'[r][q] # "none" => r \in live' /\ dir'[r] # "rejected"
    BY <1>3, <1>5 DEF LInv, Placed
  <2>2. from' = from
    BY <1>1 DEF LogChanged
  <2> QED BY <1>3, <1>7, <2>1, <2>2 DEF Placed
<1> QED BY <1>4, <1>7, <1>8 DEF LInv

LEMMA RejectedStep ==
    ASSUME LInv, Rejected
    PROVE  LInv'
<1>1. Store("rejected", Nobody) /\ Broadcast({next}, {next})
      /\ UNCHANGED <<delivered, read, jobs, names, admins, announced, from, gaps>>
  BY DEF Rejected
<1>3. /\ live' = live \cup {next} /\ next' = next + 1 /\ next \in Rows
      /\ dir'[next] = "rejected"
      /\ \A r \in Rows \ {next} : dir'[r] = dir[r]
      /\ \A r \in live' : r < next'
      /\ \A a \in Admins : from[a] <= next'
  BY <1>1, StoreFacts
<1>4. TypeOK'
  <2>1. TableOK'
    BY <1>1, StoreTyped DEF LInv, TypeOK, TableOK, names
  <2>2. /\ view' \in [Admins -> Tables] /\ answer' \in [Admins -> Tables]
        /\ entries' \in [Admins -> [Rows -> Nat]]
    BY <1>1, <1>3, <2>1, EntryTypedNext, BroadcastTyped DEF LInv
  <2> QED BY <1>1, <2>1, <2>2 DEF LInv, TypeOK, TableOK, gaps
<1>5. next \notin live /\ next \notin announced
      /\ \A k \in Kinds : jobs[next][k] = "none"
  BY <1>3, NextIsNew
<1>6. live' \in SUBSET Rows
  BY <1>4 DEF TypeOK
<1>7. ViewsCurrent' /\ AnswersCurrent'
  <2>1. \A r \in Rows \ {next} : Same(r)
    BY <1>1, <1>3 DEF Same, EntryOf, StatusOf, Store, names, LInv, TypeOK
  <2>2. Messages \subseteq Messages' /\ Messages' \subseteq Messages \cup {next}
    BY <1>3, <1>5 DEF Messages, LInv, TypeOK
  <2>3. Sent({next}) /\ missed' = missed /\ renamed' = renamed
    BY <1>1 DEF Broadcast, gaps
  <2> QED BY <1>1, <1>3, <1>6, <2>1, <2>2, <2>3, BroadcastCurrent
<1>8. /\ IntroducedOnce' /\ Blank'
      /\ \A a \in admins, r \in live' \ {next} : entries'[a][r] = entries[a][r]
  <2> DEFINE S == {next}
  <2>1. \A r \in S \cap live : r \notin announced /\ dir[r] # "rejected"
    BY <1>5
  <2>2. /\ S \in SUBSET Rows /\ S \in SUBSET S /\ Broadcast(S, S) /\ S \subseteq live'
        /\ live \subseteq live' /\ live' \subseteq live \cup S
    BY <1>1, <1>3
  <2>3. UNCHANGED <<admins, from>>
    BY <1>1
  <2> HIDE DEF S
  <2>4. /\ IntroducedOnce' /\ Blank'
        /\ \A a \in admins, r \in live' \ S : entries'[a][r] = entries[a][r]
    BY <1>6, <2>1, <2>2, <2>3, BroadcastIntroduces
  <2> QED BY <2>4 DEF S
<1>9. NewIsUnannounced'
  <2> SUFFICES ASSUME NEW a \in admins, NEW r \in live', r \notin announced, dir'[r] # "rejected"
               PROVE  entries'[a][r] = 0
    BY <1>1 DEF NewIsUnannounced
  <2>1. r \in live \ {next} /\ r \in Rows
    BY <1>3 DEF LInv, TypeOK
  <2>2. dir[r] # "rejected" /\ entries'[a][r] = entries[a][r]
    BY <1>3, <1>8, <2>1
  <2> QED BY <2>1, <2>2 DEF LInv, NewIsUnannounced
<1>10. Placed'
  BY <1>1, <1>3, <1>5 DEF LInv, Placed
<1> QED BY <1>4, <1>7, <1>8, <1>9, <1>10 DEF LInv

\* A step that changes marks and webhooks of messages of the store, and nothing
\* else of the table.
LEMMA MarksKeepTable ==
    ASSUME LInv, UNCHANGED <<dir, at, biz, next, live, from>>,
           announced' \subseteq live',
           \A r \in Rows, k \in Kinds :
               jobs'[r][k] # jobs[r][k] => r \in live /\ dir[r] # "rejected"
    PROVE  Placed'
BY DEF LInv, Placed

LEMMA MarkedStep ==
    ASSUME LInv, UNCHANGED <<dir, at, biz, next, live, names>>,
           delivered' \in SUBSET Rows, read' \in SUBSET Rows,
           jobs' \in [Rows -> [Kinds -> JobStates]],
           NEW S \in SUBSET live, LogChanged(S), \A r \in S : dir[r] # "rejected",
           \A r \in Rows \ S : jobs'[r] = jobs[r] /\ (r \in delivered' <=> r \in delivered)
                               /\ (r \in read' <=> r \in read)
    PROVE  LInv'
<1>1. S \in SUBSET Rows /\ live \in SUBSET Rows
  BY DEF LInv, TypeOK
<1>2. TypeOK'
  <2>1. TableOK'
    BY DEF LInv, TypeOK, TableOK, names
  <2> QED BY <1>1, <2>1, LogChangedTyped DEF LInv
<1>3. /\ Blank' /\ ViewsCurrent' /\ AnswersCurrent' /\ IntroducedOnce' /\ NewIsUnannounced'
      /\ announced' \subseteq live'
  <2>1. \A r \in Rows \ (S \cup missed') : Same(r)
    BY DEF Same, EntryOf, StatusOf, names
  <2>2. \A r \in S : dir'[r] # "rejected"
    OBVIOUS
  <2>3. live' \subseteq live \cup (S \ announced) /\ S \subseteq live' /\ live \subseteq live'
    OBVIOUS
  <2> QED BY <1>1, <1>2, <2>1, <2>2, <2>3, LogChangedKeeps
<1>4. Placed'
  BY <1>3, MarksKeepTable DEF LogChanged
<1> QED BY <1>2, <1>3, <1>4 DEF LInv

LEMMA DeliverStep ==
    ASSUME LInv, NEW S \in SUBSET Rows, Deliver(S)
    PROVE  LInv'
<1>1. S \subseteq live /\ \A r \in S : dir[r] = "outbound"
  BY DEF Deliver, Queued
<1>2. PICK told \in Announceable(S) :
          /\ Queue(told, "delivered")
          /\ Broadcast(told, Introduces(told))
          /\ announced' = Announce(told)
          /\ missed' = IF admins = {} THEN {} ELSE (missed \ told) \cup (S \ told)
          /\ renamed' = renamed \ told
  BY DEF Deliver
<1>3. told \subseteq S
  BY DEF Announceable
<1>4. UNCHANGED <<dir, at, biz, next, live, read, names, admins, from>>
      /\ delivered' = delivered \cup S
  BY DEF Deliver
<1>5. live \in SUBSET Rows /\ told \in SUBSET Rows /\ Introduces(told) \in SUBSET told
  BY <1>1, <1>3 DEF LInv, TypeOK, Introduces
<1>6. \A r \in Rows \ told : jobs'[r] = jobs[r]
  BY <1>2 DEF Queue
<1>7. TypeOK'
  <2>1. jobs' \in [Rows -> [Kinds -> JobStates]]
    BY <1>2, <1>5, QueueTyped DEF Kinds, LInv
  <2>2. TableOK'
    BY <1>4, <2>1 DEF LInv, TypeOK, TableOK, names
  <2>3. /\ view' \in [Admins -> Tables] /\ answer' \in [Admins -> Tables]
        /\ entries' \in [Admins -> [Rows -> Nat]]
    BY <1>2, <1>5, <2>2, EntryTypedNext, BroadcastTyped DEF LInv
  <2>4. announced' \in SUBSET Rows /\ missed' \in SUBSET Rows /\ renamed' \in SUBSET Rows
    BY <1>2, <1>5 DEF LInv, TypeOK, Announce
  <2> QED BY <1>4, <2>2, <2>3, <2>4 DEF LInv, TypeOK, TableOK
<1>8. ViewsCurrent' /\ AnswersCurrent'
  <2>1. admins # {} => \A r \in Rows \ (told \cup missed') : Same(r)
    BY <1>2, <1>4, <1>6 DEF Same, EntryOf, StatusOf, names
  <2>2. Messages' = Messages
    BY <1>4 DEF Messages
  <2>3. Sent(told) /\ UNCHANGED <<admins, from>> /\ live' \in SUBSET Rows
    BY <1>2, <1>4, <1>5 DEF Broadcast
  <2>4. admins # {} => missed \ told \subseteq missed' /\ renamed \ told \subseteq renamed'
    BY <1>2
  <2> QED BY <1>5, <2>1, <2>2, <2>3, <2>4, BroadcastCurrent
<1>9. /\ IntroducedOnce' /\ Blank'
      /\ \A a \in admins, r \in live' \ Introduces(told) : entries'[a][r] = entries[a][r]
  <2>1. \A r \in Introduces(told) \cap live : r \notin announced /\ dir[r] # "rejected"
    BY <1>1, <1>3 DEF Introduces
  <2> QED BY <1>1, <1>2, <1>3, <1>4, <1>5, <2>1, BroadcastIntroduces
<1>10. NewIsUnannounced'
  <2> SUFFICES ASSUME NEW a \in admins, NEW r \in live, r \notin announced', dir[r] # "rejected"
               PROVE  entries'[a][r] = 0
    BY <1>4 DEF NewIsUnannounced
  <2>1. r \notin told /\ r \notin announced
    BY <1>2 DEF Announce
  <2>2. entries'[a][r] = entries[a][r]
    BY <1>4, <1>9, <2>1 DEF Introduces
  <2> QED BY <2>1, <2>2 DEF LInv, NewIsUnannounced
<1>11. Placed'
  <2>1. announced' \subseteq live'
    BY <1>1, <1>2, <1>3, <1>4 DEF Announce, LInv, Placed
  <2>2. \A r \in Rows, k \in Kinds : jobs'[r][k] # jobs[r][k] => r \in live /\ dir[r] # "rejected"
    BY <1>1, <1>3, <1>6
  <2> QED BY <1>4, <2>1, <2>2, MarksKeepTable
<1> QED BY <1>7, <1>8, <1>9, <1>10, <1>11 DEF LInv

LEMMA ReadStep ==
    ASSUME LInv, NEW b \in Businesses, NEW S \in SUBSET Rows, Read(b, S)
    PROVE  LInv'
<1>1. S \in SUBSET live /\ \A r \in S : dir[r] # "rejected"
  BY DEF Read
<1>2. jobs' \in [Rows -> [Kinds -> JobStates]]
  BY QueueTyped DEF Read, Kinds, LInv
<1>3. \A r \in Rows \ S : jobs'[r] = jobs[r]
  BY DEF Read, Queue
<1>4. delivered' \in SUBSET Rows /\ read' \in SUBSET Rows
  BY DEF Read, LInv, TypeOK
<1> QED BY <1>1, <1>2, <1>3, <1>4, MarkedStep DEF Read

LEMMA MarkInboundReadStep ==
    ASSUME LInv, NEW r \in Rows, MarkInboundRead(r)
    PROVE  LInv'
<1>1. {r} \in SUBSET live /\ \A x \in {r} : dir[x] # "rejected"
  BY DEF MarkInboundRead
<1>2. delivered' \in SUBSET Rows /\ read' \in SUBSET Rows /\ jobs' \in [Rows -> [Kinds -> JobStates]]
  BY DEF MarkInboundRead, LInv, TypeOK
<1> QED BY <1>1, <1>2, MarkedStep DEF MarkInboundRead

LEMMA AttemptStep ==
    ASSUME LInv, NEW r \in Rows, NEW k \in Kinds, NEW state \in {"tried", "finished"},
           Attempt(r, k, state)
    PROVE  LInv'
<1>1. {r} \in SUBSET live /\ \A x \in {r} : dir[x] # "rejected"
  BY DEF Attempt, Due, LInv, Placed
<1>2. jobs' \in [Rows -> [Kinds -> JobStates]] /\ \A x \in Rows \ {r} : jobs'[x] = jobs[x]
  BY DEF Attempt, LInv, TypeOK, JobStates
<1>3. delivered' \in SUBSET Rows /\ read' \in SUBSET Rows
  BY DEF Attempt, LInv, TypeOK
<1> QED BY <1>1, <1>2, <1>3, MarkedStep DEF Attempt

-----------------------------------------------------------------------------
LEMMA SubscribeStep ==
    ASSUME LInv, NEW a \in Admins, Subscribe(a)
    PROVE  LInv'
<1>1. /\ admins' = admins \cup {a}
      /\ from' = [from EXCEPT ![a] = next]
      /\ UNCHANGED <<table, names, announced, view, entries, answer, gaps>>
  BY DEF Subscribe
<1>2. TypeOK'
  BY <1>1 DEF LInv, TypeOK, table, names, gaps
<1>3. Messages' = Messages /\ \A r \in Rows : Same(r) /\ (r \in renamed' <=> r \in renamed)
  BY <1>1 DEF Messages, Same, EntryOf, StatusOf, table, names, gaps
<1>4. \A x \in admins \ {a} : from'[x] = from[x]
  BY <1>1 DEF LInv, TypeOK
<1>5. from'[a] = next /\ \A r \in live : ~(r >= next)
  BY <1>1 DEF LInv, TypeOK, Placed, Rows
<1>6. a \notin admins /\ \A r \in Rows : view[a][r] = Unknown /\ entries[a][r] = 0
  BY DEF Subscribe, LInv, Blank
<1>7. live \subseteq Rows /\ Messages \subseteq live
  BY DEF LInv, TypeOK, Messages
<1>8. Placed'
  BY <1>1, <1>4 DEF LInv, TypeOK, Placed, table
<1>9. Blank'
  BY <1>1 DEF LInv, Blank, table
<1>10. ViewsCurrent'
  <2>1. ASSUME NEW x \in admins', NEW r \in Messages \ missed,
               r >= from'[x] \/ view[x][r] # Unknown
        PROVE  Shows(view[x][r], r)'
    <3>1. x \in admins \ {a}
      BY <1>1, <1>5, <1>6, <1>7, <2>1
    <3>2. Shows(view[x][r], r) /\ view' = view
      BY <1>1, <1>4, <2>1, <3>1 DEF LInv, ViewsCurrent
    <3>3. Same(r) /\ (r \in renamed' <=> r \in renamed)
      BY <1>3, <1>7
    <3> QED BY <3>2, <3>3 DEF Shows, Same
  <2>2. missed' = missed /\ view' = view
    BY <1>1 DEF gaps
  <2> QED BY <1>3, <2>1, <2>2 DEF LInv, ViewsCurrent
<1>11. AnswersCurrent'
  BY <1>1, <1>3 DEF LInv, AnswersCurrent, Shows, Same, gaps
<1>12. IntroducedOnce' /\ NewIsUnannounced'
  BY <1>1, <1>4, <1>5, <1>6, <1>7 DEF LInv, IntroducedOnce, NewIsUnannounced, table
<1> QED BY <1>2, <1>8, <1>9, <1>10, <1>11, <1>12 DEF LInv

\* A step after which the tables of the sockets of S are empty, and the others
\* as they were.
LEMMA ForgetFacts ==
    ASSUME LInv, NEW S \in SUBSET Admins, Forget(S)
    PROVE  /\ view' \in [Admins -> Tables] /\ answer' \in [Admins -> Tables]
           /\ entries' \in [Admins -> [Rows -> Nat]]
           /\ from' \in [Admins -> 1 .. MaxRows + 1]
           /\ \A a \in S, r \in Rows :
                  view'[a][r] = Unknown /\ answer'[a][r] = Unknown /\ entries'[a][r] = 0
           /\ \A a \in S : from'[a] = 1
           /\ \A a \in Admins \ S : /\ view'[a] = view[a] /\ answer'[a] = answer[a]
                                    /\ entries'[a] = entries[a] /\ from'[a] = from[a]
<1>1. \A a \in S : view'[a] = Nothing /\ answer'[a] = Nothing /\ entries'[a] = [r \in Rows |-> 0]
  BY DEF Forget
<1>2. view' \in [Admins -> Tables] /\ answer' \in [Admins -> Tables]
  BY DEF LInv, TypeOK, Forget, Nothing, Tables
<1>3. entries' \in [Admins -> [Rows -> Nat]]
  BY DEF LInv, TypeOK, Forget
<1>4. from' \in [Admins -> 1 .. MaxRows + 1]
  BY BoundAssumption DEF LInv, TypeOK, Forget
<1>5. \A a \in Admins \ S : /\ view'[a] = view[a] /\ answer'[a] = answer[a]
                            /\ entries'[a] = entries[a] /\ from'[a] = from[a]
  BY DEF Forget
<1>6. \A a \in S : from'[a] = 1
  BY DEF Forget
<1> QED BY <1>1, <1>2, <1>3, <1>4, <1>5, <1>6 DEF Nothing

\* A socket that leaves takes what it has been sent with it.
LEMMA LeaveStep ==
    ASSUME LInv, NEW S \in SUBSET Admins, Forget(S), admins' = admins \ S,
           UNCHANGED <<table, names>>, announced' \subseteq announced,
           NewIsUnannounced',
           IF admins \ S = {} THEN missed' = {} /\ renamed' = {} ELSE UNCHANGED gaps
    PROVE  LInv'
<1>1. /\ view' \in [Admins -> Tables] /\ answer' \in [Admins -> Tables]
      /\ entries' \in [Admins -> [Rows -> Nat]]
      /\ from' \in [Admins -> 1 .. MaxRows + 1]
      /\ \A a \in S, r \in Rows :
             view'[a][r] = Unknown /\ answer'[a][r] = Unknown /\ entries'[a][r] = 0
      /\ \A a \in S : from'[a] = 1
      /\ \A a \in Admins \ S : /\ view'[a] = view[a] /\ answer'[a] = answer[a]
                               /\ entries'[a] = entries[a] /\ from'[a] = from[a]
  BY ForgetFacts
<1>2. TypeOK'
  BY <1>1 DEF LInv, TypeOK, table, names, gaps
<1>3. live' = live /\ live \subseteq Rows /\ admins \subseteq Admins /\ Messages' = Messages
      /\ Messages \subseteq Rows
  BY DEF LInv, TypeOK, table, Messages
<1>4. Placed'
  BY <1>1, <1>2, <1>3 DEF LInv, TypeOK, Placed, table
<1>5. Blank'
  BY <1>1, <1>3 DEF LInv, Blank
<1>6. \A r \in Rows : Same(r)
  BY DEF Same, EntryOf, StatusOf, table, names
<1>7. ViewsCurrent'
  <2>1. ASSUME NEW a \in admins', NEW r \in Messages' \ missed',
               r >= from'[a] \/ view'[a][r] # Unknown
        PROVE  Shows(view[a][r], r)'
    <3>1. /\ a \in admins /\ view'[a] = view[a] /\ from'[a] = from[a]
          /\ missed' = missed /\ renamed' = renamed
      BY <1>1, <1>3 DEF gaps
    <3>2. Shows(view[a][r], r) /\ Same(r)
      BY <1>3, <1>6, <2>1, <3>1 DEF LInv, ViewsCurrent
    <3> QED BY <3>1, <3>2 DEF Shows, Same
  <2>2. \A a \in Admins, r \in Rows : view'[a][r] # Unknown => r \in Messages'
    BY <1>1, <1>3 DEF LInv, ViewsCurrent
  <2> QED BY <2>1, <2>2 DEF ViewsCurrent
<1>8. AnswersCurrent'
  <2> SUFFICES ASSUME NEW a \in Admins, NEW r \in Rows, answer'[a][r] # Unknown
               PROVE  r \in Messages' /\ (r \in missed' \/ Shows(answer[a][r], r)')
    BY DEF AnswersCurrent
  <2>1. a \notin S /\ answer'[a] = answer[a]
    BY <1>1
  <2>2. a \in admins \ S
    BY <2>1 DEF LInv, Blank
  <2>3. missed' = missed /\ renamed' = renamed
    BY <2>2 DEF gaps
  <2>4. r \in Messages /\ (r \in missed \/ Shows(answer[a][r], r)) /\ Same(r)
    BY <1>6, <2>1 DEF LInv, AnswersCurrent
  <2> QED BY <1>3, <2>1, <2>3, <2>4 DEF Shows, Same
<1>9. IntroducedOnce'
  BY <1>1, <1>3 DEF LInv, IntroducedOnce
<1> QED BY <1>2, <1>4, <1>5, <1>7, <1>8, <1>9 DEF LInv

LEMMA UnsubscribeStep ==
    ASSUME LInv, NEW a \in Admins, Unsubscribe(a)
    PROVE  LInv'
<1>1. /\ admins' = admins \ {a} /\ Forget({a})
      /\ UNCHANGED <<table, names, announced>>
      /\ IF admins = {a} THEN missed' = {} /\ renamed' = {} ELSE UNCHANGED gaps
  BY DEF Unsubscribe
<1>2. \A x \in Admins \ {a} : entries'[x] = entries[x]
  BY <1>1, ForgetFacts
<1>3. NewIsUnannounced'
  BY <1>1, <1>2 DEF LInv, TypeOK, NewIsUnannounced, table
<1>4. admins = {a} <=> admins \ {a} = {}
  BY DEF Unsubscribe
<1> QED BY <1>1, <1>3, <1>4, LeaveStep

LEMMA CrashStep ==
    ASSUME LInv, Crash
    PROVE  LInv'
<1>1. /\ Forget(Admins) /\ admins' = {} /\ announced' = {} /\ UNCHANGED <<table, names>>
      /\ missed' = {} /\ renamed' = {}
  BY DEF Crash
<1>2. NewIsUnannounced'
  BY <1>1 DEF NewIsUnannounced
<1>3. admins \ Admins = {}
  BY DEF LInv, TypeOK
<1> QED BY <1>1, <1>2, <1>3, LeaveStep

\* The database stays as it is, the feed too, but for tables and answers that are
\* as current as before.
LEMMA TablesStep ==
    ASSUME LInv, UNCHANGED <<table, names, admins, announced, entries, from, gaps>>,
           view' \in [Admins -> Tables], answer' \in [Admins -> Tables],
           \A a \in Admins, r \in Rows :
               \/ view'[a][r] = view[a][r]
               \/ a \in admins /\ view'[a][r] = answer[a][r] /\ answer[a][r] # Unknown,
           \A a \in Admins, r \in Rows :
               \/ answer'[a][r] \in {answer[a][r], Unknown}
               \/ a \in admins /\ r \in Messages /\ answer'[a][r] = EntryOf(r)
    PROVE  LInv'
<1>1. TypeOK'
  BY DEF LInv, TypeOK, table, names, gaps
<1>2. /\ Messages' = Messages /\ Messages \subseteq Rows /\ admins \subseteq Admins
      /\ missed' = missed /\ renamed' = renamed
      /\ \A r \in Rows : Same(r)
  BY DEF Messages, Same, EntryOf, StatusOf, table, names, gaps, LInv, TypeOK
<1>3. Placed' /\ IntroducedOnce' /\ NewIsUnannounced'
  BY DEF LInv, Placed, IntroducedOnce, NewIsUnannounced, table
<1>4. Blank'
  <2>1. \A a \in Admins, r \in Rows :
           a \notin admins => view'[a][r] = Unknown /\ answer'[a][r] = Unknown
    BY DEF LInv, Blank
  <2>2. entries' = entries /\ admins' = admins /\ live' = live
    BY DEF table
  <2> QED BY <2>1, <2>2 DEF LInv, Blank
<1>5. ViewsCurrent'
  <2>1. ASSUME NEW a \in admins, NEW r \in Messages \ missed,
               r >= from[a] \/ view'[a][r] # Unknown
        PROVE  Shows(view[a][r], r)'
    <3>2. CASE view'[a][r] = view[a][r]
      <4>1. Shows(view[a][r], r)
        BY <1>2, <2>1, <3>2 DEF LInv, ViewsCurrent
      <4> QED BY <1>2, <3>2, <4>1 DEF Shows, Same
    <3>3. CASE view'[a][r] # view[a][r]
      <4>1. Shows(answer[a][r], r) /\ view'[a][r] = answer[a][r]
        BY <1>2, <3>3 DEF LInv, AnswersCurrent
      <4> QED BY <1>2, <4>1 DEF Shows, Same
    <3> QED BY <3>2, <3>3
  <2>2. ASSUME NEW a \in Admins, NEW r \in Rows, view'[a][r] # Unknown
        PROVE  r \in Messages
    BY <2>2 DEF LInv, ViewsCurrent, AnswersCurrent
  <2>3. admins' = admins /\ from' = from
    OBVIOUS
  <2> QED BY <1>2, <2>1, <2>2, <2>3 DEF ViewsCurrent
<1>6. AnswersCurrent'
  <2> SUFFICES ASSUME NEW a \in Admins, NEW r \in Rows, answer'[a][r] # Unknown
               PROVE  r \in Messages' /\ (r \in missed' \/ Shows(answer[a][r], r)')
    BY DEF AnswersCurrent
  <2>1. CASE answer'[a][r] = answer[a][r]
    BY <1>2, <2>1 DEF LInv, AnswersCurrent, Shows, Same
  <2>2. CASE r \in Messages /\ answer'[a][r] = EntryOf(r)
    BY <1>2, <2>2 DEF Shows, Same
  <2> QED BY <2>1, <2>2
<1> QED BY <1>1, <1>3, <1>4, <1>5, <1>6 DEF LInv

LEMMA GetLogStep ==
    ASSUME LInv, NEW a \in Admins, NEW raw, GetLog(a, raw)
    PROVE  LInv'
<1>1. PICK rows \in LogAnswers(Limit(raw)) :
          answer' = [answer EXCEPT ![a] =
              [r \in Rows |-> IF r \in rows \cap Messages THEN EntryOf(r) ELSE Unknown]]
  BY DEF GetLog
<1>2. /\ a \in admins
      /\ UNCHANGED <<table, names, admins, announced, view, entries, from, gaps>>
  BY DEF GetLog
<1>3. answer' \in [Admins -> Tables]
  <2>1. \A r \in Rows : EntryOf(r) \in Entries
    BY EntryTyped DEF LInv
  <2> QED BY <1>1, <2>1 DEF LInv, TypeOK, Tables
<1>4. \A x \in Admins, r \in Rows :
         \/ answer'[x][r] \in {answer[x][r], Unknown}
         \/ x \in admins /\ r \in Messages /\ answer'[x][r] = EntryOf(r)
  BY <1>1, <1>2 DEF LInv, TypeOK
<1> QED BY <1>2, <1>3, <1>4, TablesStep DEF LInv, TypeOK

LEMMA LogArrivesStep ==
    ASSUME LInv, NEW a \in Admins, LogArrives(a)
    PROVE  LInv'
<1>1. /\ view' = [view EXCEPT ![a] =
              [r \in Rows |-> IF answer[a][r] # Unknown THEN answer[a][r] ELSE @[r]]]
      /\ answer' = [answer EXCEPT ![a] = Nothing]
      /\ UNCHANGED <<table, names, admins, announced, entries, from, gaps>>
  BY DEF LogArrives
<1>2. view \in [Admins -> Tables] /\ answer \in [Admins -> Tables]
  BY DEF LInv, TypeOK
<1>3. view' \in [Admins -> Tables] /\ answer' \in [Admins -> Tables]
  BY <1>1, <1>2 DEF Tables, Nothing
<1>4. \A x \in Admins, r \in Rows :
         \/ view'[x][r] = view[x][r]
         \/ x \in admins /\ view'[x][r] = answer[x][r] /\ answer[x][r] # Unknown
  <2>1. \A r \in Rows : answer[a][r] # Unknown => a \in admins
    BY DEF LInv, Blank
  <2> QED BY <1>1, <1>2, <2>1
<1>5. \A x \in Admins, r \in Rows : answer'[x][r] \in {answer[x][r], Unknown}
  BY <1>1, <1>2 DEF Nothing
<1> QED BY <1>1, <1>3, <1>4, <1>5, TablesStep

LEMMA ResetStep ==
    ASSUME LInv, NEW keep \in BOOLEAN, Reset(keep)
    PROVE  LInv'
<1>1. /\ admins \in SUBSET Admins /\ Forget(admins) /\ Empty
      /\ announced' = {} /\ missed' = {} /\ renamed' = {}
      /\ UNCHANGED <<next, admins>>
  BY DEF LInv, TypeOK, Reset
<1>2. /\ view' \in [Admins -> Tables] /\ answer' \in [Admins -> Tables]
      /\ entries' \in [Admins -> [Rows -> Nat]]
      /\ from' \in [Admins -> 1 .. MaxRows + 1]
      /\ \A a \in admins, r \in Rows :
             view'[a][r] = Unknown /\ answer'[a][r] = Unknown /\ entries'[a][r] = 0
      /\ \A a \in admins : from'[a] = 1
      /\ \A a \in Admins \ admins : /\ view'[a] = view[a] /\ answer'[a] = answer[a]
                                    /\ entries'[a] = entries[a] /\ from'[a] = from[a]
  BY <1>1, ForgetFacts
<1>3. registered' \in SUBSET Businesses /\ group' \in Groups \cup {NoGroup}
  BY DEF Reset, LInv, TypeOK, names
<1>4. TypeOK'
  BY <1>1, <1>2, <1>3 DEF Empty, LInv, TypeOK, JobStates
<1>5. \A a \in Admins, r \in Rows :
         view'[a][r] = Unknown /\ answer'[a][r] = Unknown /\ entries'[a][r] = 0
  BY <1>2 DEF LInv, Blank
<1>6. live' = {} /\ Messages' = {} /\ \A r \in Rows, k \in Kinds : jobs'[r][k] = "none"
  BY <1>1 DEF Empty, Messages
<1>7. Placed'
  BY <1>1, <1>2, <1>6 DEF LInv, TypeOK, Placed
<1>8. Blank' /\ ViewsCurrent' /\ AnswersCurrent' /\ IntroducedOnce' /\ NewIsUnannounced'
  BY <1>5, <1>6 DEF Blank, ViewsCurrent, AnswersCurrent, IntroducedOnce, NewIsUnannounced
<1> QED BY <1>4, <1>7, <1>8 DEF LInv

\* A number or a group comes or goes: what is shown of the messages joined to it
\* is right but for the names.
LEMMA NamesStep ==
    ASSUME LInv, UNCHANGED <<table, feed, missed>>, NEW S \in SUBSET Rows, Renamed(S),
           registered' \in SUBSET Businesses, group' \in Groups \cup {NoGroup},
           \A r \in Rows \ S : EntryOf(r)' = EntryOf(r)
    PROVE  LInv'
<1>1. /\ Messages' = Messages /\ Messages \subseteq Rows /\ admins \subseteq Admins
      /\ \A r \in Rows : StatusOf(r)' = StatusOf(r) /\ jobs'[r] = jobs[r]
  BY DEF Messages, StatusOf, table, LInv, TypeOK
<1>2. UNCHANGED <<admins, announced, view, entries, from, answer, missed>>
  BY DEF feed
<1>3. renamed' = IF admins = {} THEN {} ELSE renamed \cup (S \cap Messages)
  BY DEF Renamed
<1>4. TypeOK'
  BY <1>1, <1>2, <1>3 DEF LInv, TypeOK, table
<1>5. Placed' /\ Blank' /\ IntroducedOnce' /\ NewIsUnannounced'
  BY <1>2 DEF LInv, Placed, Blank, IntroducedOnce, NewIsUnannounced, table
<1>6. ASSUME NEW e, NEW r \in Messages, Shows(e, r), admins # {}
      PROVE  \/ e = EntryOf(r)'
             \/ r \in renamed' /\ e # Unknown /\ e.status = StatusOf(r)' /\ e.webhooks = jobs'[r]
  <2>1. CASE e = EntryOf(r) /\ r \notin S
    BY <1>1, <2>1
  <2>2. CASE e = EntryOf(r) /\ r \in S
    <3>1. e \in Entries
      BY <1>1, <2>2, EntryTyped DEF LInv
    <3>2. e # Unknown
      BY <3>1, UnknownAssumption
    <3>3. e.status = StatusOf(r) /\ e.webhooks = jobs[r]
      BY <2>2 DEF EntryOf
    <3> QED BY <1>1, <1>3, <1>6, <2>2, <3>2, <3>3
  <2>3. CASE e # EntryOf(r)
    <3>1. r \in renamed /\ e # Unknown /\ e.status = StatusOf(r) /\ e.webhooks = jobs[r]
      BY <1>6, <2>3 DEF Shows
    <3> QED BY <1>1, <1>3, <1>6, <3>1
  <2> QED BY <2>1, <2>2, <2>3
<1>7. ViewsCurrent'
  <2>1. ASSUME NEW a \in admins, NEW r \in Messages \ missed,
               r >= from[a] \/ view[a][r] # Unknown
        PROVE  Shows(view[a][r], r)'
    <3>1. Shows(view[a][r], r)
      BY <2>1 DEF LInv, ViewsCurrent
    <3> QED BY <1>2, <1>6, <3>1 DEF Shows
  <2> QED BY <1>1, <1>2, <2>1 DEF LInv, ViewsCurrent
<1>8. AnswersCurrent'
  <2> SUFFICES ASSUME NEW a \in Admins, NEW r \in Rows, answer[a][r] # Unknown
               PROVE  r \in Messages /\ (r \in missed \/ Shows(answer[a][r], r)')
    BY <1>1, <1>2 DEF AnswersCurrent
  <2>1. r \in Messages /\ (r \in missed \/ Shows(answer[a][r], r)) /\ a \in admins
    BY DEF LInv, AnswersCurrent, Blank
  <2> QED BY <1>2, <1>6, <2>1 DEF Shows
<1> QED BY <1>4, <1>5, <1>7, <1>8 DEF LInv

LEMMA BusinessStep ==
    ASSUME LInv, NEW b \in Businesses, RegisterBusiness(b) \/ DeleteBusiness(b)
    PROVE  LInv'
<1> DEFINE S == {r \in Rows : biz[r] = b}
<1>1. /\ UNCHANGED <<table, group, feed, missed>> /\ Renamed(S)
      /\ registered' = registered \cup {b} \/ registered' = registered \ {b}
  BY DEF RegisterBusiness, DeleteBusiness
<1>2. registered' \in SUBSET Businesses /\ group' \in Groups \cup {NoGroup}
  BY <1>1 DEF LInv, TypeOK
<1>3. \A r \in Rows \ S : EntryOf(r)' = EntryOf(r)
  BY <1>1 DEF EntryOf, StatusOf, table
<1> QED BY <1>1, <1>2, <1>3, NamesStep

LEMMA GroupStep ==
    ASSUME LInv, NEW g \in Groups, CreateGroup(g)
    PROVE  LInv'
<1>1. UNCHANGED <<table, registered, feed, missed>> /\ Renamed(Rows) /\ group' = g
  BY DEF CreateGroup
<1> QED BY <1>1, NamesStep DEF LInv, TypeOK

LEMMA DeleteGroupStep ==
    ASSUME LInv, DeleteGroup
    PROVE  LInv'
<1>1. UNCHANGED <<table, registered, feed, missed>> /\ Renamed(Rows) /\ group' = NoGroup
  BY DEF DeleteGroup
<1> QED BY <1>1, NamesStep DEF LInv, TypeOK

LEMMA StutterStep ==
    ASSUME LInv, UNCHANGED vars
    PROVE  LInv'
<1>1. UNCHANGED <<table, names, admins, announced, view, entries, from, answer, gaps>>
  BY DEF vars, feed
<1>2. view' \in [Admins -> Tables] /\ answer' \in [Admins -> Tables]
  BY <1>1 DEF LInv, TypeOK
<1>3. \A a \in Admins, r \in Rows :
         view'[a][r] = view[a][r] /\ answer'[a][r] \in {answer[a][r], Unknown}
  BY <1>1
<1> QED BY <1>1, <1>2, <1>3, TablesStep

LEMMA LInvNext == LInv /\ [Next]_vars => LInv'
<1> SUFFICES ASSUME LInv, [Next]_vars PROVE LInv'
  OBVIOUS
<1>1. CASE \E d \in {"outbound", "inbound"}, b \in Businesses : NewMessage(d, b)
  BY <1>1, NewMessageStep
<1>2. CASE Rejected
  BY <1>2, RejectedStep
<1>3. CASE \E S \in SUBSET Rows : Deliver(S)
  BY <1>3, DeliverStep
<1>4. CASE \E b \in Businesses, S \in SUBSET Rows : Read(b, S)
  BY <1>4, ReadStep
<1>5. CASE \E r \in Rows : MarkInboundRead(r)
  BY <1>5, MarkInboundReadStep
<1>6. CASE \E r \in Rows, k \in Kinds, state \in {"tried", "finished"} : Attempt(r, k, state)
  BY <1>6, AttemptStep
<1>7. CASE \E a \in Admins : Subscribe(a) \/ Unsubscribe(a) \/ LogArrives(a)
  BY <1>7, SubscribeStep, UnsubscribeStep, LogArrivesStep
<1>8. CASE \E a \in Admins, raw \in 0 .. NotANumber : GetLog(a, raw)
  BY <1>8, GetLogStep
<1>9. CASE \E keep \in BOOLEAN : Reset(keep)
  BY <1>9, ResetStep
<1>10. CASE Crash
  BY <1>10, CrashStep
<1>11. CASE \E b \in Businesses : RegisterBusiness(b) \/ DeleteBusiness(b)
  BY <1>11, BusinessStep
<1>12. CASE DeleteGroup \/ \E g \in Groups : CreateGroup(g)
  BY <1>12, GroupStep, DeleteGroupStep
<1>13. CASE UNCHANGED vars
  BY <1>13, StutterStep
<1> QED BY <1>1, <1>2, <1>3, <1>4, <1>5, <1>6, <1>7, <1>8, <1>9, <1>10, <1>11, <1>12, <1>13
        DEF Next

LEMMA LInvAlways == Spec => []LInv
BY InitLInv, LInvNext, PTL DEF Spec

-----------------------------------------------------------------------------
\* Every variable of the log and the feed keeps its type (AdminLog.tla).
THEOREM LogTyped == Spec => []TypeOK
<1>1. LInv => TypeOK
  BY DEF LInv
<1> QED BY <1>1, LInvAlways, PTL

\* ws/admin-feed.ts: what an admin has been sent is what the database holds.
THEOREM ViewsCurrentHolds == Spec => []ViewsCurrent
<1>1. LInv => ViewsCurrent
  BY DEF LInv
<1> QED BY <1>1, LInvAlways, PTL

\* ws/admin-feed.ts: log.entry and log.update are told apart rightly.
THEOREM IntroducedOnceHolds == Spec => []IntroducedOnce
<1>1. LInv => IntroducedOnce
  BY DEF LInv
<1> QED BY <1>1, LInvAlways, PTL

-----------------------------------------------------------------------------
RowsOf(S) == S \subseteq Rows /\ IsFiniteSet(S) /\ Cardinality(S) \in Nat

LEMMA RowsFinite ==
    ASSUME NEW S \in SUBSET Rows
    PROVE  RowsOf(S)
<1>1. IsFiniteSet(Rows)
  BY BoundAssumption, FS_Interval DEF Rows
<1>2. IsFiniteSet(S)
  BY <1>1, FS_Subset
<1> QED BY <1>2, FS_CardinalityType DEF RowsOf

\* A row that the first cut of one list has left out is not newer than any row
\* of the merged answer.
LEMMA CutAwayIsOlder ==
    ASSUME TypeOK, NEW k \in Nat, NEW A \in SUBSET Rows, NEW B \in SUBSET Rows,
           NEW a \in Newest(A, k), B \cap A = {}, NEW T \in Newest(a \cup B, k),
           NEW x \in A \ a, NEW t \in T
    PROVE  at[x] <= at[t]
<1>1. a \subseteq A /\ T \subseteq a \cup B
  BY DEF Newest
<1>2. RowsOf(A) /\ RowsOf(a) /\ RowsOf(T) /\ RowsOf(a \cup B)
  BY <1>1, RowsFinite
<1>3. Cardinality(a) = k
  <2>1. Cardinality(a) # Cardinality(A)
    BY <1>1, <1>2, FS_Subset DEF RowsOf
  <2> QED BY <2>1 DEF Newest
<1>4. \A y \in a : at[x] <= at[y]
  BY DEF Newest
<1>5. CASE t \in a
  BY <1>4, <1>5
<1>6. CASE t \notin a
  <2>1. PICK y \in a : y \notin T
    <3> SUFFICES ASSUME a \subseteq T PROVE FALSE
      OBVIOUS
    <3>1. Cardinality(T) <= k
      BY <1>2 DEF Newest, RowsOf
    <3>2. a # T
      BY <1>6
    <3>3. Cardinality(a) < Cardinality(T)
      BY <1>2, <3>2, FS_Subset DEF RowsOf
    <3> QED BY <1>2, <1>3, <3>1, <3>3 DEF RowsOf
  <2>2. at[x] <= at[y]
    BY <1>4
  <2>3. at[y] <= at[t]
    BY <2>1 DEF Newest
  <2>4. at[x] \in Nat /\ at[y] \in Nat /\ at[t] \in Nat
    BY <1>1 DEF TypeOK
  <2> QED BY <2>2, <2>3, <2>4
<1> QED BY <1>5, <1>6

\* Cutting two lists, merging them and cutting again is cutting their union.
LEMMA MergedIsNewest ==
    ASSUME TypeOK, NEW k \in Nat, NEW rows \in LogAnswers(k)
    PROVE  rows \in Newest(live, k)
<1> DEFINE R == live \ Messages
<1>1. PICK m \in Newest(Messages, k), r \in Newest(R, k) : rows \in Merged(m, r, k)
  BY DEF LogAnswers
<1>2. rows \in Newest(m \cup r, k)
  BY <1>1 DEF Merged
<1>3. /\ live \subseteq Rows /\ Messages \cup R = live /\ Messages \cap R = {}
      /\ m \subseteq Messages /\ r \subseteq R /\ m \cap r = {} /\ rows \subseteq m \cup r
  BY <1>2 DEF Newest, Messages, TypeOK
<1>4. /\ RowsOf(live) /\ RowsOf(Messages) /\ RowsOf(R) /\ RowsOf(m) /\ RowsOf(r)
      /\ RowsOf(m \cup r) /\ RowsOf(rows)
  BY <1>3, RowsFinite
<1>5. /\ Cardinality(live) = Cardinality(Messages) + Cardinality(R)
      /\ Cardinality(m \cup r) = Cardinality(m) + Cardinality(r)
  <2>1. Cardinality({}) = 0
    BY FS_EmptySet
  <2>2. Cardinality(Messages \cup R) = Cardinality(Messages) + Cardinality(R) - Cardinality({})
    BY <1>3, <1>4, FS_Union DEF RowsOf
  <2>3. Cardinality(m \cup r) = Cardinality(m) + Cardinality(r) - Cardinality({})
    BY <1>3, <1>4, FS_Union DEF RowsOf
  <2>4. Cardinality(Messages \cup R) = Cardinality(live)
    BY <1>3
  <2> HIDE DEF R
  <2> QED BY <1>4, <2>1, <2>2, <2>3, <2>4 DEF RowsOf
<1>6. Cardinality(rows) = IF Cardinality(live) < k THEN Cardinality(live) ELSE k
  <2>1. /\ Cardinality(m) = IF Cardinality(Messages) < k THEN Cardinality(Messages) ELSE k
        /\ Cardinality(r) = IF Cardinality(R) < k THEN Cardinality(R) ELSE k
        /\ Cardinality(rows) = IF Cardinality(m \cup r) < k THEN Cardinality(m \cup r) ELSE k
    BY <1>2 DEF Newest
  <2> HIDE DEF R
  <2> QED BY <1>4, <1>5, <2>1 DEF RowsOf
<1>7. ASSUME NEW x \in live \ rows, NEW t \in rows
      PROVE  at[x] <= at[t]
  <2>1. CASE x \in m \cup r
    BY <1>2, <2>1 DEF Newest
  <2>2. CASE x \in Messages \ m
    <3>1. Messages \in SUBSET Rows /\ r \in SUBSET Rows /\ r \cap Messages = {}
      BY <1>3
    <3> HIDE DEF R
    <3> QED BY <1>2, <2>2, <3>1, CutAwayIsOlder
  <2>3. CASE x \in R \ r
    <3>1. rows \in Newest(r \cup m, k)
      <4>1. r \cup m = m \cup r
        OBVIOUS
      <4> QED BY <1>2, <4>1
    <3>2. R \in SUBSET Rows /\ m \in SUBSET Rows /\ m \cap R = {}
      BY <1>3
    <3> HIDE DEF R
    <3> QED BY <2>3, <3>1, <3>2, CutAwayIsOlder
  <2> QED BY <1>3, <2>1, <2>2, <2>3
<1> QED BY <1>3, <1>6, <1>7 DEF Newest

\* core/messages.ts, getLog(): the answer is the newest of the whole log.
THEOREM LogIsNewestHolds == Spec => []LogIsNewest
<1>1. TypeOK => LogIsNewest
  <2> SUFFICES ASSUME TypeOK, NEW k \in 1 .. MaxLimit PROVE LogAnswers(k) \subseteq Newest(live, k)
    BY DEF LogIsNewest
  <2>1. k \in Nat
    BY LimitsAssumption
  <2> QED BY <2>1, MergedIsNewest
<1> QED BY <1>1, LogTyped, PTL
===============================================================================
