---------------------------- MODULE RegistryProofs ----------------------------
(***************************************************************************)
(* What holds of the registry for any numbers, names, ids and bounds.  The  *)
(* inductive invariant RInv adds two facts to the properties of Registry:   *)
(* a locked group is there, and a message under a generated id bears the    *)
(* number that is registered under that id, if one is.                      *)
(***************************************************************************)
EXTENDS Registry, TLAPS

LockedExist == locked \subseteq DOMAIN groups

Generated(m) == m.id \in MockIds \ chosen

RowsMatchTable ==
    \A m \in messages :
        (Generated(m) /\ m.id \in Registered) => businesses[m.id] = m.business

RInv ==
    /\ TypeOK
    /\ NumbersDisjoint
    /\ NoOrphans
    /\ LockedExist
    /\ RowsMatchTable
    /\ OneBusinessPerConversation

-----------------------------------------------------------------------------
\* What getBusiness() finds is registered, under the key or with it as number.
LEMMA FindSound ==
    ASSUME NEW key, Find(key) # NoId
    PROVE  /\ Find(key) \in Registered
           /\ key \in Registered => Find(key) = key
           /\ key \notin Registered => businesses[Find(key)] = key
BY DEF Find

\* A registered business is always found by its number.
LEMMA FiledRegistered ==
    ASSUME NEW i \in Registered, TypeOK
    PROVE  /\ Filed(i) \in Registered
           /\ businesses[i] \in Registered => Filed(i) = businesses[i]
           /\ businesses[i] \notin Registered => businesses[Filed(i)] = businesses[i]
<1>1. businesses[i] \in Numbers
  BY DEF TypeOK, Registered
<1>2. Find(businesses[i]) # NoId
  <2>1. CASE businesses[i] \in Registered
    BY <2>1, NoIdAssumption, <1>1 DEF Find
  <2>2. CASE businesses[i] \notin Registered
    <3>1. PICK j \in Registered : j = CHOOSE k \in Registered : businesses[k] = businesses[i]
      OBVIOUS
    <3>2. Find(businesses[i]) = j
      BY <2>2, <3>1 DEF Find
    <3>3. j \in PhoneIds
      BY DEF TypeOK
    <3> QED BY <3>2, <3>3, NoIdAssumption
  <2> QED BY <2>1, <2>2
<1> QED BY <1>2, FindSound DEF Filed

\* A row filed under a generated id bears the number registered under it.
LEMMA FiledMatches ==
    ASSUME NEW i \in Registered, TypeOK, Filed(i) \in MockIds
    PROVE  businesses[Filed(i)] = businesses[i]
<1>1. businesses[i] \in Numbers
  BY DEF TypeOK, Registered
<1>2. businesses[i] \notin MockIds
  BY <1>1, NumbersAssumption
<1> QED BY <1>2, FiledRegistered

-----------------------------------------------------------------------------
LEMMA InitRInv == Init => RInv
BY DEF Init, RInv, TypeOK, NumbersDisjoint, NoOrphans, LockedExist, RowsMatchTable,
       OneBusinessPerConversation, Nothing, Registered, TilesOf, Generated

\* Both registrations insert a number that is neither business nor customer.
LEMMA InsertTables ==
    ASSUME RInv, NEW i \in PhoneIds \ Registered, NEW d \in Numbers, Insert(i, d),
           chosen' \subseteq MockIds
    PROVE  TypeOK' /\ NumbersDisjoint' /\ NoOrphans' /\ LockedExist'
<1>1. /\ Registered' = Registered \cup {i}
      /\ businesses'[i] = d
      /\ \A j \in Registered : businesses'[j] = businesses[j]
  BY DEF Insert, Registered
<1>2. UNCHANGED <<groups, customers, rules, locked, messages>>
  BY DEF Insert, people
<1>3. (\A j \in Registered : businesses[j] # d) /\ d \notin DOMAIN customers
  BY DEF Insert, Registrable
<1>4. TypeOK'
  <2>1. businesses' \in [Registered' -> Numbers] /\ Registered' \subseteq PhoneIds
    BY <1>1 DEF Insert, RInv, TypeOK
  <2>2. \A j, k \in Registered' : businesses'[j] = businesses'[k] => j = k
    BY <1>1, <1>3 DEF RInv, TypeOK
  <2> QED BY <1>2, <2>1, <2>2 DEF RInv, TypeOK
<1>5. NumbersDisjoint'
  BY <1>1, <1>2, <1>3 DEF RInv, NumbersDisjoint
<1> QED BY <1>2, <1>4, <1>5 DEF RInv, NoOrphans, LockedExist, TilesOf

LEMMA RegisterGeneratedStep ==
    ASSUME RInv, NEW i \in MockIds, NEW d \in Numbers, RegisterGenerated(i, d)
    PROVE  RInv'
<1>1. i \notin Used
  <2>1. \A u \in Used : u < i
    BY DEF RegisterGenerated, IsNextMock
  <2> QED BY <2>1 DEF MockIds
<1>2. i \notin Registered /\ \A m \in messages : m.id # i
  BY <1>1 DEF Used
<1>3. Insert(i, d) /\ UNCHANGED chosen
  BY DEF RegisterGenerated
<1>4. TypeOK' /\ NumbersDisjoint' /\ NoOrphans' /\ LockedExist'
  BY <1>2, <1>3, InsertTables DEF RInv, TypeOK, PhoneIds
<1>5. Registered' = Registered \cup {i} /\ \A j \in Registered : businesses'[j] = businesses[j]
  BY <1>2, <1>3 DEF Insert, Registered
<1>6. messages' = messages
  BY <1>3 DEF Insert
<1>7. RowsMatchTable'
  BY <1>2, <1>3, <1>5, <1>6 DEF RInv, RowsMatchTable, Generated
<1>8. OneBusinessPerConversation'
  BY <1>3, <1>6 DEF RInv, OneBusinessPerConversation
<1> QED BY <1>4, <1>7, <1>8 DEF RInv

LEMMA RegisterSuppliedStep ==
    ASSUME RInv, NEW i \in Supplied, NEW d \in Numbers, RegisterSupplied(i, d)
    PROVE  RInv'
<1>1. i \notin Registered /\ Insert(i, d) /\ chosen' = chosen \cup ({i} \cap MockIds)
  BY DEF RegisterSupplied
<1>2. TypeOK' /\ NumbersDisjoint' /\ NoOrphans' /\ LockedExist'
  BY <1>1, InsertTables DEF RInv, TypeOK, PhoneIds
<1>3. Registered' = Registered \cup {i} /\ \A j \in Registered : businesses'[j] = businesses[j]
  BY <1>1 DEF Insert, Registered
<1>4. messages' = messages
  BY <1>1 DEF Insert
<1>5. RowsMatchTable'
  BY <1>1, <1>3, <1>4 DEF RInv, RowsMatchTable, Generated
<1>6. OneBusinessPerConversation'
  BY <1>1, <1>4 DEF RInv, OneBusinessPerConversation
<1> QED BY <1>2, <1>5, <1>6 DEF RInv

LEMMA DeleteBusinessStep ==
    ASSUME RInv, NEW i \in PhoneIds, DeleteBusiness(i)
    PROVE  RInv'
<1>1. /\ Registered' = Registered \ {i}
      /\ \A j \in Registered' : businesses'[j] = businesses[j]
      /\ businesses' = [j \in Registered' |-> businesses[j]]
  BY DEF DeleteBusiness, Registered, Restrict
<1>2. UNCHANGED <<groups, customers, rules, locked, messages, chosen>>
  BY DEF DeleteBusiness, people
<1>3. TypeOK'
  <2>1. businesses' \in [Registered' -> Numbers] /\ Registered' \subseteq PhoneIds
    BY <1>1 DEF RInv, TypeOK, Registered
  <2> QED BY <1>1, <1>2, <2>1 DEF RInv, TypeOK
<1>4. NumbersDisjoint' /\ NoOrphans' /\ LockedExist'
  BY <1>1, <1>2 DEF RInv, NumbersDisjoint, NoOrphans, LockedExist, TilesOf
<1>5. RowsMatchTable' /\ OneBusinessPerConversation'
  BY <1>1, <1>2 DEF RInv, RowsMatchTable, OneBusinessPerConversation, Generated
<1> QED BY <1>3, <1>4, <1>5 DEF RInv

-----------------------------------------------------------------------------
\* The business numbers are free of new customers, by the test of createGroup().
LEMMA FreeNumbers ==
    ASSUME TypeOK, NEW n, IsFree(n)
    PROVE  n \notin DOMAIN customers /\ \A i \in Registered : businesses[i] # n
<1>1. Find(n) = NoId /\ n \notin DOMAIN customers
  BY DEF IsFree
<1>2. Registered \subseteq PhoneIds
  BY DEF TypeOK
<1>3. ASSUME NEW i \in Registered, businesses[i] = n
      PROVE  FALSE
  <2>1. CASE n \in Registered
    BY <2>1, <1>1, <1>2, NoIdAssumption DEF Find
  <2>2. CASE n \notin Registered
    <3>1. PICK j \in Registered : j = CHOOSE k \in Registered : businesses[k] = n
      BY <1>3
    <3>2. Find(n) = j
      BY <2>2, <1>3, <3>1 DEF Find
    <3> QED BY <3>2, <1>1, <1>2, NoIdAssumption
  <2> QED BY <2>1, <2>2
<1> QED BY <1>1, <1>3

LEMMA CreateGroupStep ==
    ASSUME RInv, NEW x \in Names, NEW nums \in SUBSET Numbers, CreateGroup(x, nums)
    PROVE  RInv'
<1> DEFINE s == Slug[x]
<1>1. /\ DOMAIN groups' = DOMAIN groups \cup {s}
      /\ groups' = [g \in DOMAIN groups \cup {s} |-> IF g = s THEN x ELSE groups[g]]
      /\ DOMAIN customers' = DOMAIN customers \cup nums
      /\ customers' = [n \in DOMAIN customers \cup nums |-> IF n \in nums THEN s ELSE customers[n]]
      /\ \A n \in nums : customers'[n] = s
      /\ \A n \in DOMAIN customers \ nums : customers'[n] = customers[n]
  BY DEF CreateGroup
<1>2. UNCHANGED <<businesses, rules, locked, messages, chosen>>
  BY DEF CreateGroup
<1>3. \A n \in nums : n \notin DOMAIN customers /\ \A i \in Registered : businesses[i] # n
  BY FreeNumbers DEF CreateGroup, RInv
<1>4. nums # {} /\ s \in GroupIds /\ s \notin DOMAIN groups
  BY DEF CreateGroup, GroupIds
<1>5. Registered' = Registered
  BY <1>2 DEF Registered
<1>6. TypeOK'
  <2>1. groups' \in [DOMAIN groups' -> Names] /\ DOMAIN groups' \subseteq GroupIds
    BY <1>1, <1>4 DEF RInv, TypeOK
  <2>2. customers' \in [DOMAIN customers' -> GroupIds] /\ DOMAIN customers' \subseteq Numbers
    BY <1>1, <1>4 DEF RInv, TypeOK
  <2> QED BY <2>1, <2>2, <1>2, <1>5 DEF RInv, TypeOK
<1>7. NumbersDisjoint'
  BY <1>1, <1>2, <1>3, <1>5 DEF RInv, NumbersDisjoint
<1>8. NoOrphans'
  <2>1. \A n \in DOMAIN customers' : customers'[n] \in DOMAIN groups'
    BY <1>1 DEF RInv, NoOrphans
  <2>2. rules' \subseteq DOMAIN customers'
    BY <1>1, <1>2 DEF RInv, NoOrphans
  <2>3. ASSUME NEW g \in DOMAIN groups'
        PROVE  \E n \in DOMAIN customers' : customers'[n] = g
    <3>1. CASE g = s
      BY <3>1, <1>1, <1>4
    <3>2. CASE g \in DOMAIN groups
      <4>1. PICK n \in DOMAIN customers : customers[n] = g
        BY <3>2 DEF RInv, NoOrphans, TilesOf
      <4>2. n \notin nums
        BY <1>3
      <4> QED BY <4>1, <4>2, <1>1
    <3> QED BY <3>1, <3>2, <1>1
  <2> QED BY <2>1, <2>2, <2>3 DEF NoOrphans, TilesOf
<1>9. LockedExist'
  BY <1>1, <1>2 DEF RInv, LockedExist
<1>10. RowsMatchTable' /\ OneBusinessPerConversation'
  BY <1>2, <1>5 DEF RInv, RowsMatchTable, OneBusinessPerConversation, Generated
<1> QED BY <1>6, <1>7, <1>8, <1>9, <1>10 DEF RInv

LEMMA DeleteGroupStep ==
    ASSUME RInv, NEW g \in GroupIds, DeleteGroup(g)
    PROVE  RInv'
<1>1. /\ DOMAIN groups' = DOMAIN groups \ {g}
      /\ groups' = [h \in DOMAIN groups' |-> groups[h]]
      /\ DOMAIN customers' = DOMAIN customers \ TilesOf(g)
      /\ customers' = [n \in DOMAIN customers' |-> customers[n]]
      /\ rules' = rules \ TilesOf(g)
  BY DEF DeleteGroup, Restrict, RulesWithout
<1>2. UNCHANGED <<businesses, locked, messages, chosen>> /\ g \notin locked
  BY DEF DeleteGroup, Deletable
<1>3. Registered' = Registered
  BY <1>2 DEF Registered
<1>4. TypeOK'
  <2>1. groups' \in [DOMAIN groups' -> Names] /\ DOMAIN groups' \subseteq GroupIds
    BY <1>1 DEF RInv, TypeOK
  <2>2. customers' \in [DOMAIN customers' -> GroupIds] /\ DOMAIN customers' \subseteq Numbers
    BY <1>1 DEF RInv, TypeOK
  <2> QED BY <2>1, <2>2, <1>1, <1>2, <1>3 DEF RInv, TypeOK
<1>5. NumbersDisjoint'
  BY <1>1, <1>2, <1>3 DEF RInv, NumbersDisjoint
<1>6. NoOrphans'
  <2>1. \A n \in DOMAIN customers' : customers'[n] \in DOMAIN groups'
    BY <1>1 DEF RInv, NoOrphans, TilesOf
  <2>2. rules' \subseteq DOMAIN customers'
    BY <1>1 DEF RInv, NoOrphans
  <2>3. \A h \in DOMAIN groups' : \E n \in DOMAIN customers' : customers'[n] = h
    BY <1>1 DEF RInv, NoOrphans, TilesOf
  <2> QED BY <2>1, <2>2, <2>3 DEF NoOrphans, TilesOf
<1>7. LockedExist'
  BY <1>1, <1>2 DEF RInv, LockedExist
<1>8. RowsMatchTable' /\ OneBusinessPerConversation'
  BY <1>2, <1>3 DEF RInv, RowsMatchTable, OneBusinessPerConversation, Generated
<1> QED BY <1>4, <1>5, <1>6, <1>7, <1>8 DEF RInv

\* Rules and locks are written for customers and groups that are there.
LEMMA RulesAndLocksStep ==
    ASSUME RInv, UNCHANGED <<businesses, groups, customers, messages, chosen>>,
           rules' \subseteq DOMAIN customers, locked' \subseteq DOMAIN groups
    PROVE  RInv'
<1>1. Registered' = Registered /\ UNCHANGED chosen
  BY DEF Registered
<1>2. TypeOK'
  BY <1>1 DEF RInv, TypeOK
<1>3. NumbersDisjoint' /\ NoOrphans' /\ LockedExist'
  BY <1>1 DEF RInv, NumbersDisjoint, NoOrphans, TilesOf, LockedExist
<1>4. RowsMatchTable' /\ OneBusinessPerConversation'
  BY <1>1 DEF RInv, RowsMatchTable, OneBusinessPerConversation, Generated
<1> QED BY <1>2, <1>3, <1>4 DEF RInv

\* A stored row lands among rows that bear the same number.
LEMMA StoreStep ==
    ASSUME RInv, NEW i \in Registered, NEW c \in DOMAIN customers, Store(i, c)
    PROVE  RInv'
<1> DEFINE row == [id |-> Filed(i), customer |-> c, business |-> businesses[i]]
<1>1. messages' = messages \cup {row} /\ UNCHANGED <<businesses, people, chosen>>
  BY DEF Store
<1>2. /\ UNCHANGED <<businesses, groups, customers, rules, locked, chosen>>
      /\ Registered' = Registered
  BY <1>1 DEF people, Registered
<1>3. TypeOK
  BY DEF RInv
<1>4. Filed(i) \in Registered
  BY <1>3, FiledRegistered
<1>5. row \in MessageRows
  BY <1>3, <1>4 DEF TypeOK, MessageRows, Registered
<1>6. TypeOK'
  BY <1>1, <1>2, <1>5 DEF RInv, TypeOK
<1>7. NumbersDisjoint' /\ NoOrphans' /\ LockedExist'
  BY <1>2 DEF RInv, NumbersDisjoint, NoOrphans, TilesOf, LockedExist
<1>8. Generated(row) => businesses[row.id] = row.business
  BY <1>3, FiledMatches DEF Generated
<1>9. RowsMatchTable'
  BY <1>1, <1>2, <1>8 DEF RInv, RowsMatchTable, Generated
<1>10. ASSUME NEW m \in messages', NEW k \in messages', m.id = k.id, Generated(m)
       PROVE  m.business = k.business
  <2>1. CASE m \in messages /\ k \in messages
    BY <2>1, <1>10 DEF RInv, OneBusinessPerConversation, Generated
  <2>2. CASE m = row \/ k = row
    <3>1. m.id \in Registered /\ Generated(k)
      BY <2>2, <1>4, <1>10 DEF Generated
    <3>2. businesses[m.id] = m.business /\ businesses[k.id] = k.business
      BY <3>1, <1>1, <1>8, <1>10 DEF RInv, RowsMatchTable
    <3> QED BY <3>2, <1>10
  <2> QED BY <2>1, <2>2, <1>1
<1>11. OneBusinessPerConversation'
  BY <1>2, <1>10 DEF OneBusinessPerConversation, Generated
<1> QED BY <1>6, <1>7, <1>9, <1>11 DEF RInv

LEMMA ResetStep ==
    ASSUME RInv, NEW keep \in BOOLEAN, Reset(keep)
    PROVE  RInv'
<1>1. CASE keep
  <2>1. /\ UNCHANGED <<businesses, groups, customers, rules, locked, chosen>>
        /\ Registered' = Registered /\ messages' = {}
    BY <1>1 DEF Reset, people, Registered
  <2>2. TypeOK'
    BY <2>1 DEF RInv, TypeOK
  <2>3. NumbersDisjoint' /\ NoOrphans' /\ LockedExist'
    BY <2>1 DEF RInv, NumbersDisjoint, NoOrphans, TilesOf, LockedExist
  <2> QED BY <2>1, <2>2, <2>3 DEF RInv, RowsMatchTable, OneBusinessPerConversation
<1>2. CASE ~keep
  <2>1. /\ businesses' = Nothing /\ groups' = Nothing /\ customers' = Nothing /\ rules' = {}
        /\ locked' = {} /\ messages' = {} /\ chosen' = {}
    BY <1>2 DEF Reset
  <2> QED BY <2>1 DEF RInv, TypeOK, NumbersDisjoint, NoOrphans, LockedExist, RowsMatchTable,
                      OneBusinessPerConversation, Nothing, Registered, TilesOf, Generated
<1> QED BY <1>1, <1>2

-----------------------------------------------------------------------------
LEMMA NextRInv == RInv /\ [Next]_vars => RInv'
<1> SUFFICES ASSUME RInv, [Next]_vars PROVE RInv'
  OBVIOUS
<1>1. ASSUME NEW i \in MockIds, NEW d \in Numbers, RegisterGenerated(i, d) PROVE RInv'
  BY <1>1, RegisterGeneratedStep
<1>2. ASSUME NEW i \in Supplied, NEW d \in Numbers, RegisterSupplied(i, d) PROVE RInv'
  BY <1>2, RegisterSuppliedStep
<1>3. ASSUME NEW i \in PhoneIds, DeleteBusiness(i) PROVE RInv'
  BY <1>3, DeleteBusinessStep
<1>4. ASSUME NEW x \in Names, NEW nums \in SUBSET Numbers, CreateGroup(x, nums) PROVE RInv'
  BY <1>4, CreateGroupStep
<1>5. ASSUME NEW g \in GroupIds, DeleteGroup(g) PROVE RInv'
  BY <1>5, DeleteGroupStep
<1>6. ASSUME NEW g \in GroupIds, Lock(g) \/ Unlock(g) PROVE RInv'
  <2>1. /\ UNCHANGED <<businesses, groups, customers, messages, chosen, rules>>
        /\ locked' \subseteq locked \cup DOMAIN groups
    BY <1>6 DEF Lock, Unlock
  <2> QED BY <2>1, RulesAndLocksStep DEF RInv, NoOrphans, LockedExist
<1>7. ASSUME NEW n \in Numbers, NEW some \in BOOLEAN, SetAutoReply(n, some) PROVE RInv'
  <2>1. /\ UNCHANGED <<businesses, groups, customers, messages, chosen, locked>>
        /\ rules' \subseteq rules \cup DOMAIN customers
    BY <1>7 DEF SetAutoReply
  <2> QED BY <2>1, RulesAndLocksStep DEF RInv, NoOrphans, LockedExist
<1>8. ASSUME NEW i \in PhoneIds, NEW c \in Numbers, Accept(i, c) PROVE RInv'
  BY <1>8, StoreStep DEF Accept
<1>9. ASSUME NEW c \in Numbers, NEW key \in PhoneIds \cup Numbers, Inbound(c, key) PROVE RInv'
  BY <1>9, FindSound, StoreStep DEF Inbound
<1>10. ASSUME NEW keep \in BOOLEAN, Reset(keep) PROVE RInv'
  BY <1>10, ResetStep
<1>11. ASSUME UNCHANGED vars PROVE RInv'
  <2>1. UNCHANGED <<businesses, groups, customers, messages, chosen, rules, locked>>
    BY <1>11 DEF vars, people
  <2> QED BY <2>1, RulesAndLocksStep DEF RInv, NoOrphans, LockedExist
<1> QED BY <1>1, <1>2, <1>3, <1>4, <1>5, <1>6, <1>7, <1>8, <1>9, <1>10, <1>11 DEF Next

LEMMA Invariance == Spec => []RInv
BY InitRInv, NextRInv, PTL DEF Spec

-----------------------------------------------------------------------------
\* The tables of registry.ts and messages.ts have their columns.
THEOREM TablesTyped == Spec => []TypeOK
<1>1. RInv => TypeOK
  BY DEF RInv
<1> QED BY <1>1, Invariance, PTL

\* Whatever is registered, created, deleted and reset in whatever order, no
\* number is a business and a customer at once.
THEOREM DisjointAlways == Spec => []NumbersDisjoint
<1>1. RInv => NumbersDisjoint
  BY DEF RInv
<1> QED BY <1>1, Invariance, PTL

\* The cascades leave no customer without a group, no rule without a customer
\* and no group without a tile.
THEOREM NoOrphansEver == Spec => []NoOrphans
<1>1. RInv => NoOrphans
  BY DEF RInv
<1> QED BY <1>1, Invariance, PTL

\* A generated phone_number_id is never given to another business number while
\* a stored conversation bears it.
THEOREM ConversationsKeepTheirBusiness == Spec => []OneBusinessPerConversation
<1>1. RInv => OneBusinessPerConversation
  BY DEF RInv
<1> QED BY <1>1, Invariance, PTL

\* While a group stays locked, none of its tiles comes or goes.
THEOREM LockedTilesStay == Spec => LockedGroupsKeepTiles
<1> DEFINE A == \A g \in locked \cap locked' : TilesOf(g)' = TilesOf(g)
<1>1. RInv /\ [Next]_vars => [A]_vars
  <2> SUFFICES ASSUME RInv, Next, NEW g \in locked, g \in locked'
               PROVE  TilesOf(g)' = TilesOf(g)
    BY DEF vars
  <2>1. CASE customers' = customers
    BY <2>1 DEF TilesOf
  <2>2. ASSUME NEW x \in Names, NEW nums \in SUBSET Numbers, CreateGroup(x, nums)
        PROVE  TilesOf(g)' = TilesOf(g)
    <3>1. \A n \in nums : n \notin DOMAIN customers
      BY <2>2 DEF CreateGroup, IsFree
    <3>2. g # Slug[x]
      BY <2>2 DEF CreateGroup, RInv, LockedExist
    <3>3. customers' = [n \in DOMAIN customers \cup nums |->
                           IF n \in nums THEN Slug[x] ELSE customers[n]]
      BY <2>2 DEF CreateGroup
    <3> QED BY <3>1, <3>2, <3>3 DEF TilesOf
  <2>3. ASSUME NEW h \in GroupIds, DeleteGroup(h)
        PROVE  TilesOf(g)' = TilesOf(g)
    <3>1. g # h
      BY <2>3 DEF DeleteGroup, Deletable
    <3>2. customers' = [n \in DOMAIN customers \ TilesOf(h) |-> customers[n]]
      BY <2>3 DEF DeleteGroup, Restrict
    <3> QED BY <3>1, <3>2 DEF TilesOf
  <2>4. ASSUME NEW keep \in BOOLEAN, Reset(keep)
        PROVE  TilesOf(g)' = TilesOf(g)
    <3>1. keep
      BY <2>4 DEF Reset
    <3> QED BY <3>1, <2>4, <2>1 DEF Reset, people
  <2>5. ASSUME NEW i \in PhoneIds, NEW d \in Numbers, Insert(i, d)
        PROVE  customers' = customers
    BY <2>5 DEF Insert, people
  <2>6. MockIds \subseteq PhoneIds /\ Supplied \subseteq PhoneIds
    BY DEF PhoneIds
  <2> QED BY <2>1, <2>2, <2>3, <2>4, <2>5, <2>6
          DEF Next, RegisterGenerated, RegisterSupplied, DeleteBusiness, Lock, Unlock,
              SetAutoReply, Accept, Inbound, Store, people
<1> QED BY <1>1, Invariance, PTL DEF Spec, LockedGroupsKeepTiles

\* Unless a registered phone_number_id is the display number of another
\* business, every stored message is filed under the id of its own business.
THEOREM FiledRight == Spec => FiledUnlessAmbiguous
<1> DEFINE A == \A m \in messages' \ messages :
                    Unambiguous => m.id \in Registered /\ businesses[m.id] = m.business
<1>1. RInv /\ [Next]_vars => [A]_vars
  <2> SUFFICES ASSUME RInv, Next, NEW m \in messages', m \notin messages, Unambiguous
               PROVE  m.id \in Registered /\ businesses[m.id] = m.business
    BY DEF vars
  <2>1. ASSUME NEW i \in Registered, NEW c, Store(i, c)
        PROVE  m.id \in Registered /\ businesses[m.id] = m.business
    <3>1. m.id = Filed(i) /\ m.business = businesses[i]
      BY <2>1 DEF Store
    <3>2. CASE businesses[i] \in Registered
      BY <3>1, <3>2, FiledRegistered DEF Unambiguous, RInv
    <3>3. CASE businesses[i] \notin Registered
      BY <3>1, <3>3, FiledRegistered DEF RInv
    <3> QED BY <3>2, <3>3
  <2>2. ASSUME NEW i, NEW c, Accept(i, c)
        PROVE  m.id \in Registered /\ businesses[m.id] = m.business
    BY <2>1, <2>2 DEF Accept
  <2>3. ASSUME NEW c, NEW key, Inbound(c, key)
        PROVE  m.id \in Registered /\ businesses[m.id] = m.business
    BY <2>1, <2>3, FindSound DEF Inbound
  <2>4. CASE messages' = messages \/ messages' = {}
    BY <2>4
  <2> QED BY <2>2, <2>3, <2>4
          DEF Next, RegisterGenerated, RegisterSupplied, Insert, DeleteBusiness, CreateGroup,
              DeleteGroup, Lock, Unlock, SetAutoReply, Reset
<1> QED BY <1>1, Invariance, PTL DEF Spec, FiledUnlessAmbiguous
===============================================================================
