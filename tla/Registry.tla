------------------------------- MODULE Registry -------------------------------
(***************************************************************************)
(* The registry (core/registry.ts) with the routes that write it            *)
(* (api/groups.route.ts, api/numbers.route.ts, api/autoreply.route.ts), and *)
(* the message store as far as it depends on the registry                   *)
(* (registry-adapter.ts, conversationFor of core/messages.ts): which        *)
(* business number a stored message is filed under.                         *)
(*                                                                         *)
(* Numbers are digit strings, cleaned of +, spaces and dashes.  A           *)
(* phone_number_id is either MOCK-PN-n, written n here, or any other string *)
(* a caller supplied, which may be a digit string too.                      *)
(***************************************************************************)
EXTENDS Integers, FiniteSets, Functions

CONSTANTS
    Numbers,        \* phone numbers: of businesses and of customers
    Supplied,       \* phone_number_ids that callers supply
    NoId,           \* no phone_number_id
    Names,          \* names for groups
    Slug,           \* the id of the group of a name
    MaxBusinesses,  \* the limit of registerBusinessNumber()
    MaxGroupSize,   \* MAX_GROUP_SIZE
    MaxMock,        \* bound: the highest n of a MOCK-PN-n
    MaxMessages     \* bound: rows in the store

MockIds == 1 .. MaxMock
PhoneIds == MockIds \cup Supplied
GroupIds == {Slug[x] : x \in Names}

\* A message row with its conversation (id and customer) and the business's
\* display number: all messages that agree in these are one row here.
MessageRows == [id : PhoneIds, customer : Numbers, business : Numbers]

ASSUME NumbersAssumption == Numbers \cap MockIds = {}
ASSUME NoIdAssumption == NoId \notin PhoneIds /\ NoId \notin Numbers
ASSUME BoundsAssumption == MaxMock \in Nat

VARIABLES
    businesses,     \* business_numbers: phone_number_id -> display number
    groups,         \* groups: id -> name
    customers,      \* customers: number -> group
    rules,          \* keyword_replies: the customers that have some
    locked,         \* the lock table, read by deleteGroup()
    messages,       \* conversations and messages
    chosen          \* history: the MOCK-PN ids that a caller has supplied

people == <<groups, customers, rules, locked>>
vars == <<businesses, people, messages, chosen>>

Nothing == [x \in {} |-> x]

Init ==
    /\ businesses = Nothing /\ groups = Nothing /\ customers = Nothing
    /\ rules = {} /\ locked = {} /\ messages = {}
    /\ chosen = {}

Registered == DOMAIN businesses

\* getBusiness(): SQLite answers the OR from the index of the first term first,
\* so a phone_number_id wins over another business's display number.
Find(key) ==
    IF key \in Registered THEN key
    ELSE IF \E i \in Registered : businesses[i] = key
         THEN CHOOSE i \in Registered : businesses[i] = key
         ELSE NoId

-----------------------------------------------------------------------------
UsedForgetsStore == MockIds \cap Registered                       \* mutant
\* The MOCK-PN ids in use or still borne by a conversation.
Used == MockIds \cap (Registered \cup {m.id : m \in messages})

\* nextMockPhoneNumberId(): one above the highest of those.
IsNextMock(n) ==
    /\ n \in MockIds
    /\ \A u \in Used : u < n
    /\ n = 1 \/ n - 1 \in Used

\* Neither a business (a test, and a UNIQUE column) nor a customer has the number.
Registrable(d) ==
    /\ \A i \in Registered : businesses[i] # d
    /\ d \notin DOMAIN customers

Insert(i, d) ==
    /\ Cardinality(Registered) < MaxBusinesses
    /\ Registrable(d)
    /\ businesses' = [j \in Registered \cup {i} |-> IF j = i THEN d ELSE businesses[j]]
    /\ UNCHANGED <<people, messages>>

\* POST /business-numbers without a phone_number_id, and with one.
RegisterGenerated(i, d) ==
    /\ IsNextMock(i)
    /\ Insert(i, d)
    /\ UNCHANGED chosen

RegisterSupplied(i, d) ==
    /\ i \in Supplied \ Registered
    /\ Insert(i, d)
    /\ chosen' = chosen \cup ({i} \cap MockIds)

DeleteBusiness(i) ==
    /\ i \in Registered
    /\ businesses' = Restrict(businesses, Registered \ {i})
    /\ UNCHANGED <<people, messages, chosen>>

-----------------------------------------------------------------------------
IsFreeIgnoresBusinesses(n) == n \notin DOMAIN customers           \* mutant
\* What createGroup() asks of each number: no customer, no business.
IsFree(n) == n \notin DOMAIN customers /\ Find(n) = NoId

\* POST /groups: the checks, then one transaction.  Id and name are UNIQUE.
CreateGroup(x, nums) ==
    /\ nums # {} /\ Cardinality(nums) <= MaxGroupSize
    /\ \A n \in nums : IsFree(n)
    /\ Slug[x] \notin DOMAIN groups
    /\ groups' = [g \in DOMAIN groups \cup {Slug[x]} |-> IF g = Slug[x] THEN x ELSE groups[g]]
    /\ customers' = [n \in DOMAIN customers \cup nums |->
                        IF n \in nums THEN Slug[x] ELSE customers[n]]
    /\ UNCHANGED <<businesses, rules, locked, messages, chosen>>

TilesOf(g) == {n \in DOMAIN customers : customers[n] = g}

Deletable(g) == g \in DOMAIN groups \ locked

RulesSurvive(g) == rules                                          \* mutant
\* ON DELETE CASCADE from groups to customers to keyword_replies.
RulesWithout(g) == rules \ TilesOf(g)

DeleteGroup(g) ==
    /\ Deletable(g)
    /\ groups' = Restrict(groups, DOMAIN groups \ {g})
    /\ customers' = Restrict(customers, DOMAIN customers \ TilesOf(g))
    /\ rules' = RulesWithout(g)
    /\ UNCHANGED <<businesses, locked, messages, chosen>>

\* setAutoReply(): the old rules go, the new ones (if any) come.
SetAutoReply(n, some) ==
    /\ n \in DOMAIN customers
    /\ rules' = IF some THEN rules \cup {n} ELSE rules \ {n}
    /\ UNCHANGED <<businesses, groups, customers, locked, messages, chosen>>

\* A session takes or gives back the lock of a group (module Sessions).
Lock(g) ==
    /\ g \in DOMAIN groups \ locked
    /\ locked' = locked \cup {g}
    /\ UNCHANGED <<businesses, groups, customers, rules, messages, chosen>>

Unlock(g) ==
    /\ g \in locked
    /\ locked' = locked \ {g}
    /\ UNCHANGED <<businesses, groups, customers, rules, messages, chosen>>

-----------------------------------------------------------------------------
FiledByDisplay(i) == businesses[i]                                \* mutant
\* storeMessage() of the adapter turns the id into the display number, and
\* conversationFor() turns that back into an id.
Filed(i) == Find(businesses[i])

Store(i, c) ==
    /\ messages' = messages \cup
           {[id |-> Filed(i), customer |-> c, business |-> businesses[i]]}
    /\ Cardinality(messages') <= MaxMessages
    /\ UNCHANGED <<businesses, people, chosen>>

\* A valid send: the path holds a phone_number_id, the recipient is a customer.
Accept(i, c) ==
    /\ i \in Registered /\ c \in DOMAIN customers
    /\ Store(i, c)

\* inbound(): the business is given by id or by display number.
Inbound(c, key) ==
    /\ c \in DOMAIN customers /\ Find(key) # NoId
    /\ Store(Find(key), c)

\* resetAll(), and the sessions it disconnects give their locks back.
Reset(keep) ==
    /\ messages' = {}
    /\ IF keep
       THEN UNCHANGED <<businesses, people, chosen>>
       ELSE /\ businesses' = Nothing /\ groups' = Nothing /\ customers' = Nothing
            /\ rules' = {} /\ locked' = {} /\ chosen' = {}

Next ==
    \/ \E i \in MockIds, d \in Numbers : RegisterGenerated(i, d)
    \/ \E i \in Supplied, d \in Numbers : RegisterSupplied(i, d)
    \/ \E i \in PhoneIds : DeleteBusiness(i)
    \/ \E x \in Names, nums \in SUBSET Numbers : CreateGroup(x, nums)
    \/ \E g \in GroupIds : DeleteGroup(g) \/ Lock(g) \/ Unlock(g)
    \/ \E n \in Numbers, some \in BOOLEAN : SetAutoReply(n, some)
    \/ \E i \in PhoneIds, c \in Numbers : Accept(i, c)
    \/ \E c \in Numbers, key \in PhoneIds \cup Numbers : Inbound(c, key)
    \/ \E keep \in BOOLEAN : Reset(keep)

Spec == Init /\ [][Next]_vars

-----------------------------------------------------------------------------
\* The tables have their columns, and no two businesses one display number.
TypeOK ==
    /\ businesses \in [Registered -> Numbers] /\ Registered \subseteq PhoneIds
    /\ \A i, j \in Registered : businesses[i] = businesses[j] => i = j
    /\ groups \in [DOMAIN groups -> Names] /\ DOMAIN groups \subseteq GroupIds
    /\ customers \in [DOMAIN customers -> GroupIds] /\ DOMAIN customers \subseteq Numbers
    /\ rules \subseteq Numbers /\ locked \subseteq GroupIds
    /\ messages \subseteq MessageRows
    /\ chosen \subseteq MockIds

\* No number is a business and a customer at once, whichever of the two was
\* registered first: a send would come back to its sender as an inbound message.
NumbersDisjoint == \A i \in Registered : businesses[i] \notin DOMAIN customers

\* No customer outlives its group and no rule its customer, so a number that
\* joins a new group does not answer by the rules of its former life; and a
\* group always has a tile.
NoOrphans ==
    /\ \A n \in DOMAIN customers : customers[n] \in DOMAIN groups
    /\ rules \subseteq DOMAIN customers
    /\ \A g \in DOMAIN groups : TilesOf(g) # {}

\* A conversation under a generated phone_number_id holds the messages of one
\* business number: a deleted number's id does not come back for another while
\* the store (and Comdove) still has its conversations.
OneBusinessPerConversation ==
    \A m, k \in messages :
        (m.id = k.id /\ m.id \in MockIds \ chosen) => m.business = k.business

\* The tiles of a group are those it was claimed with as long as it is locked.
LockedGroupsKeepTiles ==
    [][\A g \in locked \cap locked' : TilesOf(g)' = TilesOf(g)]_vars

\* A phone_number_id that is the display number of another business makes the
\* way back to the id ambiguous.
Unambiguous == \A i, j \in Registered : businesses[j] = i => i = j

\* A message is filed under the phone_number_id of the business that sends or
\* gets it, since webhooks and reads go by that id, unless a phone_number_id is
\* the display number of another business.
FiledUnlessAmbiguous ==
    [][\A m \in messages' \ messages :
            Unambiguous => m.id \in Registered /\ businesses[m.id] = m.business]_vars
===============================================================================
