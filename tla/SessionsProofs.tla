----------------------------- MODULE SessionsProofs -----------------------------
(***************************************************************************)
(* Proofs about Sessions.  The inductive invariant SInv ties the lock table *)
(* and the session index to the roles of the sessions that have not closed, *)
(* and the state of each socket to whether its session has closed: a        *)
(* session that may still claim must be known not to have closed.           *)
(***************************************************************************)
EXTENDS Sessions, TLAPS

\* Where a socket stands says what its session may be.
SocketsAgree ==
    \A s \in Conns :
        /\ sock[s] = "new" => (role[s] = NoRole /\ s \notin closed)
        /\ sock[s] = "open" => s \notin closed
        /\ sock[s] = "closing" => (s \in closed /\ role[s] \in Groups)
        /\ sock[s] = "gone" => (s \in closed \/ role[s] = NoRole)

SInv ==
    /\ TypeOK
    /\ LockMatchesRole
    /\ IndexMirrorsLock
    /\ LockedGroupsExist
    /\ FeedIsOpenAdmins
    /\ SocketsAgree

-----------------------------------------------------------------------------
LEMMA SInvInit == Init => SInv
<1> SUFFICES ASSUME Init PROVE SInv
    OBVIOUS
<1>1. TypeOK
    BY DEF Init, TypeOK, SocketStates, ListsType, NoLists
<1>2. LockMatchesRole /\ FeedIsOpenAdmins
    BY NamesAssumption DEF Init, LockMatchesRole, FeedIsOpenAdmins
<1>3. IndexMirrorsLock /\ LockedGroupsExist /\ SocketsAgree
    BY DEF Init, IndexMirrorsLock, LockedGroupsExist, SocketsAgree
<1> QED
    BY <1>1, <1>2, <1>3 DEF SInv

\* What session.close() does to the tables, for any set of sessions.
LEMMA LeaveFacts ==
    ASSUME SInv, NEW S \in SUBSET Conns, Leave(S), role' = role
    PROVE  /\ LockMatchesRole'
           /\ IndexMirrorsLock'
           /\ FeedIsOpenAdmins'
           /\ lock' \in [Groups -> Conns \cup {Free}]
           /\ index' \in [Groups -> Conns \cup {Free}]
           /\ closed' \in SUBSET Conns
           /\ feed' \in SUBSET Conns
           /\ \A g \in Groups : lock'[g] = Free \/ lock'[g] = lock[g]
           /\ \A g \in Groups : index[g] \in S => lock'[g] = Free
<1> USE NamesAssumption
<1>1. \A g \in Groups : lock'[g] = IF lock[g] \in S \ closed /\ role[lock[g]] = g
                                   THEN Free ELSE lock[g]
    BY DEF Leave, Released, Leaving
<1>2. /\ lock' \in [Groups -> Conns \cup {Free}]
      /\ index' \in [Groups -> Conns \cup {Free}]
    BY DEF SInv, TypeOK, Leave, Released, Unindexed, Leaving
<1>3. IndexMirrorsLock'
    BY DEF SInv, IndexMirrorsLock, Leave, Released, Unindexed
<1>4. \A g \in Groups, s \in Conns : lock[g] = s <=> (role[s] = g /\ s \notin closed)
    BY DEF SInv, LockMatchesRole
<1>5. \A g \in Groups : lock[g] \in Conns \cup {Free}
    BY DEF SInv, TypeOK
<1>6. LockMatchesRole'
    BY <1>1, <1>4, <1>5 DEF LockMatchesRole, Leave
<1>7. closed' \in SUBSET Conns /\ feed' \in SUBSET Conns
    BY DEF SInv, TypeOK, Leave, Unsubscribed
<1>8. FeedIsOpenAdmins'
    BY DEF SInv, FeedIsOpenAdmins, Leave, Unsubscribed, Leaving
<1>9. \A g \in Groups : index[g] \in S => lock'[g] = Free
  <2> SUFFICES ASSUME NEW g \in Groups, index[g] \in S PROVE lock'[g] = Free
      OBVIOUS
  <2>1. lock[g] = index[g] /\ lock[g] \in S
      BY DEF SInv, IndexMirrorsLock
  <2>2. role[lock[g]] = g /\ lock[g] \notin closed
      BY <1>4, <2>1
  <2> QED
      BY <1>1, <2>1, <2>2
<1> QED
    BY <1>1, <1>2, <1>3, <1>6, <1>7, <1>8, <1>9

LEMMA TellType ==
    ASSUME SInv, Tell, lock' \in [Groups -> Conns \cup {Free}], exists' \in SUBSET Groups
    PROVE  shown' \in [Conns -> ListsType] /\ missed' \in BOOLEAN
BY DEF SInv, TypeOK, Tell, Lists, ListsType

\* The close event, an error or a closed tab of one session.
LEMMA CloseKeepsSInv ==
    ASSUME SInv, NEW s \in Conns, CloseSession(s),
           NEW st \in {"ending", "gone"}, sock' = [sock EXCEPT ![s] = st],
           alive' \in [Conns -> BOOLEAN],
           UNCHANGED <<peer, role, exists, actor>>
    PROVE  SInv'
<1>1. Leave({s})
    BY DEF CloseSession
<1>2. /\ LockMatchesRole' /\ IndexMirrorsLock' /\ FeedIsOpenAdmins'
      /\ lock' \in [Groups -> Conns \cup {Free}]
      /\ index' \in [Groups -> Conns \cup {Free}]
      /\ closed' \in SUBSET Conns /\ feed' \in SUBSET Conns
      /\ \A g \in Groups : lock'[g] = Free \/ lock'[g] = lock[g]
    BY <1>1, LeaveFacts
<1>3. exists' \in SUBSET Groups
    BY DEF SInv, TypeOK
<1>4. shown' \in [Conns -> ListsType] /\ missed' \in BOOLEAN
    BY <1>2, <1>3, TellType DEF CloseSession, SInv, TypeOK
<1>5. TypeOK'
    BY <1>2, <1>3, <1>4 DEF SInv, TypeOK, SocketStates
<1>6. LockedGroupsExist'
    BY <1>2 DEF SInv, LockedGroupsExist
<1>7. closed' = closed \cup {s}
    BY <1>1 DEF Leave
<1>8. SocketsAgree'
    BY <1>7 DEF SInv, TypeOK, SocketsAgree
<1> QED
    BY <1>2, <1>5, <1>6, <1>8 DEF SInv

LEMMA ClaimKeepsSInv ==
    ASSUME SInv, NEW s \in Conns, NEW g \in Groups, NEW ok \in BOOLEAN, Claim(s, g, ok)
    PROVE  SInv'
<1> USE NamesAssumption
<1>1. /\ lock' = [lock EXCEPT ![g] = s] /\ index' = [index EXCEPT ![g] = s]
      /\ role' = [role EXCEPT ![s] = g] /\ role[s] = NoRole
      /\ lock[g] = Free /\ g \in exists
      /\ UNCHANGED <<sock, peer, alive, closed, feed, exists, actor>>
    BY DEF Claim, Taken, LockIsFree, sockets
<1>2. sock[s] \in {"open", "closing"}
    BY DEF Claim, CanSpeak
<1>3. sock[s] = "open" /\ s \notin closed
    BY <1>1, <1>2 DEF SInv, SocketsAgree
<1>4. /\ lock' \in [Groups -> Conns \cup {Free}] /\ index' \in [Groups -> Conns \cup {Free}]
      /\ role' \in [Conns -> Groups \cup {NoRole, Admin}] /\ exists' \in SUBSET Groups
    BY <1>1 DEF SInv, TypeOK
<1>5. shown' \in [Conns -> ListsType] /\ missed' \in BOOLEAN
    BY <1>4, TellType DEF Claim, SInv, TypeOK
<1>6. TypeOK'
    BY <1>1, <1>4, <1>5 DEF SInv, TypeOK
<1>7. LockMatchesRole'
    BY <1>1, <1>3 DEF SInv, TypeOK, LockMatchesRole
<1>8. IndexMirrorsLock' /\ LockedGroupsExist'
    BY <1>1 DEF SInv, TypeOK, IndexMirrorsLock, LockedGroupsExist
<1>9. FeedIsOpenAdmins'
    BY <1>1 DEF SInv, TypeOK, FeedIsOpenAdmins
<1>10. SocketsAgree'
    BY <1>1, <1>3 DEF SInv, TypeOK, SocketsAgree
<1> QED
    BY <1>6, <1>7, <1>8, <1>9, <1>10 DEF SInv

LEMMA SubscribeKeepsSInv ==
    ASSUME SInv, NEW s \in Conns, Subscribe(s)
    PROVE  SInv'
<1> USE NamesAssumption
<1>1. /\ role' = [role EXCEPT ![s] = Admin] /\ role[s] = NoRole
      /\ feed' = feed \cup {s}
      /\ UNCHANGED <<sock, peer, alive, closed, lock, index, missed, exists, actor>>
    BY DEF Subscribe, sockets, tables
<1>2. sock[s] = "open" /\ s \notin closed
    BY <1>1 DEF Subscribe, CanSpeak, SInv, SocketsAgree
<1>3. Lists \in ListsType
    BY DEF SInv, TypeOK, Lists, ListsType
<1>4. shown' \in [Conns -> ListsType]
    BY <1>3 DEF Subscribe, SInv, TypeOK
<1>5. TypeOK'
    BY <1>1, <1>4 DEF SInv, TypeOK
<1>6. LockMatchesRole' /\ FeedIsOpenAdmins' /\ SocketsAgree'
    BY <1>1, <1>2 DEF SInv, TypeOK, LockMatchesRole, FeedIsOpenAdmins, SocketsAgree
<1>7. IndexMirrorsLock' /\ LockedGroupsExist'
    BY <1>1 DEF SInv, IndexMirrorsLock, LockedGroupsExist
<1> QED
    BY <1>5, <1>6, <1>7 DEF SInv

\* What only moves sockets, and moves none into a state that says more about its
\* session than the one it left.
LEMMA SocketStepKeepsSInv ==
    ASSUME SInv, sock' \in [Conns -> SocketStates],
           peer' \in [Conns -> {"up", "dead"}], alive' \in [Conns -> BOOLEAN],
           \A s \in Conns : \/ sock'[s] = sock[s]
                            \/ sock'[s] = "ending"
                            \/ sock[s] = "new" /\ sock'[s] = "open",
           actor' \in Conns \cup {Free},
           UNCHANGED <<role, closed, tables, admins, exists>>
    PROVE  SInv'
<1>1. TypeOK'
    BY DEF SInv, TypeOK, tables, admins
<1>2. LockMatchesRole' /\ IndexMirrorsLock' /\ LockedGroupsExist' /\ FeedIsOpenAdmins'
    BY DEF SInv, LockMatchesRole, IndexMirrorsLock, LockedGroupsExist, FeedIsOpenAdmins,
           tables, admins
<1>3. SocketsAgree'
    BY DEF SInv, SocketsAgree
<1> QED
    BY <1>1, <1>2, <1>3 DEF SInv

LEMMA GroupTableKeepsSInv ==
    ASSUME SInv, exists' \in SUBSET Groups,
           \A g \in Groups : lock[g] # Free => g \in exists',
           UNCHANGED <<sockets, role, closed, tables, feed, actor>>,
           Tell
    PROVE  SInv'
<1>1. lock' = lock /\ lock' \in [Groups -> Conns \cup {Free}]
    BY DEF SInv, TypeOK, tables
<1>2. shown' \in [Conns -> ListsType] /\ missed' \in BOOLEAN
    BY <1>1, TellType
<1>3. TypeOK'
    BY <1>2 DEF SInv, TypeOK, sockets, tables
<1>4. LockedGroupsExist'
    BY <1>1 DEF LockedGroupsExist
<1>5. LockMatchesRole' /\ IndexMirrorsLock' /\ FeedIsOpenAdmins' /\ SocketsAgree'
    BY DEF SInv, LockMatchesRole, IndexMirrorsLock, FeedIsOpenAdmins, SocketsAgree,
           sockets, tables
<1> QED
    BY <1>3, <1>4, <1>5 DEF SInv

LEMMA ResetKeepsSInv ==
    ASSUME SInv, NEW keep \in BOOLEAN, Reset(keep)
    PROVE  SInv'
<1> DEFINE kept == IF keep THEN exists ELSE {}
           out == {s \in Conns : \E g \in Groups \ kept : index[g] = s}
<1> USE NamesAssumption
<1>1. /\ exists' = kept /\ Leave(out) /\ Tell
      /\ sock' = [s \in Conns |-> IF s \in out /\ sock[s] = "open" THEN "closing" ELSE sock[s]]
      /\ UNCHANGED <<peer, alive, role, actor>>
    BY DEF Reset
<1>2. out \in SUBSET Conns
    OBVIOUS
<1>3. /\ LockMatchesRole' /\ IndexMirrorsLock' /\ FeedIsOpenAdmins'
      /\ lock' \in [Groups -> Conns \cup {Free}]
      /\ index' \in [Groups -> Conns \cup {Free}]
      /\ closed' \in SUBSET Conns /\ feed' \in SUBSET Conns
      /\ \A g \in Groups : lock'[g] = Free \/ lock'[g] = lock[g]
      /\ \A g \in Groups : index[g] \in out => lock'[g] = Free
    BY <1>1, <1>2, LeaveFacts
<1>4. exists' \in SUBSET Groups
    BY <1>1 DEF SInv, TypeOK
<1>5. shown' \in [Conns -> ListsType] /\ missed' \in BOOLEAN
    BY <1>1, <1>3, <1>4, TellType
<1>6. TypeOK'
    BY <1>1, <1>3, <1>4, <1>5 DEF SInv, TypeOK, SocketStates
<1>7. LockedGroupsExist'
  <2> SUFFICES ASSUME NEW g \in Groups, lock'[g] # Free PROVE g \in kept
      BY <1>1 DEF LockedGroupsExist
  <2>1. index[g] \in Conns /\ index[g] \notin out
      BY <1>3 DEF SInv, TypeOK, IndexMirrorsLock
  <2> QED
      BY <2>1
<1>8. \A s \in out : s \notin closed /\ role[s] \in Groups
    BY DEF SInv, LockMatchesRole, IndexMirrorsLock
<1>9. closed' = closed \cup out
    BY <1>1 DEF Leave
<1>10. \A s \in Conns : sock'[s] = IF s \in out /\ sock[s] = "open" THEN "closing" ELSE sock[s]
    BY <1>1
<1>11. SocketsAgree'
    BY <1>1, <1>8, <1>9, <1>10 DEF SInv, SocketsAgree
<1> QED
    BY <1>3, <1>6, <1>7, <1>11 DEF SInv

LEMMA CrashKeepsSInv ==
    ASSUME SInv, Crash
    PROVE  SInv'
<1>1. TypeOK'
    BY DEF SInv, TypeOK, Crash, SocketStates, ListsType, NoLists
<1>2. LockMatchesRole' /\ FeedIsOpenAdmins'
    BY NamesAssumption DEF Crash, LockMatchesRole, FeedIsOpenAdmins
<1>3. IndexMirrorsLock' /\ LockedGroupsExist' /\ SocketsAgree'
    BY DEF Crash, IndexMirrorsLock, LockedGroupsExist, SocketsAgree
<1> QED
    BY <1>1, <1>2, <1>3 DEF SInv

LEMMA SInvNext == SInv /\ [Next]_vars => SInv'
<1> SUFFICES ASSUME SInv, [Next]_vars PROVE SInv'
    OBVIOUS
<1>1. CASE \E s \in Conns : Connect(s)
    BY <1>1, SocketStepKeepsSInv DEF Connect, SInv, TypeOK, SocketStates
<1>2. CASE \E s \in Conns, g \in Groups, ok \in BOOLEAN : Claim(s, g, ok)
    BY <1>2, ClaimKeepsSInv
<1>3. CASE \E s \in Conns : Subscribe(s)
    BY <1>3, SubscribeKeepsSInv
<1>4. CASE \E s \in Conns : GroupFrame(s)
    BY <1>4, SocketStepKeepsSInv DEF GroupFrame, SInv, TypeOK, sockets
<1>5. CASE \E s \in Conns : TabCloses(s)
  <2> PICK s \in Conns : TabCloses(s)
      BY <1>5
  <2>1. alive' \in [Conns -> BOOLEAN]
      BY DEF TabCloses, Forget, SInv, TypeOK
  <2> QED
      BY <2>1, CloseKeepsSInv DEF TabCloses, Forget
<1>6. CASE \E s \in Conns : SocketFails(s)
  <2> PICK s \in Conns : SocketFails(s)
      BY <1>6
  <2>1. alive' \in [Conns -> BOOLEAN]
      BY DEF SocketFails, SInv, TypeOK
  <2> QED
      BY <2>1, CloseKeepsSInv DEF SocketFails
<1>7. CASE \E s \in Conns : SocketCloses(s)
  <2> PICK s \in Conns : SocketCloses(s)
      BY <1>7
  <2>1. alive' \in [Conns -> BOOLEAN]
      BY DEF SocketCloses, Forget, SInv, TypeOK
  <2> QED
      BY <2>1, CloseKeepsSInv DEF SocketCloses, Forget
<1>8. CASE \E s \in Conns : PeerDies(s)
    BY <1>8, SocketStepKeepsSInv DEF PeerDies, SInv, TypeOK
<1>9. CASE \E s \in Conns : Pong(s)
    BY <1>9, SocketStepKeepsSInv DEF Pong, SInv, TypeOK
<1>10. CASE Heartbeat
  <2>1. sock' \in [Conns -> SocketStates] /\ alive' \in [Conns -> BOOLEAN]
      BY <1>10 DEF Heartbeat, Pinged, SInv, TypeOK, SocketStates
  <2>2. \A s \in Conns : sock'[s] = sock[s] \/ sock'[s] = "ending"
      BY <1>10 DEF Heartbeat
  <2> QED
      BY <1>10, <2>1, <2>2, SocketStepKeepsSInv DEF Heartbeat, SInv, TypeOK
<1>11. CASE \E g \in Groups : CreateGroup(g)
    BY <1>11, GroupTableKeepsSInv DEF CreateGroup, SInv, TypeOK, LockedGroupsExist
<1>12. CASE \E g \in Groups : DeleteGroup(g)
    BY <1>12, GroupTableKeepsSInv DEF DeleteGroup, Deletable, SInv, TypeOK, LockedGroupsExist
<1>13. CASE \E keep \in BOOLEAN : Reset(keep)
    BY <1>13, ResetKeepsSInv
<1>14. CASE Crash
    BY <1>14, CrashKeepsSInv
<1>15. CASE UNCHANGED vars
    BY <1>15, SocketStepKeepsSInv DEF vars, sockets, SInv, TypeOK
<1> QED
    BY <1>1, <1>2, <1>3, <1>4, <1>5, <1>6, <1>7, <1>8, <1>9, <1>10, <1>11, <1>12,
       <1>13, <1>14, <1>15 DEF Next

LEMMA SInvAlways == Spec => []SInv
BY SInvInit, SInvNext, PTL DEF Spec

-----------------------------------------------------------------------------
\* Every variable of the /ws endpoint keeps its type, for any number of groups
\* and sockets.
THEOREM SessionTypesCorrect == Spec => []TypeOK
<1>1. SInv => TypeOK
    BY DEF SInv
<1> QED
    BY <1>1, SInvAlways, PTL

\* session.ts and lock.ts: a session has the role of a group and has not closed
\* exactly when the lock table names it as the owner, so a group never has two.
THEOREM LockMatchesRoleHolds == Spec => []LockMatchesRole
<1>1. SInv => LockMatchesRole
    BY DEF SInv
<1> QED
    BY <1>1, SInvAlways, PTL

\* live.ts: the index that delivery and the bus use names the owner of the lock.
THEOREM IndexMirrorsLockHolds == Spec => []IndexMirrorsLock
<1>1. SInv => IndexMirrorsLock
    BY DEF SInv
<1> QED
    BY <1>1, SInvAlways, PTL

\* registry.ts deleteGroup and live.ts reset: a locked group exists.
THEOREM LockedGroupsExistHolds == Spec => []LockedGroupsExist
<1>1. SInv => LockedGroupsExist
    BY DEF SInv
<1> QED
    BY <1>1, SInvAlways, PTL

\* admin-feed.ts: the feed is the set of open admin sessions.
THEOREM FeedIsOpenAdminsHolds == Spec => []FeedIsOpenAdmins
<1>1. SInv => FeedIsOpenAdmins
    BY DEF SInv
<1> QED
    BY <1>1, SInvAlways, PTL

\* ws/server.ts: no lock outlives the last event of its owner's socket.
THEOREM NeverWedgedHolds == Spec => []NeverWedged
<1>1. SInv => NeverWedged
  <2> SUFFICES ASSUME SInv, NEW g \in Groups, lock[g] # Free
               PROVE  sock[lock[g]] \in {"open", "ending"}
      BY DEF NeverWedged
  <2>1. lock[g] \in Conns /\ sock[lock[g]] \in SocketStates
      BY DEF SInv, TypeOK
  <2>2. role[lock[g]] = g /\ lock[g] \notin closed
      BY <2>1 DEF SInv, LockMatchesRole
  <2> QED
      BY <2>1, <2>2, NamesAssumption DEF SInv, SocketsAgree, SocketStates
<1> QED
    BY <1>1, SInvAlways, PTL

\* group-events.ts: the frames of an open socket act on tiles only under the lock.
THEOREM OpenSessionActsAsHolderHolds == Spec => OpenSessionActsAsHolder
<1> DEFINE Acts == (actor' # actor /\ sock[actor'] = "open") => lock[role[actor']] = actor'
<1>1. SInv /\ [Next]_vars => [Acts]_vars
  <2> SUFFICES ASSUME SInv, Next PROVE Acts
      OBVIOUS
  <2>1. CASE \E s \in Conns : GroupFrame(s)
    <3> PICK s \in Conns : GroupFrame(s)
        BY <2>1
    <3>1. actor' = s /\ role[s] \in Groups
        BY DEF GroupFrame, SInv, TypeOK
    <3> QED
        BY <3>1 DEF SInv, SocketsAgree, LockMatchesRole
  <2>2. CASE ~\E s \in Conns : GroupFrame(s)
    <3>1. actor' = actor
        BY <2>2 DEF Next, Connect, Claim, Subscribe, TabCloses, SocketFails, SocketCloses,
              PeerDies, Pong, Heartbeat, CreateGroup, DeleteGroup, Reset, Crash
    <3> QED
        BY <3>1
  <2> QED
      BY <2>1, <2>2
<1> QED
    BY <1>1, SInvAlways, PTL DEF Spec, OpenSessionActsAsHolder
-----------------------------------------------------------------------------
\* The lists of the sockets in the feed: with FeedIsOpenAdmins, AdminListsCurrent.
FeedListsCurrent == missed \/ \A a \in feed : sock[a] = "open" => shown[a] = Lists

\* Sent lists are current.
LEMMA TellMakesCurrent ==
    ASSUME SInv, Tell, feed' \in SUBSET Conns,
           \A a \in Conns : sock'[a] = "open" => sock[a] = "open"
    PROVE  FeedListsCurrent'
<1> SUFFICES ASSUME NEW a \in feed', sock'[a] = "open" PROVE shown'[a] = Lists'
    BY DEF FeedListsCurrent
<1> QED
    BY DEF Tell

\* Unsent lists stay current when they do not change.
LEMMA SilenceKeepsCurrent ==
    ASSUME FeedListsCurrent, UNCHANGED <<lock, exists, shown, missed>>,
           feed' \subseteq feed,
           \A a \in feed : sock'[a] = "open" => sock[a] = "open"
    PROVE  FeedListsCurrent'
<1>1. Lists' = Lists
    BY DEF Lists
<1> QED
    BY <1>1 DEF FeedListsCurrent

LEMMA CloseKeepsCurrent ==
    ASSUME SInv, FeedListsCurrent, NEW s \in Conns, CloseSession(s),
           UNCHANGED <<role, exists>>,
           \A a \in Conns : sock'[a] = "open" => sock[a] = "open"
    PROVE  FeedListsCurrent'
<1>1. Leave({s})
    BY DEF CloseSession
<1>2. feed' \in SUBSET Conns /\ feed' \subseteq feed /\ feed \subseteq Conns
    BY <1>1 DEF Leave, Unsubscribed, SInv, TypeOK
<1>3. CASE s \notin closed /\ role[s] \in Groups
    BY <1>2, <1>3, TellMakesCurrent DEF CloseSession
<1>4. CASE ~(s \notin closed /\ role[s] \in Groups)
  <2>1. UNCHANGED <<shown, missed>>
      BY <1>4 DEF CloseSession
  <2>2. lock \in [Groups -> Conns \cup {Free}]
      BY DEF SInv, TypeOK
  <2>3. Released({s}) = lock
    <3>1. \A g \in Groups : ~(lock[g] \in Leaving({s}) /\ role[lock[g]] = g)
        BY <1>4 DEF Leaving
    <3>2. Released({s}) = [g \in Groups |-> lock[g]]
        BY <3>1 DEF Released
    <3> QED
        BY <2>2, <3>2
  <2>4. lock' = lock
      BY <1>1, <2>3 DEF Leave
  <2> QED
      BY <1>2, <2>1, <2>4, SilenceKeepsCurrent
<1> QED
    BY <1>3, <1>4

LEMMA CurrentNext == SInv /\ FeedListsCurrent /\ [Next]_vars => FeedListsCurrent'
<1> SUFFICES ASSUME SInv, FeedListsCurrent, [Next]_vars PROVE FeedListsCurrent'
    OBVIOUS
<1>0. feed \subseteq Conns
    BY DEF SInv, TypeOK
<1>1. CASE \E s \in Conns : Connect(s)
  <2> PICK s \in Conns : Connect(s)
      BY <1>1
  <2>1. s \notin feed
      BY NamesAssumption DEF Connect, SInv, SocketsAgree, FeedIsOpenAdmins
  <2>2. \A a \in feed : sock'[a] = sock[a]
      BY <1>0, <2>1 DEF Connect, SInv, TypeOK
  <2> QED
      BY <2>2, SilenceKeepsCurrent DEF Connect, tables, admins
<1>2. CASE \E s \in Conns, g \in Groups, ok \in BOOLEAN : Claim(s, g, ok)
  <2> PICK s \in Conns, g \in Groups, ok \in BOOLEAN : Claim(s, g, ok)
      BY <1>2
  <2>1. CASE ok
      BY <1>0, <2>1, TellMakesCurrent DEF Claim, sockets
  <2>2. CASE ~ok
      BY <2>2 DEF Claim, FeedListsCurrent
  <2> QED
      BY <2>1, <2>2
<1>3. CASE \E s \in Conns : Subscribe(s)
  <2> PICK s \in Conns : Subscribe(s)
      BY <1>3
  <2>1. Lists' = Lists
      BY DEF Subscribe, tables, Lists
  <2>2. shown \in [Conns -> ListsType] /\ UNCHANGED <<sock, missed>> /\ feed' = feed \cup {s}
      BY DEF Subscribe, sockets, SInv, TypeOK
  <2>3. \A a \in Conns : shown'[a] = IF a = s /\ sock[s] = "open" THEN Lists ELSE shown[a]
      BY <2>2 DEF Subscribe
  <2> QED
      BY <1>0, <2>1, <2>2, <2>3 DEF FeedListsCurrent
<1>4. CASE \E s \in Conns : GroupFrame(s) \/ PeerDies(s) \/ Pong(s)
    BY <1>4, SilenceKeepsCurrent DEF GroupFrame, PeerDies, Pong, sockets, tables, admins
<1>5. CASE \E s \in Conns : TabCloses(s)
    BY <1>5, CloseKeepsCurrent DEF TabCloses, Forget, SInv, TypeOK
<1>6. CASE \E s \in Conns : SocketFails(s)
    BY <1>6, CloseKeepsCurrent DEF SocketFails, SInv, TypeOK
<1>7. CASE \E s \in Conns : SocketCloses(s)
    BY <1>7, CloseKeepsCurrent DEF SocketCloses, Forget, SInv, TypeOK
<1>8. CASE Heartbeat
  <2>1. \A a \in Conns : sock'[a] = "open" => sock[a] = "open"
      BY <1>8 DEF Heartbeat
  <2> QED
      BY <1>0, <1>8, <2>1, SilenceKeepsCurrent DEF Heartbeat, tables, admins
<1>9. CASE \E g \in Groups : CreateGroup(g) \/ DeleteGroup(g)
    BY <1>0, <1>9, TellMakesCurrent DEF CreateGroup, DeleteGroup, sockets
<1>10. CASE \E keep \in BOOLEAN : Reset(keep)
  <2> PICK keep \in BOOLEAN : Reset(keep)
      BY <1>10
  <2>1. \A a \in Conns : sock'[a] = "open" => sock[a] = "open"
      BY DEF Reset
  <2>2. feed' \in SUBSET Conns
      BY <1>0 DEF Reset, Leave, Unsubscribed
  <2> QED
      BY <2>1, <2>2, TellMakesCurrent DEF Reset
<1>11. CASE Crash
    BY <1>11 DEF Crash, FeedListsCurrent
<1>12. CASE UNCHANGED vars
    BY <1>12, SilenceKeepsCurrent DEF vars, sockets, tables, admins
<1> QED
    BY <1>1, <1>2, <1>3, <1>4, <1>5, <1>6, <1>7, <1>8, <1>9, <1>10, <1>11, <1>12 DEF Next

\* admin-feed.ts: an open admin page shows the groups and their locks as they
\* are, unless a claim failed half-way since the lists were last sent.
THEOREM AdminListsCurrentHolds == Spec => []AdminListsCurrent
<1>1. Init => FeedListsCurrent
    BY DEF Init, FeedListsCurrent
<1>2. SInv /\ FeedListsCurrent => AdminListsCurrent
    BY DEF SInv, FeedIsOpenAdmins, FeedListsCurrent, AdminListsCurrent
<1> QED
    BY <1>1, <1>2, CurrentNext, SInvAlways, PTL DEF Spec
===============================================================================
