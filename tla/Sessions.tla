------------------------------- MODULE Sessions -------------------------------
(***************************************************************************)
(* The /ws endpoint: sockets and heartbeat (ws/server.ts), one session per  *)
(* socket (ws/session.ts), the lock table (ws/lock.ts), the session index   *)
(* (ws/session-index.ts), the lists of the admin feed (ws/admin-feed.ts),   *)
(* the hooks that join them (live.ts), and the operations of the registry   *)
(* that read the lock (core/registry.ts).                                   *)
(*                                                                         *)
(* Every action is one callback of the server.  What interleaves is frames, *)
(* pongs, heartbeat ticks, socket events, HTTP requests, and the death of   *)
(* the browser or of the process.                                           *)
(***************************************************************************)
EXTENDS FiniteSets

CONSTANTS
    Groups,     \* group slugs
    Conns,      \* sockets; each connects at most once
    Free,       \* the owner of an unlocked group
    NoRole,     \* a session that has not claimed or subscribed yet
    Admin       \* the role of an admin feed

ASSUME NamesAssumption ==
    /\ Free \notin Conns
    /\ NoRole \notin Groups /\ Admin \notin Groups /\ NoRole # Admin

\* new: not connected yet.  closing: the server has asked for the close, the
\* peer's frames still come in.  ending: terminated or failed, only the close
\* event is left.  gone: the close event has been handled.
SocketStates == {"new", "open", "closing", "ending", "gone"}

VARIABLES
    sock, peer,     \* the socket, and the browser at its other end
    alive,          \* ws/server.ts: no ping is unanswered
    role, closed,   \* ws/session.ts
    lock, index,    \* ws/lock.ts, ws/session-index.ts
    feed, shown,    \* ws/admin-feed.ts: the admins, and the lists each has got
    missed,         \* a lock changed and the lists were not sent
    exists,         \* table groups
    actor           \* history: the session that last acted on its group's tiles

sockets  == <<sock, peer, alive>>
tables   == <<lock, index>>
admins   == <<feed, shown, missed>>
vars == <<sockets, role, closed, tables, admins, exists, actor>>

ListsType == [groups : SUBSET Groups, locked : SUBSET Groups]

TypeOK ==
    /\ sock \in [Conns -> SocketStates]
    /\ peer \in [Conns -> {"up", "dead"}]
    /\ alive \in [Conns -> BOOLEAN]
    /\ role \in [Conns -> Groups \cup {NoRole, Admin}]
    /\ closed \in SUBSET Conns
    /\ lock \in [Groups -> Conns \cup {Free}]
    /\ index \in [Groups -> Conns \cup {Free}]
    /\ feed \in SUBSET Conns
    /\ shown \in [Conns -> ListsType]
    /\ missed \in BOOLEAN
    /\ exists \in SUBSET Groups
    /\ actor \in Conns \cup {Free}

NoLists == [groups |-> {}, locked |-> {}]

Init ==
    /\ sock = [s \in Conns |-> "new"]
    /\ peer = [s \in Conns |-> "up"]
    /\ alive = [s \in Conns |-> TRUE]
    /\ role = [s \in Conns |-> NoRole]
    /\ closed = {}
    /\ lock = [g \in Groups |-> Free]
    /\ index = [g \in Groups |-> Free]
    /\ feed = {}
    /\ shown = [s \in Conns |-> NoLists]
    /\ missed = FALSE
    /\ exists = {}
    /\ actor = Free

-----------------------------------------------------------------------------
\* groups.update and numbers.update, as far as sessions change them.
Lists == [groups |-> exists, locked |-> {g \in Groups : lock[g] # Free}]

\* Both lists go to every admin whose socket is open.
TellNobody == UNCHANGED <<shown, missed>>                         \* mutant
Tell ==
    /\ shown' = [a \in Conns |-> IF a \in feed' /\ sock[a] = "open"
                                 THEN Lists' ELSE shown[a]]
    /\ missed' = FALSE

\* The sessions of S that session.close() finds open.
Leaving(S) == S \ closed

ReleasedNever(S) == lock                                          \* mutant
Released(S) == [g \in Groups |->
    IF lock[g] \in Leaving(S) /\ role[lock[g]] = g THEN Free ELSE lock[g]]

UnindexedNever(S) == index                                        \* mutant
Unindexed(S) == [g \in Groups |->
    IF index[g] \in Leaving(S) /\ role[index[g]] = g THEN Free ELSE index[g]]

Unsubscribed(S) == feed \ {s \in Leaving(S) : role[s] = Admin}

\* session.close() of every session in S, without the lists that follow.
Leave(S) ==
    /\ closed' = closed \cup S
    /\ lock' = Released(S)
    /\ index' = Unindexed(S)
    /\ feed' = Unsubscribed(S)

\* onRelease sends the lists; a session without a group changes none.
CloseSession(s) ==
    /\ Leave({s})
    /\ IF s \notin closed /\ role[s] \in Groups THEN Tell ELSE UNCHANGED <<shown, missed>>

-----------------------------------------------------------------------------
Connect(s) ==
    /\ sock[s] = "new"
    /\ sock' = [sock EXCEPT ![s] = "open"]
    /\ UNCHANGED <<peer, alive, role, closed, tables, admins, exists, actor>>

\* A frame of s reaches session.handle().
CanSpeak(s) == peer[s] = "up" /\ sock[s] \in {"open", "closing"}

LockIgnored(g) == TRUE                                            \* mutant
LockIsFree(g) == lock[g] = Free

TakenSwapped(table, g, s) == [table EXCEPT ![g] = g]              \* mutant
Taken(table, g, s) == [table EXCEPT ![g] = s]

\* group.claim: take the lock, take the role, enter the index, deliver the
\* queue, send the lists.  `ok' is FALSE when deliverQueued() throws (a queued
\* message whose business was deleted): the lists are then not sent.  Every
\* refusal answers with an error and changes nothing.
Claim(s, g, ok) ==
    /\ CanSpeak(s)
    /\ role[s] = NoRole
    /\ g \in exists
    /\ LockIsFree(g)
    /\ lock' = Taken(lock, g, s)
    /\ role' = [role EXCEPT ![s] = g]
    /\ index' = Taken(index, g, s)
    /\ UNCHANGED <<sockets, closed, feed, exists, actor>>
    /\ IF ok THEN Tell ELSE missed' = TRUE /\ UNCHANGED shown

\* admin.subscribe: the newcomer alone gets the lists.
Subscribe(s) ==
    /\ CanSpeak(s)
    /\ role[s] = NoRole
    /\ role' = [role EXCEPT ![s] = Admin]
    /\ feed' = feed \cup {s}
    /\ shown' = [shown EXCEPT ![s] = IF sock[s] = "open" THEN Lists ELSE @]
    /\ UNCHANGED <<sockets, closed, tables, missed, exists, actor>>

\* message.send, chat.read, tile.presence, tile.autoreply: the session acts on a
\* tile of the group of its role, if that group (still, or again) exists.
GroupFrame(s) ==
    /\ CanSpeak(s)
    /\ role[s] \in exists
    /\ actor' = s
    /\ UNCHANGED <<sockets, role, closed, tables, admins, exists>>

\* The close event: the socket leaves the `clients' map of ws/server.ts, and its
\* `alive' flag with it.
Forget(s) ==
    /\ sock' = [sock EXCEPT ![s] = "gone"]
    /\ alive' = [alive EXCEPT ![s] = TRUE]

\* The browser closes its tab.
TabCloses(s) ==
    /\ sock[s] = "open"
    /\ peer[s] = "up"
    /\ Forget(s)
    /\ UNCHANGED <<peer, role, exists, actor>>
    /\ CloseSession(s)

\* An 'error' event; the close event follows.
SocketFails(s) ==
    /\ sock[s] \in {"open", "closing"}
    /\ sock' = [sock EXCEPT ![s] = "ending"]
    /\ UNCHANGED <<peer, alive, role, exists, actor>>
    /\ CloseSession(s)

\* The close event of a socket that the server or an error has ended.
SocketCloses(s) ==
    /\ sock[s] \in {"closing", "ending"}
    /\ Forget(s)
    /\ UNCHANGED <<peer, role, exists, actor>>
    /\ CloseSession(s)

\* The browser, its machine or its network is gone without a word.
PeerDies(s) ==
    /\ sock[s] \notin {"new", "gone"}
    /\ peer' = [peer EXCEPT ![s] = "dead"]
    /\ UNCHANGED <<sock, alive, role, closed, tables, admins, exists, actor>>

Pong(s) ==
    /\ CanSpeak(s)
    /\ ~alive[s]
    /\ alive' = [alive EXCEPT ![s] = TRUE]
    /\ UNCHANGED <<sock, peer, role, closed, tables, admins, exists, actor>>

\* The sockets in the `clients' map of ws/server.ts.
Clients == {s \in Conns : sock[s] \in {"open", "closing", "ending"}}

PingedForgotten(s) == alive[s]                                    \* mutant
Pinged(s) == alive[s] /\ s \notin Clients

\* A tick of the heartbeat terminates the clients whose ping went unanswered
\* and pings the others.
Heartbeat ==
    /\ sock' = [s \in Conns |-> IF s \in Clients /\ ~alive[s] THEN "ending" ELSE sock[s]]
    /\ alive' = [s \in Conns |-> Pinged(s)]
    /\ UNCHANGED <<peer, role, closed, tables, admins, exists, actor>>

-----------------------------------------------------------------------------
CreateGroup(g) ==
    /\ g \notin exists
    /\ exists' = exists \cup {g}
    /\ UNCHANGED <<sockets, role, closed, tables, feed, actor>>
    /\ Tell

DeletableLocked(g) == g \in exists                                \* mutant
Deletable(g) == g \in exists /\ lock[g] = Free

DeleteGroup(g) ==
    /\ Deletable(g)
    /\ exists' = exists \ {g}
    /\ UNCHANGED <<sockets, role, closed, tables, feed, actor>>
    /\ Tell

\* POST /reset: the groups stay or go, the admins get the lists, and a session
\* in the index keeps its group or is disconnected: closed first, then its
\* socket is asked to close.  The session keeps its role.
Reset(keep) ==
    LET kept == IF keep THEN exists ELSE {}
        out  == {s \in Conns : \E g \in Groups \ kept : index[g] = s}
    IN  /\ exists' = kept
        /\ Leave(out)
        /\ Tell
        /\ sock' = [s \in Conns |-> IF s \in out /\ sock[s] = "open" THEN "closing" ELSE sock[s]]
        /\ UNCHANGED <<peer, alive, role, actor>>

\* The process dies and is started again: every socket is gone, every table of
\* the process is empty, the groups are still there.
Crash ==
    /\ sock' = [s \in Conns |-> IF sock[s] = "new" THEN "new" ELSE "gone"]
    /\ alive' = [s \in Conns |-> TRUE]
    /\ role' = [s \in Conns |-> NoRole]
    /\ closed' = {}
    /\ lock' = [g \in Groups |-> Free]
    /\ index' = [g \in Groups |-> Free]
    /\ feed' = {}
    /\ shown' = [s \in Conns |-> NoLists]
    /\ missed' = FALSE
    /\ UNCHANGED <<peer, exists, actor>>

Next ==
    \/ \E s \in Conns : Connect(s)
    \/ \E s \in Conns, g \in Groups, ok \in BOOLEAN : Claim(s, g, ok)
    \/ \E s \in Conns : Subscribe(s)
    \/ \E s \in Conns : GroupFrame(s)
    \/ \E s \in Conns : TabCloses(s)
    \/ \E s \in Conns : SocketFails(s)
    \/ \E s \in Conns : SocketCloses(s)
    \/ \E s \in Conns : PeerDies(s)
    \/ \E s \in Conns : Pong(s)
    \/ Heartbeat
    \/ \E g \in Groups : CreateGroup(g)
    \/ \E g \in Groups : DeleteGroup(g)
    \/ \E keep \in BOOLEAN : Reset(keep)
    \/ Crash

Spec == Init /\ [][Next]_vars

\* The heartbeat is an interval timer, and a socket that was terminated, failed
\* or asked to close reports its close in the end.
Fairness == WF_vars(Heartbeat) /\ \A s \in Conns : WF_vars(SocketCloses(s))

FairSpec == Spec /\ Fairness

-----------------------------------------------------------------------------
\* A group is locked by exactly the sessions that hold its role and have not
\* closed: there is at most one, and no role without the lock behind it.
LockMatchesRole ==
    \A g \in Groups, s \in Conns : lock[g] = s <=> (role[s] = g /\ s \notin closed)

\* Delivery and the bus look sessions up in the index, the registry looks at the
\* lock table: the two, filled by different hooks, never disagree.
IndexMirrorsLock == index = lock

\* The 409 of deleteGroup and the disconnects of a reset see to it that no
\* session is left holding a group that is no longer there.
LockedGroupsExist == \A g \in Groups : lock[g] # Free => g \in exists

\* The admin feed broadcasts to the open admin sessions and to no other.
FeedIsOpenAdmins == feed = {s \in Conns : role[s] = Admin /\ s \notin closed}

\* "A killed browser never wedges a group": whoever holds a lock has a socket
\* whose end the server will still hear of.
NeverWedged == \A g \in Groups : lock[g] # Free => sock[lock[g]] \in {"open", "ending"}

\* An open admin page shows the groups there are and which of them are locked,
\* unless a claim has failed half-way since the lists were last sent.
AdminListsCurrent ==
    missed \/ \A a \in Conns \ closed :
                  (role[a] = Admin /\ sock[a] = "open") => shown[a] = Lists

\* A session on an open socket acts on tiles only while it holds their group.
OpenSessionActsAsHolder ==
    [][(actor' # actor /\ sock[actor'] = "open") => lock[role[actor']] = actor']_vars

\* A group held by a browser that died without a word is released in the end.
DeadPeerReleases ==
    \A g \in Groups, s \in Conns :
        (lock[g] = s /\ peer[s] = "dead") ~> (lock[g] # s)

\* "One active session per group": while a session holds a group, no other
\* session acts on its tiles.
OneActiveSession ==
    [][(actor' # actor /\ lock[role[actor']] # Free) => lock[role[actor']] = actor']_vars
===============================================================================
