SPECIFICATION FairSpec
CONSTANTS
    g1 = g1
    g2 = g2
    s1 = s1
    s2 = s2
    Free = Free
    NoRole = NoRole
    Admin = Admin
    Groups <- TwoGroups
    Conns <- TwoConns
INVARIANTS TypeOK LockMatchesRole IndexMirrorsLock LockedGroupsExist NeverWedged AdminListsCurrent
PROPERTIES OpenSessionActsAsHolder DeadPeerReleases
