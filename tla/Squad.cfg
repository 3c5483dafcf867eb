SPECIFICATION SpecWalk
CONSTANTS
    Walks = {"wait", "points", "entries", "roles", "names", "direct"}
    Rules <- TwoSeats
    Players = {1, 2, 3, 4}
    Guests = {5, 6}
    Seasons <- OneMoreEach
    MaxAbsent = 3
    LatePayers = {2}
    Corrections = 1
    Games = 6
    Ana = Ana  Bea = Bea  Javi = Javi
    A = A  B = B  J = J
    None = None
INVARIANT WaitIsBounded
INVARIANT OnePointPerGame
INVARIANT EntriesFollowTheList
PROPERTY NoEnvy
PROPERTY RolesReachTheLists
PROPERTY MergeKeepsNames
