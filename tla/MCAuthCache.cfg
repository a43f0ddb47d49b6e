CONSTANTS
    u1 = u1
    u2 = u2
    n1 = n1
    q1 = q1
    q2 = q2
    q3 = q3
    NoUser = NoUser
    NoNode = NoNode
    Users <- MCUsers
    Nodes <- MCNodes
    Requests <- MCRequests
    MaxGeneration = 3
    RequestTimeout = 2
    ReconfirmTimeout = 3
    NodeTimeout = 4
SPECIFICATION FairSpec
INVARIANTS CacheConsistent AnswerIsOwn ResultIsRecent
PROPERTY EveryRequestAnswered
