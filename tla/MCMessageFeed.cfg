\* Three connections, two threads, three clients with pages of two, fair threads.
SPECIFICATION FairSpec
CONSTANTS
    W32 = 8
    W64 = 64
    c1 = c1
    c2 = c2
    c3 = c3
    n1 = n1
    n2 = n2
    k1 = k1
    k2 = k2
    k3 = k3
    Connection = {c1, c2, c3}
    Sender = {n1, n2}
    Client = {k1, k2, k3}
    NameOf <- Names
    Watch <- Watches
    Count = 2
    IoThreads = 2
    MaxMessages = 3
INVARIANTS
    SkippedWasOvertaken
    FewAreOvertaken
PROPERTIES
    FeedReaches
