SPECIFICATION Spec
CONSTANTS
    Words = {"1", "on", "maybe"}
    MaxItems = 2
    Clients = {c1, c2}
    MaxApps = 2
    MaxPosts = 3
PROPERTIES
    DestructorEnds
CHECK_DEADLOCK FALSE
