SPECIFICATION FairSpec
CONSTANTS
    s1 = s1
    s2 = s2
    p = p
    i1 = i1
    Seller = {p}
    Item = {i1}
    None = None
    Search = {s1, s2}
    UpdateCache = {s2}
    Catalog <- Answers
    MaxLog = 2
    MaxResume = 1
INVARIANTS NoSilentSkip ToldOncePerResumption StoredNotBehind
PROPERTIES ToldIsStored TopicIsWorkedOff
