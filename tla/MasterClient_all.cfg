SPECIFICATION FairSpec
CONSTANTS
    t1 = t1
    t2 = t2
    Tasks = {t1, t2}
    Masters = {"m1", "m2"}
    Size = 2
    Root = "root"
    Listing <- EchoListing
INVARIANTS InflightExact  ListsTreeOnce
 
