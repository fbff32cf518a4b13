SPECIFICATION FairSpec
CONSTANTS
    Callers = {c1}
    Main = main
    Stoppers = {main}
    Kinds = {"jni", "exec"}
    MaxEngines = 1
    MaxId = 2
INVARIANTS
    RepliesMatch
PROPERTIES
    Served
