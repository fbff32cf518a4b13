SPECIFICATION Spec
CONSTANTS
    Callers = {}
    Main = main
    Stoppers = {main, io}
    Kinds = {"jni", "exec"}
    MaxEngines = 2
    MaxId = 0
INVARIANTS
    PipesKept
PROPERTIES
    QuitsByItsOwnStop
