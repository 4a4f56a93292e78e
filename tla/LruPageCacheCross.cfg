CONSTANTS
    Threads = {t1, t2}
    PageNum = 4
    FilePages = 2
    Spans = {1, 2}
    Fails = {2}
    MaxOpen = 2
SPECIFICATION Spec
SYMMETRY Symmetry
INVARIANT CopiedIsRight
INVARIANT PagesComeBack
