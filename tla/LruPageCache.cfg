CONSTANTS
    Threads = {t1, t2, t3}
    PageNum = 2
    FilePages = 2
    Spans = {1}
    Fails = {}
    MaxOpen = 3
SPECIFICATION Spec
SYMMETRY Symmetry
INVARIANT PinnedIsKept
INVARIANT BooksAgree
