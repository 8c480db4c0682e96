\* A group of two collections and a single one, two export workers, two
\* imports: cursor failures, failed uploads, kills, documents stored meanwhile.
SPECIFICATION Spec

CONSTANTS
    ga = ga
    gb = gb
    grp = grp
    solo = solo
    tg = tg
    tgk = tgk
    th = th
    thk = thk
    alias = alias
    Docs <- MCDocs
    CollOf <- MCCollOf
    KidsOf <- MCKidsOf
    SqlFiles <- MCSqlFiles
    FileOf <- MCFileOf
    RootOf <- MCRootOf
    ChildOf <- MCChildOf
    AliasOf <- MCAliasOf
    DirOrder <- MCDirOrder
    None = None
    Workers = {w1, w2}
    CursorRetryMax = 1
    MaxExports = 2
    FirstDocs = {1, 2, 4}
    Importers = {p1, p2}
    MaxLost = 1

INVARIANT TypeOK
INVARIANT LoadedIsExported
INVARIANT SoundExportLoads
INVARIANT AllOrNothing
INVARIANT LoadsOnlyOwnTables
INVARIANT NoMutualWait
PROPERTY EveryJobAccounted

SYMMETRY Symmetry

CHECK_DEADLOCK FALSE
