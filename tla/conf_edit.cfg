SPECIFICATION Spec
CONSTANTS
    Files = {f1, f2}
    Pages = {p1, p2}
    Names = {"x.ini", "x.conf"}
    NKeys = {"k"}
    NoKey = ""
    Vars = {v1, v2}
    Sections = {"main", "s"}
    Main = "main"
    MaxId = 3
    Hole = Hole
    Closed = Closed
    NoAdd = NoAdd
    NoText = NoText
    Mixed = Mixed
SYMMETRY Symmetry
INVARIANT TypeOK PagesListOwnFile SavedIsRendered RenderKeepsAll
PROPERTY DeletedStaysDeleted
