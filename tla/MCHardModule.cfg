SPECIFICATION Spec
CONSTANTS
    Ids = {a, b}
    Blanks = {b}
    NoId = NoId
    Fragment = Fragment
INVARIANTS
    SavedIsFound
    AgreeUnlessRaced
    PostsOnlyWithoutId
PROPERTIES
    ImplementsUnidStore
