\* A grant of one pattern, "/a/s" or "s/", and the file routes.  Decompress
\* and pull check the file name without the root it is in; a file inside an
\* ignored directory, named by its full path, is not matched.
SPECIFICATION Spec
CONSTANTS
    Names = {"s", "a"}
    Patterns <- MCHiddenPatterns
    MaxPatterns = 1
    FilePerms = {"files.read", "files.create"}
    Roots <- MCRootBoth
    Files <- MCFileBoth
    Dirs <- MCDirTop
    UrlNames = {"a"}
    NoGrant = NoGrant
    Unnamed = Unnamed
    Nothing = Nothing
INVARIANT TargetNotHidden
