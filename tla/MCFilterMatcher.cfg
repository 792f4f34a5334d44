\* Server::is_ignored against the gitignore meaning of spec 4.4, over every
\* list of up to two well-formed patterns of forty shapes, for files and
\* directories of depth up to two; the routes run for grants over the four
\* permissions they check.
SPECIFICATION Spec
CONSTANTS
    Names = {"s", "a"}
    Patterns <- MCPatterns
    MaxPatterns = 2
    FilePerms = {"files.read", "files.create", "control.console", "settings.auto-kill"}
    Roots <- MCRoots
    Files <- MCFiles
    Dirs <- MCDirs
    UrlNames = {"s", "a"}
    NoGrant = NoGrant
    Unnamed = Unnamed
    Nothing = Nothing
INVARIANT IgnoreAsSpecified
