--------------------------- MODULE PermissionFilter ---------------------------
(***************************************************************************)
(* The gate in front of the file routes of the client API:                 *)
(*   Server::has_permission and Server::is_ignored (models/server.rs),     *)
(*   GET  .../files/list         (files/list.rs)                           *)
(*   POST .../files/decompress   (files/decompress.rs)                     *)
(*   POST .../files/pull         (files/pulls/mod.rs)                      *)
(* and the other client server routes that act on the server:              *)
(*   GET  .../files/pull         (files/pulls/mod.rs, the pull listing)    *)
(*   POST .../command            (command.rs)                              *)
(*   PUT  .../settings/auto-kill (settings/auto_kill.rs)                   *)
(* A server is loaded per request by Server::by_user_identifier; its       *)
(* subuser grant (permissions, ignored-file patterns) comes from a LEFT    *)
(* JOIN on server_subusers, so it is either absent for both (owner or      *)
(* admin) or present for both (a subuser).                                 *)
(*                                                                         *)
(* A path is a sequence of segments: the string "/a/b" is <<"a", "b">>.   *)
(* The matcher is the one ignore::overrides::OverrideBuilder builds with   *)
(* root "/": each pattern is a gitignore line, compiled to a glob; the    *)
(* last glob that applies decides, and Override inverts the gitignore     *)
(* verdict, so a plain pattern gives "whitelist" (= ignored here) and a    *)
(* "!" pattern gives "ignore" (= not ignored).                             *)
(*                                                                         *)
(* Each request runs on its own Server value (&mut self in is_ignored), so *)
(* a route is one atomic step; what matters is which paths reach the      *)
(* agent and which are refused.                                            *)
(***************************************************************************)
EXTENDS Naturals, Sequences, FiniteSets, SequencesExt

CONSTANTS
    Names,        \* segment names paths are made of (may include "..")
    Patterns,     \* raw ignored-file patterns a subuser grant may hold
    MaxPatterns,  \* bound on the length of a grant's pattern list
    FilePerms,    \* permission strings a subuser grant may hold (the
                  \* files.* ones and those of the other routes)
    Roots,        \* "root" of decompress and pull requests
    Files,        \* "file" of decompress, "name" of pull (paths)
    Dirs,         \* "directory" of list requests
    UrlNames,     \* file names the agent may take from a pull's URL
    NoGrant,      \* model value: the grant column is NULL (None)
    Unnamed,      \* model value: a pull request without "name"
    Nothing       \* model value: no call, no forwarded operation

(***************************************************************************)
(* A raw pattern is the gitignore line, parsed: neg (leading "!"), abs     *)
(* (leading "/"), dir (trailing "/"), toks (the segments between slashes,  *)
(* "*" and "**" as globs) and valid (GlobBuilder accepts it; an unclosed   *)
(* "[" or "{" is not valid).                                               *)
(***************************************************************************)
RawPattern == [neg : BOOLEAN, abs : BOOLEAN, dir : BOOLEAN,
               toks : Seq(Names \cup {"*", "**"}), valid : BOOLEAN]

ASSUME Patterns \subseteq RawPattern /\ MaxPatterns \in Nat

\* Server::map reads permissions and ignored_files with try_get(..).ok():
\* both columns are NULL exactly when no server_subusers row joined.
Grants ==
    {[perms |-> NoGrant, ignored |-> NoGrant]}
      \cup [perms : SUBSET FilePerms, ignored : BoundedSeq(Patterns, MaxPatterns)]

(***************************************************************************)
(* The ignore crate (a dependency, not code of this repository)            *)
(***************************************************************************)
\* GitignoreBuilder::add_line: a pattern with no inner slash matches at any
\* depth ("**/" is put in front); a trailing "/**" must match something
\* inside the directory, so "/*" is appended.
Compile(r) ==
    LET anchored == r.abs \/ Len(r.toks) > 1 \/ Head(r.toks) = "**"
        g1 == IF anchored THEN r.toks ELSE <<"**">> \o r.toks
        g2 == IF Len(g1) > 1 /\ Last(g1) = "**" THEN Append(g1, "*") ELSE g1
    IN [neg |-> r.neg, dir |-> r.dir, glob |-> g2]

\* globset with literal_separator: "*" is one segment, "**" any number.
RECURSIVE GlobMatch(_, _)
GlobMatch(g, p) ==
    IF g = <<>> THEN p = <<>>
    ELSE IF Head(g) = "**"
         THEN GlobMatch(Tail(g), p) \/ (p # <<>> /\ GlobMatch(g, Tail(p)))
         ELSE /\ p # <<>>
              /\ Head(g) \in {"*", Head(p)}
              /\ GlobMatch(Tail(g), Tail(p))

\* Gitignore::matched: a directory-only glob applies only when is_dir.
Applies(c, path, isDir) == GlobMatch(c.glob, path) /\ (~c.dir \/ isDir)

(***************************************************************************)
(* The panel's gate (models/server.rs)                                     *)
(***************************************************************************)
HasPermission(g, perm) == IF g.perms = NoGrant THEN TRUE ELSE perm \in g.perms

\* Mutant: the first applying glob decides instead of the last.
IsIgnoredFirstMatch(g, path, isDir) ==
    IF g.ignored = NoGrant THEN FALSE
    ELSE LET compiled == [i \in 1..Len(SelectSeq(g.ignored, LAMBDA r : r.valid)) |->
                            Compile(SelectSeq(g.ignored, LAMBDA r : r.valid)[i])]
             hits == SelectSeq(compiled, LAMBDA c : Applies(c, path, isDir))
         IN hits # <<>> /\ ~Head(hits).neg

\* Mutant: directory-only patterns are applied to files as well.
IsIgnoredNoDirCheck(g, path, isDir) ==
    IF g.ignored = NoGrant THEN FALSE
    ELSE LET compiled == [i \in 1..Len(SelectSeq(g.ignored, LAMBDA r : r.valid)) |->
                            Compile(SelectSeq(g.ignored, LAMBDA r : r.valid)[i])]
             hits == SelectSeq(compiled, LAMBDA c : Applies(c, path, TRUE))
         IN hits # <<>> /\ ~Last(hits).neg

\* is_ignored: every pattern is add()ed with .ok(), so a malformed one is
\* dropped and the others still count; the built Override answers
\* matched(path, is_dir).is_whitelist(): the last applying glob decides.
IsIgnored(g, path, isDir) ==
    IF g.ignored = NoGrant THEN FALSE
    ELSE LET compiled == [i \in 1..Len(SelectSeq(g.ignored, LAMBDA r : r.valid)) |->
                            Compile(SelectSeq(g.ignored, LAMBDA r : r.valid)[i])]
             hits == SelectSeq(compiled, LAMBDA c : Applies(c, path, isDir))
         IN hits # <<>> /\ ~Last(hits).neg

(***************************************************************************)
(* The agent joins root and file and resolves ".." against the server's   *)
(* root directory, never above it.                                         *)
(***************************************************************************)
Resolve(p) ==
    FoldLeft(LAMBDA acc, s : IF s = ".." THEN (IF acc = <<>> THEN acc ELSE Front(acc))
                             ELSE Append(acc, s),
             <<>>, p)

(***************************************************************************)
(* The grant is the server_subusers row of the requesting user; requests *)
(* are independent, so the rest of the state is what the latest request   *)
(* did: the operation it forwarded, the is_ignored call it made, its      *)
(* status.                                                                 *)
(***************************************************************************)
VARIABLES
    grant,  \* the requesting user's grant on the server
    sent,   \* the operation forwarded to the agent, or Nothing
    call,   \* the is_ignored call made: its arguments and answer, or Nothing
    resp    \* status of the response

vars == <<grant, sent, call, resp>>

Call(g, path, isDir) ==
    call' = [grant |-> g, path |-> path, dir |-> isDir, result |-> IsIgnored(g, path, isDir)]

\* The request reaches the agent; the agent may answer with an error, which
\* the route maps to a status but which leaves nothing else behind.
Forward(op, g, target, isDir) ==
    /\ sent' = [op |-> op, grant |-> g, target |-> target, dir |-> isDir]
    /\ resp' \in {"ok", "agent_error"}

Refuse(status) == resp' = status /\ sent' = Nothing

\* files/list.rs: validate_data, has_permission("files.read"),
\* is_ignored(directory, true), then get_servers_server_files_list.
ListFiles(g, d) ==
    \/ /\ Refuse("bad_request")
       /\ call' = Nothing
    \/ /\ ~HasPermission(g, "files.read")
       /\ Refuse("unauthorized") /\ call' = Nothing
    \/ /\ HasPermission(g, "files.read")
       /\ Call(g, d, TRUE)
       /\ IF IsIgnored(g, d, TRUE) THEN Refuse("not_found")
          ELSE Forward("list", g, Resolve(d), TRUE)

\* files/decompress.rs: has_permission("files.create"),
\* is_ignored(file, false), then the agent decompresses root/file.
Decompress(g, root, file) ==
    \/ /\ ~HasPermission(g, "files.create")
       /\ Refuse("unauthorized") /\ call' = Nothing
    \/ /\ HasPermission(g, "files.create")
       /\ Call(g, file, FALSE)
       /\ IF IsIgnored(g, file, FALSE) THEN Refuse("not_found")
          ELSE Forward("decompress", g, Resolve(root \o file), FALSE)

\* files/pulls/mod.rs post: has_permission("files.create"), then
\* is_ignored(name, false) only if a name was given; without one the agent
\* names the file after the download.
Pull(g, root, name) ==
    \/ /\ ~HasPermission(g, "files.create")
       /\ Refuse("unauthorized") /\ call' = Nothing
    \/ /\ HasPermission(g, "files.create")
       /\ name # Unnamed
       /\ Call(g, name, FALSE)
       /\ IF IsIgnored(g, name, FALSE) THEN Refuse("not_found")
          ELSE Forward("pull", g, Resolve(root \o name), FALSE)
    \/ /\ HasPermission(g, "files.create")
       /\ name = Unnamed
       /\ \E n \in UrlNames : Forward("pull", g, Resolve(Append(root, n)), FALSE)
       /\ call' = Nothing

\* files/pulls/mod.rs get: has_permission("files.read"), then
\* get_servers_server_files_pull; an agent error is 417 or 500.
PullList(g) ==
    \/ /\ ~HasPermission(g, "files.read")
       /\ Refuse("unauthorized") /\ call' = Nothing
    \/ /\ HasPermission(g, "files.read")
       /\ Forward("pull_list", g, <<>>, TRUE) /\ call' = Nothing

\* command.rs: validate_data (1 to 1024 characters), has_permission
\* ("control.console"), then post_servers_server_commands; an agent error
\* is 500.
Command(g) ==
    \/ /\ Refuse("bad_request") /\ call' = Nothing
    \/ /\ ~HasPermission(g, "control.console")
       /\ Refuse("unauthorized") /\ call' = Nothing
    \/ /\ HasPermission(g, "control.console")
       /\ Forward("command", g, <<>>, FALSE) /\ call' = Nothing

\* settings/auto_kill.rs: validate_data (seconds in 1..3600),
\* has_permission("settings.auto-kill"), then UPDATE servers SET
\* auto_kill, whose error goes out through `?`.  The write is recorded as
\* the operation the request performed.
AutoKill(g) ==
    \/ /\ Refuse("bad_request") /\ call' = Nothing
    \/ /\ ~HasPermission(g, "settings.auto-kill")
       /\ Refuse("unauthorized") /\ call' = Nothing
    \/ /\ HasPermission(g, "settings.auto-kill")
       /\ sent' = [op |-> "auto_kill", grant |-> g, target |-> <<>>, dir |-> FALSE]
       /\ resp' \in {"ok", "db_error"}
       /\ call' = Nothing

Init ==
    /\ grant \in Grants
    /\ sent = Nothing
    /\ call = Nothing
    /\ resp = "none"

Next ==
    /\ \/ \E d \in Dirs : ListFiles(grant, d)
       \/ \E root \in Roots, file \in Files : Decompress(grant, root, file)
       \/ \E root \in Roots, name \in Files \cup {Unnamed} : Pull(grant, root, name)
       \/ PullList(grant)
       \/ Command(grant)
       \/ AutoKill(grant)
    /\ UNCHANGED grant

Spec == Init /\ [][Next]_vars

-----------------------------------------------------------------------------
(***************************************************************************)
(* What a pattern covers, after gitignore(5), stated as the set of paths   *)
(* of length n it generates (not as a matcher): a pattern with no slash    *)
(* but a trailing one covers any path whose last segment it matches; else *)
(* it is relative to the root, "*" is one segment, "**" any number, and a *)
(* trailing "/**" everything inside the directory.  A "/"-ended pattern    *)
(* covers directories only.                                                *)
(***************************************************************************)
RECURSIVE Lang(_, _)
Lang(t, n) ==
    IF t = <<>> THEN {<<>>}
    ELSE IF Head(t) = "**" /\ Tail(t) = <<>>
    THEN BoundedSeq(Names, n) \ {<<>>}
    ELSE IF Head(t) = "**"
    THEN UNION {{u \o w : w \in Lang(Tail(t), n - Len(u))} : u \in BoundedSeq(Names, n)}
    ELSE IF n = 0 THEN {}
    ELSE {<<x>> \o w : x \in IF Head(t) = "*" THEN Names ELSE {Head(t)},
                       w \in Lang(Tail(t), n - 1)}

Covers(r, path, isDir) ==
    /\ r.dir => isDir
    /\ IF ~r.abs /\ Len(r.toks) = 1
       THEN path # <<>> /\ <<Last(path)>> \in Lang(r.toks, 1)
       ELSE path \in Lang(r.toks, Len(path))

\* Spec 4.4: no patterns, or a pattern that fails to compile, means "not
\* ignored"; otherwise the last pattern that covers the path decides.
SpecIgnored(g, path, isDir) ==
    /\ g.ignored # NoGrant
    /\ \A i \in DOMAIN g.ignored : g.ignored[i].valid
    /\ LET hits == {i \in DOMAIN g.ignored : Covers(g.ignored[i], path, isDir)}
       IN hits # {} /\ ~g.ignored[Max(hits)].neg

\* A path the subuser may not see: it, or a directory on the way to it, is
\* ignored.
Hidden(g, path, isDir) ==
    \E k \in 1..Len(path) : SpecIgnored(g, SubSeq(path, 1, k), k < Len(path) \/ isDir)

(***************************************************************************)
(* Every answer Server::is_ignored gives is the one spec 4.4 defines: the  *)
(* compiled Override agrees with the gitignore meaning of the grant's      *)
(* patterns, for files and directories, with negations and fail-open.     *)
(***************************************************************************)
IgnoreAsSpecified ==
    call # Nothing => call.result = SpecIgnored(call.grant, call.path, call.dir)

(***************************************************************************)
(* The list, decompress and pull routes never let the agent act on a path *)
(* the subuser's ignored files hide (spec 4.4: ignored paths are hidden    *)
(* from listing, blocked from decompress and pull).                        *)
(***************************************************************************)
TargetNotHidden ==
    sent # Nothing => ~Hidden(sent.grant, sent.target, sent.dir)

=============================================================================
