--------------------------- MODULE SvnRepository ---------------------------
(***************************************************************************)
(* The Subversion repository the converter reads: its trees, what a commit *)
(* may do to them, and the list of changed paths a revision keeps.         *)
(* Subversion is not part of this repository: the operators are modelled   *)
(* from the calls src/src/svn.cpp makes (svn_fs_paths_changed2,            *)
(* svn_fs_copied_from, svn_fs_is_dir, svn_fs_dir_entries).                 *)
(*                                                                         *)
(* A path is a sequence of names.  A tree is a function from the paths     *)
(* that exist; a file's content is the path and revision it was written    *)
(* at, and a copy keeps it.                                                *)
(***************************************************************************)
EXTENDS Integers, Sequences, SequencesExt

CONSTANTS
    PathOrder,  \* the paths that may exist, in the byte order of their names
    FilePath,   \* where a file may be
    DirPath     \* where a directory may be

Path   == Range(PathOrder)
NoPath == <<>>
Dir    == <<>>

\* The names paths are made of.
PathName == UNION {Range(p) : p \in Path}

\* A path is listed once, and lies in directories.
ASSUME SvnRepositoryAssumption ==
    /\ FilePath \cup DirPath \subseteq Path
    /\ PathOrder \in Seq(Seq(PathName) \ {NoPath})
    /\ \A i, j \in DOMAIN PathOrder : PathOrder[i] = PathOrder[j] => i = j
    /\ \A p \in Path : \A n \in 1 .. Len(p) - 1 : SubSeq(p, 1, n) \in DirPath

IsDir(tree, p) == p \in DOMAIN tree /\ tree[p] = Dir

Files(tree) == {p \in DOMAIN tree : tree[p] # Dir}

Subtree(tree, p) == {q \in DOMAIN tree : IsPrefix(p, q)}

\* The path q, which lies at or below `from`, once `from` is called `to`.
Moved(q, from, to) == to \o SubSeq(q, Len(from) + 1, Len(q))

\* The paths in `set`, in the order of the names.
Listed(set) ==
    LET upTo[n \in 0 .. Len(PathOrder)] ==
          IF n = 0 THEN <<>>
          ELSE IF PathOrder[n] \in set THEN Append(upTo[n - 1], PathOrder[n]) ELSE upTo[n - 1]
    IN  upTo[Len(PathOrder)]

\* svn_fs_dir_entries
Entries(tree, p) == {q \in DOMAIN tree : Front(q) = p}

\* The function f with the value v at x.
Put(f, x, v) == [y \in DOMAIN f \cup {x} |-> IF y = x THEN v ELSE f[y]]

\* svn_fs_paths_changed2: what a commit does to one path, folded with what it did before.
Noted(changes, p, kind, from, at) ==
    LET old    == IF p \in DOMAIN changes THEN changes[p].kind ELSE "none"
        change == [kind |-> kind, from |-> from, at |-> at]
        above  == Restrict(changes, {q \in DOMAIN changes : ~ IsPrefix(p, q)})
    IN  CASE kind = "delete" /\ old = "add"    -> above
          [] kind = "delete" /\ old # "add"    -> Put(above, p, change)
          [] kind = "add" /\ old = "delete"    -> Put(changes, p, [change EXCEPT !.kind = "replace"])
          [] kind = "modify" /\ old # "none"   -> changes
          [] OTHER                             -> Put(changes, p, change)

\* The edits that may be made in a tree: a file written, a directory made, a path
\* deleted, a path copied from an earlier revision of `svn`.
Edits(svn, tree) ==
    LET there   == {p \in Path : Len(p) = 1 \/ IsDir(tree, Front(p))}
        free    == there \ DOMAIN tree
        fits(p, q, at) ==
            \A s \in Subtree(svn[at], q) :
                Moved(s, q, p) \in (IF IsDir(svn[at], s) THEN DirPath ELSE FilePath)
        edit(op, p, q, at) == [op |-> op, path |-> p, from |-> q, at |-> at]
    IN  {edit("put", p, NoPath, 0) : p \in {p \in there \cap FilePath : ~ IsDir(tree, p)}}
          \cup {edit("mkdir", p, NoPath, 0) : p \in free \cap DirPath}
          \cup {edit("delete", p, NoPath, 0) : p \in DOMAIN tree}
          \cup UNION {{edit("copy", p, x[1], x[2]) : p \in {p \in free : fits(p, x[1], x[2])}} :
                   x \in {x \in Path \X DOMAIN svn : x[1] \in DOMAIN svn[x[2]]}}

EditedTree(svn, tree, e) ==
    LET copied == {Moved(s, e.from, e.path) : s \in Subtree(svn[e.at], e.from)} IN
    CASE e.op = "put"    -> Put(tree, e.path, <<e.path, Len(svn) + 1>>)
      [] e.op = "mkdir"  -> Put(tree, e.path, Dir)
      [] e.op = "delete" -> Restrict(tree, DOMAIN tree \ Subtree(tree, e.path))
      [] e.op = "copy"   -> [p \in copied \cup DOMAIN tree |->
                               IF p \in copied THEN svn[e.at][Moved(p, e.path, e.from)] ELSE tree[p]]

EditedChanges(changes, tree, e) ==
    LET kind == CASE e.op = "delete" -> "delete"
                  [] e.op = "put" /\ e.path \in DOMAIN tree -> "modify"
                  [] OTHER -> "add"
    IN  Noted(changes, e.path, kind, e.from, e.at)
=============================================================================
