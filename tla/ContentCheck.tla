----------------------------- MODULE ContentCheck -----------------------------
(***************************************************************************)
(* What --verify-content compares: class ContentValidator of               *)
(* src/src/content_validator.cpp.  A directory of the layout (trunk, a     *)
(* branch, a tag) has files, numbered in the order of their names; a ref   *)
(* has blobs, by prefix and file; equal contents have equal hashes.        *)
(***************************************************************************)
EXTENDS RuleLines

CONSTANT Trunk        \* the directory /trunk; the others are branches and tags

Mapping(dir, target) ==
    [dir |-> dir, ref |-> target.branch, repository |-> target.repository,
     prefix |-> target.prefix]

StandardLayoutMappings(dirs) ==
    {Mapping(d, Mapped(NoName, IF d = Trunk THEN Master ELSE d, NoName)) : d \in dirs}

\* mapWithRules: the mappings; the directories without one are ignored or unmapped.
MapWithRules(rules, dirs) ==
    {Mapping(d, ResolveTarget(rules, d)) :
       d \in {e \in dirs : ResolveTarget(rules, e).kind = "mapped"}}

UnmappedDirs(rules, dirs) == {d \in dirs : ResolveTarget(rules, d) = Unmapped}

\* Mutant: the factors swapped, so that the sample piles up at the beginning.
SampleIndexBunched(i, size, limit) == (i * limit) \div size

\* Place of the i-th file of a sample, from 0, as in the code.
SampleIndex(i, size, limit) == (i * size) \div limit

\* toHash: all files that are present, or a sample of them spread over the tree.
ToHash(present, limit) ==
    LET size == Cardinality(present)
        place(f) == Cardinality({g \in present : g < f})
    IN  IF limit > 0 /\ size > limit
        THEN {f \in present : \E i \in 0 .. limit - 1 : place(f) = SampleIndex(i, size, limit)}
        ELSE present

\* One ref of verify() once both sides are listed; files in unhashed cannot be hashed.
Present(svnFiles, blobs, prefix) ==
    {f \in DOMAIN svnFiles : <<prefix, f>> \in DOMAIN blobs}

RefContentOk(svnFiles, blobs, prefix, limit, unhashed) ==
    LET present == Present(svnFiles, blobs, prefix)
    IN  /\ present = DOMAIN svnFiles
        /\ \A f \in ToHash(present, limit) :
             f \notin unhashed /\ svnFiles[f] = blobs[<<prefix, f>>]
=============================================================================
