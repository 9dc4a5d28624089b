------------------------------ MODULE MCBrowser ------------------------------
\* Three files in two directories, two nodes, a dead link.  The link to news is
\* fetched from the index and found by its last name in the directory of the notes;
\* the one to a node's own index is found under the root.
EXTENDS Browser, TLC

CONSTANTS
  index, notes, draft, news, about, front,   \* pages
  n1, n2,                                    \* hashes
  root, sub, page                            \* names of directories; pages name files

L(y, to) == [y |-> y, to |-> to]
At(hash, rel) == [hash |-> hash, rel |-> rel]
News == At(n1, <<page, news>>)
About == At(n2, <<page, about>>)
Front1 == At(n1, <<page, index>>)
Notes == At(None, <<sub, notes>>)
Index == At(None, <<index>>)
Anchor == At(None, <<>>)

MCRoot == <<root>>
MCHome == <<root, index>>
MCTargets == {News, About, Front1, Notes, Index, Anchor}
MCMesh == {News, About, Front1}
MCServes == (News :> news) @@ (About :> about) @@ (Front1 :> front)
MCDisk ==
  (<<root, index>> :> index) @@ (<<root, sub, notes>> :> notes) @@ (<<root, sub, news>> :> draft)
MCDeltas == {1, -1}
MCHeight ==
  (index :> 5) @@ (notes :> 3) @@ (draft :> 1) @@ (news :> 4) @@ (about :> 1) @@ (front :> 1)
MCLinks ==
  (index :> <<L(0, News), L(2, About), L(3, Notes), L(4, Anchor)>>)
    @@ (notes :> <<L(0, News), L(2, Index)>>) @@ (draft :> <<L(0, About)>>)
    @@ (news :> <<L(3, About), L(3, Index)>>) @@ (about :> <<L(0, Front1)>>) @@ (front :> <<>>)
==============================================================================
