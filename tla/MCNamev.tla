------------------------------ MODULE MCNamev ------------------------------
(* Two process slots, two file_t slots, the root and two more inodes, two *)
(* short names and one long one.                                          *)
EXTENDS Namev

CONSTANTS p1, p2, root, v1, v2, null, f1, f2, nofile

MCProcs  == {p1, p2}
MCVnodes == {root, v1, v2}
MCFiles  == {f1, f2}

(* A path from its leading '/' and its components. *)
P(abs, comps) == [abs |-> abs, comps |-> comps]

(* "/", "", "a", "b", "/a", "a/b", ".", "..", "a/..", "b/a", "a/L"       *)
MCPaths ==
    {RootPath, EmptyPath,
     P(FALSE, <<"a">>), P(FALSE, <<"b">>), P(TRUE, <<"a">>),
     P(FALSE, <<"a", "b">>), P(FALSE, <<".">>), P(FALSE, <<"..">>),
     P(FALSE, <<"a", "..">>), P(FALSE, <<"b", "a">>), P(FALSE, <<"a", "L">>)}

(* The same with "a/L/b", whose long middle component dir_namev refuses  *)
(* while it holds the vnode of "a".                                      *)
MCPathsLong == MCPaths \cup {P(FALSE, <<"a", "L", "b">>)}

(* The inodes other than the root are interchangeable, and so are the    *)
(* file_t slots.                                                         *)
MCSymmetry == {a @@ b : a \in Permutations({v1, v2}), b \in Permutations(MCFiles)}
============================================================================
