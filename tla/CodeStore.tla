------------------------------ MODULE CodeStore -------------------------------
(***************************************************************************)
(* A project's code store (code.Store, as code/memcode implements it), seen *)
(* from one worktree: the blobs, whether the worktree is registered, and    *)
(* one tree of entries per ref.  Every call is one step of the store.       *)
(***************************************************************************)
EXTENDS Naturals, FiniteSets

CONSTANTS
    Paths,  \* files of the worktree, numbered in the order of their paths
    Refs,   \* branches
    None

(* sha is the content, 0 when none is sent; oid the content git has at      *)
(* HEAD, 0 when HEAD does not have the path.                                *)
Entry == [sha : Nat, oid : Nat, dirty : BOOLEAN, unpushed : BOOLEAN]

NoTree == [p \in Paths |-> None]

EmptyStore == [known |-> FALSE, blobs |-> {}, tree |-> [r \in Refs |-> NoTree]]

Store == [known : BOOLEAN, blobs : SUBSET Nat, tree : [Refs -> [Paths -> Entry \cup {None}]]]

MissingBlobs(s, shas) == shas \ s.blobs

PutBlobs(s, shas) == [s EXCEPT !.blobs = @ \cup shas]

PutWorktree(s) == [s EXCEPT !.known = TRUE]

(* The blobs the upserts of a change name.                                  *)
Named(ups) == {ups[p].sha : p \in DOMAIN ups} \ {0}

(* Commit is refused for an unknown worktree and for a blob it lacks.       *)
CommitAllowed(s, ups) == s.known /\ Named(ups) \subseteq s.blobs

(* Mutant: a full change only adds to the tree.                             *)
Commit_Merge(s, ref, ups, dels, full) ==
    [s EXCEPT !.tree[ref] =
        [p \in Paths |-> IF p \in DOMAIN ups THEN ups[p] ELSE IF p \in dels THEN None ELSE @[p]]]

(* Commit: upserts replace entries and deletes remove them; a full change   *)
(* replaces the tree.                                                       *)
Commit(s, ref, ups, dels, full) ==
    [s EXCEPT !.tree[ref] =
        [p \in Paths |-> IF p \in DOMAIN ups THEN ups[p] ELSE IF full \/ p \in dels THEN None ELSE @[p]]]

(* RemoveWorktree drops the trees and keeps the (removed) worktree.         *)
RemoveWorktree(s) == [s EXCEPT !.tree = [r \in Refs |-> NoTree]]
=============================================================================
