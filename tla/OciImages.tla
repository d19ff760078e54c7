------------------------------ MODULE OciImages ------------------------------
(***************************************************************************)
(* What the image workflows agree on: the commits of the testing branch,   *)
(* the two image variants, and the index a stream tag points to.           *)
(***************************************************************************)
EXTENDS Naturals

CONSTANT MaxCommits  \* bound: pushes to testing an instance looks at

ASSUME CommitsAssumption == MaxCommits \in Nat

Commits == 1..MaxCommits

Uranium == "uranium"
Nvidia == "uranium-nvidia"
Variants == {Uranium, Nvidia}

Architectures == {"amd64", "arm64"}

(* An index, by the commit it was built from and the architectures it      *)
(* lists.  Two builds of one commit are not told apart.                    *)
Indexes == [commit : Commits, archs : SUBSET Architectures]
NoIndex == [commit |-> 0, archs |-> {}]
Digests == Indexes \cup {NoIndex}

IndexOf(c) == [commit |-> c, archs |-> Architectures]

(* The jq test every workflow applies to the raw manifest.                 *)
MultiArch(i) == i.archs = Architectures
=============================================================================
