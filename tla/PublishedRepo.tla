--------------------------- MODULE PublishedRepo ----------------------------
(***************************************************************************)
(* What the factory promises whoever pulls its repository image            *)
(* (factory-publish.yml, header): each stream moves in one step from one   *)
(* installable repository to the next, and a step may replace RPMs or add  *)
(* a recipe but never loses one.                                           *)
(***************************************************************************)
EXTENDS Factory

CONSTANT Tags \* stream tags of the image repository

VARIABLE repo \* repo[t]: RPMs of the image under t, None before the first

Init == repo = [t \in Tags |-> None]

Moves(t) ==
  /\ repo' \in [Tags -> Contents \cup {None}]
  /\ \A u \in Tags \ {t} : repo'[u] = repo[u]
  /\ repo'[t] # None
  /\ Installable(repo'[t])

(* The first image of a stream may start from another stream's. *)
Open(t) == repo[t] = None /\ Moves(t)

Replace(t) ==
  /\ repo[t] # None
  /\ Moves(t)
  /\ \A p \in Packages : repo'[t][p] = None => repo[t][p] = None

Next == \E t \in Tags : Open(t) \/ Replace(t)

Spec == Init /\ [][Next]_repo
=============================================================================
