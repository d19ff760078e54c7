----------------------------- MODULE TestingTags -----------------------------
(***************************************************************************)
(* What the build workflows promise whoever reads :testing.  The tag of    *)
(* uranium-nvidia only ever names a multi-architecture index (issue #421), *)
(* and a signature is put on nothing else, whichever the variant; the tag  *)
(* of uranium may name a partial index that nobody signs.                  *)
(***************************************************************************)
EXTENDS OciImages

VARIABLES
  testing,  \* testing[v]: the digest the :testing tag of v resolves to
  signed    \* <<variant, digest>> pairs that carry a signature

tagVars == <<testing, signed>>

Init ==
  /\ testing = [v \in Variants |-> NoIndex]
  /\ signed = {}

Publish(v, i) ==
  /\ v = Nvidia => MultiArch(i)
  /\ testing' = [testing EXCEPT ![v] = i]
  /\ UNCHANGED signed

Sign(v, i) ==
  /\ MultiArch(i)
  /\ signed' = signed \cup {<<v, i>>}
  /\ UNCHANGED testing

Next == \E v \in Variants, i \in Indexes : Publish(v, i) \/ Sign(v, i)

Spec == Init /\ [][Next]_tagVars
=============================================================================
