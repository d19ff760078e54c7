---------------------------- MODULE RpmVersions -----------------------------
(***************************************************************************)
(* The version order of factory/tools/import_srpm.py, rpmvercmp.  A        *)
(* version is the sequence of its segments: numbers, words (an integer     *)
(* stands for the word, in alphabetical order), separators, tildes and     *)
(* carets.  Two numbers, or two words, always have something between them. *)
(***************************************************************************)
EXTENDS Integers, Sequences, FiniteSets

Number(n) == <<"number", n>>
Word(n) == <<"word", n>>
Separator == <<"separator", 0>>
Tilde == <<"tilde", 0>>
Caret == <<"caret", 0>>

Segments == ({"number", "word"} \X Nat) \cup {Separator, Tilde, Caret}

(* The version and the release of an RPM are never empty.                  *)
VersionStrings == Seq(Segments) \ {<<>>}

WellFormed(s) == \A k \in 1..Len(s) - 1 :
  s[k][1] \in {"number", "word"} => s[k + 1][1] # s[k][1]

-----------------------------------------------------------------------------
Ended(s, k) == k > Len(s)

IsAt(s, k, segment) == ~Ended(s, k) /\ s[k] = segment

(* The first position from k on that is not a separator.                   *)
Skip(s, k) ==
  CHOOSE m \in k..Len(s) + 1 :
    /\ ~IsAt(s, m, Separator)
    /\ \A n \in k..m - 1 : IsAt(s, n, Separator)

Sign(isGreater) == IF isGreater THEN 1 ELSE -1

(* A tilde sorts before everything, the end of the string included.        *)
PastTilde(l, r, i, j, rest) ==
  IF IsAt(l, i, Tilde) = IsAt(r, j, Tilde) THEN rest ELSE Sign(IsAt(r, j, Tilde))

(* A caret sorts after the end of the string and before any segment.       *)
PastCaret(l, r, i, j, rest) ==
  IF IsAt(l, i, Caret) = IsAt(r, j, Caret) THEN rest
  ELSE IF Ended(l, i) \/ Ended(r, j) THEN Sign(Ended(r, j))
  ELSE Sign(IsAt(r, j, Caret))

(* The longer one is newer when one runs out.                              *)
PastEnd(l, r, i, j, rest) ==
  IF Ended(l, i) = Ended(r, j) THEN IF Ended(l, i) THEN 0 ELSE rest
  ELSE Sign(Ended(r, j))

(* Numbers win against words; two of a kind compare by value, numbers      *)
(* without their leading zeros.                                            *)
PastSegment(a, b) ==
  IF a[1] # b[1] THEN Sign(a[1] = "number")
  ELSE IF a[2] # b[2] THEN Sign(a[2] > b[2])
  ELSE 0

(* What one pass of the loop says, 0 when the two are alike so far.        *)
Verdict(l, r, i, j) ==
  PastTilde(l, r, i, j, PastCaret(l, r, i, j, PastEnd(l, r, i, j, PastSegment(l[i], r[j]))))

Positions(l, r) == (1..Len(l) + 1) \X (1..Len(r) + 1)

(* The passes from position p on: a tilde, a caret or a segment of either  *)
(* side at a time, separators skipped, until one pass tells.               *)
Passes(l, r) ==
  LET from[p \in Positions(l, r)] ==
        LET i == Skip(l, p[1])
            j == Skip(r, p[2])
        IN IF Verdict(l, r, i, j) # 0 \/ Ended(l, i) \/ Ended(r, j) THEN Verdict(l, r, i, j)
           ELSE from[<<i + 1, j + 1>>]
  IN from

(* rpmvercmp: -1, 0 or 1.                                                  *)
Compare(l, r) ==
  IF l = r THEN 0 ELSE IF l = <<>> \/ r = <<>> THEN Sign(r = <<>>)
  ELSE Passes(l, r)[<<1, 1>>]

-----------------------------------------------------------------------------
(* The same order said without a loop: versions compare segment by segment *)
(* in the order tilde, end, caret, words, numbers, separators aside.       *)
Rank == [tilde |-> 1, end |-> 2, caret |-> 3, word |-> 4, number |-> 5]

(* How many of the first m are not separators.                             *)
Counted(s, m) == Cardinality({n \in 1..m : s[n] # Separator})

Places(s, k) == {m \in 1..Len(s) : s[m] # Separator /\ Counted(s, m) = k}

Kth(s, k) == IF Places(s, k) = {} THEN <<"end", 0>> ELSE s[CHOOSE m \in Places(s, k) : TRUE]

Key(s, k) == <<Rank[Kth(s, k)[1]], Kth(s, k)[2]>>

Below(a, b) == a[1] < b[1] \/ (a[1] = b[1] /\ a[2] < b[2])

Precedes(l, r) ==
  \E k \in 1..Len(l) + Len(r) + 1 :
    /\ \A m \in 1..k - 1 : Key(l, m) = Key(r, m)
    /\ Below(Key(l, k), Key(r, k))
=============================================================================
