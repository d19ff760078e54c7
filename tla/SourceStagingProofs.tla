------------------------ MODULE SourceStagingProofs -------------------------
(***************************************************************************)
(* Proofs about source locks and the jobs that stage and build from them,  *)
(* for every set of recipes, of sources and of contents.                   *)
(***************************************************************************)
EXTENDS SourceStaging, FiniteSetTheorems, SequenceTheorems, WellFoundedInduction, TLAPS

-----------------------------------------------------------------------------
LEMMA SetToSeqTyped ==
  ASSUME NEW S, IsFiniteSet(S)
  PROVE  SetToSeq(S) \in Seq(S)
<1>1. Cardinality(S) \in Nat /\ ExistsBijection(1..Cardinality(S), S)
  BY FS_CardinalityType
<1>2. \E f \in [1..Cardinality(S) -> S] : IsInjective(f)
  BY <1>1 DEF ExistsBijection, Bijection, Injection
<1>3. SetToSeq(S) \in [1..Cardinality(S) -> S]
  BY <1>2 DEF SetToSeq
<1> QED
  BY <1>1, <1>3

LEMMA SetToSeqWider ==
  ASSUME NEW T, NEW S \in SUBSET T, IsFiniteSet(S)
  PROVE  SetToSeq(S) \in Seq(T)
BY SetToSeqTyped

LEMMA ToSetMembers ==
  ASSUME NEW S, NEW s \in Seq(S)
  PROVE  /\ ToSet(s) = {s[k] : k \in 1..Len(s)}
         /\ ToSet(s) \subseteq S
         /\ IsFiniteSet(ToSet(s))
<1>1. Len(s) \in Nat /\ DOMAIN s = 1..Len(s) /\ s \in [1..Len(s) -> S]
  BY LenProperties
<1>2. ToSet(s) = {s[k] : k \in 1..Len(s)} /\ ToSet(s) \subseteq S
  BY <1>1 DEF ToSet
<1>3. IsFiniteSet(1..Len(s))
  BY <1>1, FS_Interval
<1>4. s \in Surjection(1..Len(s), ToSet(s))
  BY <1>1, <1>2 DEF Surjection
<1>5. IsFiniteSet(ToSet(s))
  BY <1>3, <1>4, FS_Surjection
<1> QED
  BY <1>2, <1>5

LEMMA NoneFacts ==
  /\ None \notin Bytes /\ None \notin Files /\ None \notin Urls
  /\ None \notin SpecSources /\ None \notin Entries /\ None \notin Packages
  /\ None \notin LockSources
BY LocksAssumption, NamesAssumption

LEMMA NoSourcesTyped == NoSources \in SpecSources
BY DEF NoSources, SpecSources

LEMMA NoUpstreamTyped == NoUpstream \in Entries /\ NoUpstream.none /\ NoUpstream.sources = <<>>
BY DEF NoUpstream, Entries

-----------------------------------------------------------------------------
(* The lock.  What a commit holds, every check of validate.py let in.      *)
CommittedAccepted ==
  \A p \in Packages : committed.sources[p] # None =>
    committed.lock[p] # None /\ Accepted(committed.lock[p])

LocksInv == LocksTypeOK /\ CommittedAccepted

LEMMA EntryFacts ==
  ASSUME LocksTypeOK, NEW p \in Packages, lock[p] # None
  PROVE  /\ lock[p] \in Entries
         /\ lock[p].sources \in Seq(LockSources)
         /\ ToSet(lock[p].sources) \subseteq LockSources
         /\ IsFiniteSet(ToSet(lock[p].sources))
<1>1. lock[p] \in Entries
  BY DEF LocksTypeOK
<1>2. lock[p].sources \in Seq(LockSources)
  BY <1>1 DEF Entries
<1> QED
  BY <1>1, <1>2, ToSetMembers

LEMMA LockedFacts ==
  ASSUME LocksTypeOK
  PROVE  Locked \subseteq LockSources /\ IsFiniteSet(Locked)
<1> DEFINE Q == {q \in Packages : lock[q] # None}
           F == [p \in Q |-> ToSet(lock[p].sources)]
           All == {ToSet(lock[p].sources) : p \in Q}
<1>1. IsFiniteSet(Q)
  BY LocksAssumption, FS_Subset
<1>2. F \in Surjection(Q, All)
  BY DEF Surjection
<1>3. IsFiniteSet(All)
  BY <1>1, <1>2, FS_Surjection
<1>4. \A T \in All : IsFiniteSet(T)
  BY EntryFacts
<1>5. IsFiniteSet(UNION All)
  BY <1>3, <1>4, FS_UNION
<1>6. Locked = UNION All
  BY DEF Locked, LockedIn
<1>7. Locked \subseteq LockSources
  BY EntryFacts DEF Locked, LockedIn
<1> QED
  BY <1>5, <1>6, <1>7

LEMMA SpellingTyped ==
  /\ ToolsSpelling \in AllSpellings
  /\ \A x \in AllSpellings :
       [fields |-> {"sha512"}, type |-> IF x.type = "" THEN "sha512" ELSE x.type] \in AllSpellings
BY DEF ToolsSpelling, AllSpellings

LEMMA DownloadTyped ==
  ASSUME NEW u \in Urls, NEW last \in LockSources \cup {None}, NEW served \in Bytes \cup {None}
  PROVE  Download(u, last, served) \in LockSources /\ Download(u, last, served).url = u
<1>1. ASSUME NEW digest \in Bytes \cup {None}, NEW spelling \in AllSpellings
      PROVE  Source(u, digest, spelling) \in LockSources /\ Source(u, digest, spelling).url = u
  <2>1. FileOf[u] \in Files /\ u # None
    BY LocksAssumption, NoneFacts
  <2> QED
    BY <2>1 DEF Source, LockSources
<1>2. CASE last # None /\ HasSha512(last)
  <2>1. last.digest \in Bytes \cup {None} /\ last.spelling \in AllSpellings
    BY <1>2 DEF LockSources
  <2> QED
    BY <1>1, <1>2, <2>1, SpellingTyped DEF Download
<1>3. CASE ~(last # None /\ HasSha512(last))
  BY <1>1, <1>3, SpellingTyped DEF Download
<1> QED
  BY <1>2, <1>3

LEMMA DownloadsTyped ==
  ASSUME NEW named \in SpecSources, NEW last, NEW served,
         \A u \in ToSet(named.remote) :
           last[u] \in LockSources \cup {None} /\ served[u] \in Bytes \cup {None}
  PROVE  LET downloads == [k \in 1..Len(named.remote) |->
               Download(named.remote[k], last[named.remote[k]], served[named.remote[k]])]
         IN downloads \in Seq(LockSources) /\ Len(downloads) = Len(named.remote)
<1>1. named.remote \in Seq(Urls)
  BY DEF SpecSources
<1>2. Len(named.remote) \in Nat /\ \A k \in 1..Len(named.remote) :
        named.remote[k] \in Urls /\ named.remote[k] \in ToSet(named.remote)
  BY <1>1, ToSetMembers, LenProperties
<1>3. ASSUME NEW k \in 1..Len(named.remote)
      PROVE  Download(named.remote[k], last[named.remote[k]], served[named.remote[k]])
               \in LockSources
  <2> DEFINE u == named.remote[k]
  <2>1. /\ u \in Urls /\ last[u] \in LockSources \cup {None}
        /\ served[u] \in Bytes \cup {None}
    BY <1>2
  <2> QED
    BY <2>1, DownloadTyped
<1> QED
  BY <1>2, <1>3

LEMMA PreviousTyped ==
  ASSUME LocksTypeOK, NEW last \in Previous
  PROVE  /\ last \in [Remote -> LockSources \cup {None}]
         /\ \A u \in Remote : last[u] \in IF Listed(u) = {} THEN {None} ELSE Listed(u)
<1>1. Locked \cup {None} \subseteq LockSources \cup {None}
  BY LockedFacts
<1> QED
  BY <1>1 DEF Previous

LEMMA RenderedTyped ==
  ASSUME LocksTypeOK, NEW named \in SpecSources, NEW last, NEW served,
         \A u \in ToSet(named.remote) :
           last[u] \in LockSources \cup {None} /\ served[u] \in Bytes \cup {None}
  PROVE  Rendered(named, last, served) \in Entries
<1> DEFINE generated == {s \in Locked : s.from # None /\ s.file \in named.local}
           absent == named.local \ (Carried \cup {s.file : s \in generated})
           downloads == [k \in 1..Len(named.remote) |->
             Download(named.remote[k], last[named.remote[k]], served[named.remote[k]])]
<1>3. downloads \in Seq(LockSources)
  BY DownloadsTyped
<1>4. SetToSeq(generated) \in Seq(LockSources)
  <2>1. generated \in SUBSET LockSources /\ IsFiniteSet(generated)
    BY LockedFacts, FS_Subset
  <2> QED
    BY <2>1, SetToSeqWider
<1>5. downloads \o SetToSeq(generated) \in Seq(LockSources)
  BY <1>3, <1>4, ConcatProperties
<1> DEFINE all == downloads \o SetToSeq(generated)
<1> HIDE DEF generated, downloads, absent, all
<1>6. Rendered(named, last, served) = IF named.remote = <<>> THEN NoUpstream
        ELSE [none |-> FALSE, blocked |-> absent # {}, sources |-> all]
  BY DEF Rendered, generated, downloads, absent, all
<1>7. all \in Seq(LockSources)
  BY <1>5 DEF all
<1>8. [none |-> FALSE, blocked |-> absent # {}, sources |-> all] \in Entries
  <2>1. (absent # {}) \in BOOLEAN
    OBVIOUS
  <2> QED
    BY <1>7, <2>1 DEF Entries
<1> QED
  BY <1>6, <1>8, NoUpstreamTyped

(* Entries change one at a time, or all at once in a render.               *)
LEMMA MirrorTyped ==
  ASSUME LocksTypeOK, NEW p \in Packages, NEW k \in 1..2, NEW u \in Mirrors, AddMirror(p, k, u)
  PROVE  lock' \in [Packages -> Entries \cup {None}] /\ lock'[p] \in Entries
<1> DEFINE e == lock[p]
           s == e.sources[k]
           t == [s EXCEPT !.mirrors = @ \cup {u}]
<1>1. e \in Entries /\ e.sources \in Seq(LockSources) /\ k \in 1..Len(e.sources)
  BY EntryFacts DEF AddMirror
<1>2. s \in LockSources
  BY <1>1, ElementOfSeq
<1>3. t \in LockSources
  BY <1>2 DEF LockSources
<1>4. [e.sources EXCEPT ![k] = t] \in Seq(LockSources)
  BY <1>1, <1>3, ExceptSeq
<1>5. e.sources # <<>>
  BY <1>1
<1>6. [e EXCEPT !.sources = [e.sources EXCEPT ![k] = t]] \in Entries
  BY <1>1, <1>4, <1>5 DEF Entries
<1>7. lock' = [lock EXCEPT ![p] = [e EXCEPT !.sources = [e.sources EXCEPT ![k] = t]]]
  BY DEF AddMirror
<1> QED
  BY <1>6, <1>7 DEF LocksTypeOK

LEMMA SpellTyped ==
  ASSUME LocksTypeOK, NEW p \in Packages, NEW k \in 1..2, NEW spelling \in Spellings,
         Spell(p, k, spelling)
  PROVE  lock' \in [Packages -> Entries \cup {None}] /\ lock'[p] \in Entries
<1> DEFINE e == lock[p]
           s == e.sources[k]
           t == [s EXCEPT !.spelling = spelling]
<1>1. e \in Entries /\ e.sources \in Seq(LockSources) /\ k \in 1..Len(e.sources)
  BY EntryFacts DEF Spell
<1>2. s \in LockSources
  BY <1>1, ElementOfSeq
<1>3. t \in LockSources
  BY <1>2, LocksAssumption DEF LockSources
<1>4. [e.sources EXCEPT ![k] = t] \in Seq(LockSources)
  BY <1>1, <1>3, ExceptSeq
<1>5. e.sources # <<>>
  BY <1>1
<1>6. [e EXCEPT !.sources = [e.sources EXCEPT ![k] = t]] \in Entries
  BY <1>1, <1>4, <1>5 DEF Entries
<1>7. lock' = [lock EXCEPT ![p] = [e EXCEPT !.sources = [e.sources EXCEPT ![k] = t]]]
  BY DEF Spell
<1> QED
  BY <1>6, <1>7 DEF LocksTypeOK

LEMMA VendorTyped ==
  ASSUME LocksTypeOK, NEW p \in Packages, NEW k \in 1..2, NEW f \in Files,
         NEW odd \in BOOLEAN, AddVendor(p, k, f, odd)
  PROVE  lock' \in [Packages -> Entries \cup {None}] /\ lock'[p] \in Entries
<1> DEFINE e == lock[p]
           input == e.sources[k]
           vendor == [url |-> None, file |-> f, digest |-> VendorOf[input.digest],
                      spelling |-> ToolsSpelling, mirrors |-> {}, from |-> input.file,
                      odd |-> odd]
           known == {f} \cup Carried \cup {s.file : s \in ToSet(lock[p].sources)}
           blocked == ~(sources[p].local \subseteq known)
<1>1. e \in Entries /\ e.sources \in Seq(LockSources) /\ k \in 1..Len(e.sources)
  BY EntryFacts DEF AddVendor
<1>2. input \in LockSources /\ input.digest # None
  BY <1>1, ElementOfSeq DEF AddVendor
<1>3. VendorOf[input.digest] \in Bytes /\ input.file \in Files /\ input.file # None
  BY <1>2, LocksAssumption, NoneFacts DEF LockSources
<1>4. vendor \in LockSources
  BY <1>3, SpellingTyped DEF LockSources
<1>5. Append(e.sources, vendor) \in Seq(LockSources)
  BY <1>1, <1>4, AppendProperties
<1>6. ~e.none
  BY <1>1 DEF Entries
<1>7. blocked \in BOOLEAN
  OBVIOUS
<1> HIDE DEF blocked
<1>8. [e EXCEPT !.sources = Append(e.sources, vendor), !.blocked = blocked] \in Entries
  BY <1>1, <1>5, <1>6, <1>7 DEF Entries
<1>9. lock' = [lock EXCEPT ![p] =
                 [e EXCEPT !.sources = Append(e.sources, vendor), !.blocked = blocked]]
  BY DEF AddVendor, blocked
<1> QED
  BY <1>8, <1>9 DEF LocksTypeOK

LEMMA RenderFacts ==
  ASSUME LocksTypeOK, Render
  PROVE  lock' \in [Packages -> Entries \cup {None}] /\ dropped' \subseteq Urls
<1>1. PICK last \in Previous, served \in [Remote -> Bytes \cup {None}], dumb \in SUBSET Recipes :
        /\ lock' = [p \in Packages |->
                     IF p \notin Recipes THEN None
                     ELSE Rendered(IF p \in dumb THEN NoSources ELSE sources[p], last, served)]
        /\ dropped' = dropped
             \cup ({s.url : s \in Locked} \ ({s.url : s \in Locked'} \cup {None}))
             \cup {u \in Remote : last[u] # None /\ ~HasSha512(last[u])}
  BY DEF Render
<1>2. ASSUME NEW p \in Recipes
      PROVE  Rendered(IF p \in dumb THEN NoSources ELSE sources[p], last, served) \in Entries
  <2> DEFINE named == IF p \in dumb THEN NoSources ELSE sources[p]
  <2>1. named \in SpecSources
    BY <1>2, NoSourcesTyped DEF Recipes, LocksTypeOK
  <2>2. ToSet(named.remote) \subseteq Remote
    BY <1>2 DEF NoSources, Remote, ToSet
  <2>3. \A u \in ToSet(named.remote) :
          last[u] \in LockSources \cup {None} /\ served[u] \in Bytes \cup {None}
    BY <2>2, PreviousTyped
  <2> QED
    BY <2>1, <2>3, RenderedTyped
<1>3. lock' \in [Packages -> Entries \cup {None}]
  BY <1>1, <1>2
<1>4. {s.url : s \in Locked} \subseteq Urls \cup {None}
  BY LockedFacts DEF LockSources
<1>5. Remote \subseteq Urls
  <2>1. ASSUME NEW p \in Recipes PROVE ToSet(sources[p].remote) \subseteq Urls
    BY <2>1, ToSetMembers DEF Recipes, LocksTypeOK, SpecSources
  <2> QED
    BY <2>1 DEF Remote
<1>6. dropped' \subseteq Urls
  BY <1>1, <1>4, <1>5 DEF LocksTypeOK
<1> QED
  BY <1>3, <1>6

LEMMA LocksInvInit == LocksInit => LocksInv
<1> SUFFICES ASSUME LocksInit PROVE LocksInv
  OBVIOUS
<1>1. /\ committed.sources = [p \in Packages |-> None]
      /\ committed.lock = [p \in Packages |-> None]
      /\ committed = [sources |-> committed.sources, lock |-> committed.lock]
  BY DEF LocksInit
<1> QED
  BY <1>1 DEF LocksInit, LocksInv, LocksTypeOK, CommittedAccepted

(* What happens in the working tree leaves the last commit alone.          *)
LEMMA LocksInvStep == LocksInv /\ (LocksStep \/ UNCHANGED lockVars) => LocksInv'
<1> SUFFICES ASSUME LocksInv, LocksStep \/ UNCHANGED lockVars PROVE LocksInv'
  OBVIOUS
<1> USE DEF LocksInv
<1>1. CASE Render
  BY <1>1, RenderFacts DEF Render, LocksTypeOK, CommittedAccepted
<1>2. CASE RenderDies
  BY <1>2 DEF RenderDies, LocksTypeOK, CommittedAccepted
<1>3. CASE Restore
  BY <1>3 DEF Restore, LocksTypeOK, CommittedAccepted
<1>4. ASSUME NEW p \in Packages, EditSpec(p) PROVE LocksInv'
  <2>1. PICK named \in SpecsOf[p] : sources' = [sources EXCEPT ![p] = named]
    BY <1>4 DEF EditSpec
  <2>2. named \in SpecSources
    BY LocksAssumption
  <2>3. sources' \in [Packages -> SpecSources \cup {None}]
    BY <2>1, <2>2 DEF LocksTypeOK
  <2> QED
    BY <1>4, <2>3 DEF EditSpec, LocksTypeOK, CommittedAccepted
<1>5. ASSUME NEW p \in Packages, NEW k \in 1..2, NEW u \in Mirrors, AddMirror(p, k, u)
      PROVE  LocksInv'
  BY <1>5, MirrorTyped DEF AddMirror, LocksTypeOK, CommittedAccepted
<1>6. ASSUME NEW p \in Packages, NEW k \in 1..2, NEW f \in Files, NEW odd \in BOOLEAN,
             AddVendor(p, k, f, odd)
      PROVE  LocksInv'
  BY <1>6, VendorTyped DEF AddVendor, LocksTypeOK, CommittedAccepted
<1>7. ASSUME NEW p \in Packages, NEW k \in 1..2, NEW spelling \in Spellings,
             Spell(p, k, spelling)
      PROVE  LocksInv'
  BY <1>7, SpellTyped DEF Spell, LocksTypeOK, CommittedAccepted
<1>8. CASE UNCHANGED lockVars
  BY <1>8 DEF lockVars, LocksTypeOK, CommittedAccepted
<1> QED
  BY <1>1, <1>2, <1>3, <1>4, <1>5, <1>6, <1>7, <1>8 DEF LocksStep

(* A commit is of what the gate let in.                                    *)
LEMMA CommitStep == LocksInv /\ Commit => LocksInv'
BY DEF Commit, LocksValid, Recipes, LocksInv, LocksTypeOK, CommittedAccepted

LEMMA AppearStep == \A p \in Packages : LocksInv /\ Appear(p) => LocksInv'
BY LocksAssumption DEF Appear, LocksInv, LocksTypeOK, CommittedAccepted

LEMMA AcceptedFacts ==
  ASSUME NEW e \in Entries, Accepted(e)
  PROVE  /\ e.sources \in Seq(LockSources)
         /\ Len(e.sources) \in Nat
         /\ ~e.none => e.sources # <<>> /\ 1 \in 1..Len(e.sources)
         /\ \A k \in 1..Len(e.sources) :
              /\ e.sources[k] \in LockSources
              /\ e.sources[k] \in ToSet(e.sources)
              /\ e.sources[k].digest \in Bytes
              /\ e.sources[k].from # None =>
                   \E j \in 1..k - 1 : e.sources[j].file = e.sources[k].from
         /\ \A s \in ToSet(e.sources) : s \in LockSources /\ s.digest # None
<1>1. e.sources \in Seq(LockSources) /\ (e.none => e.sources = <<>>)
  BY DEF Entries
<1>2. Len(e.sources) \in Nat /\ ToSet(e.sources) = {e.sources[k] : k \in 1..Len(e.sources)}
        /\ ToSet(e.sources) \subseteq LockSources
  BY <1>1, LenProperties, ToSetMembers
<1>3. ~e.none => e.sources # <<>> /\ 1 \in 1..Len(e.sources)
  BY <1>1, <1>2, EmptySeq DEF Accepted
<1>4. ASSUME NEW k \in 1..Len(e.sources)
      PROVE  /\ e.sources[k] \in LockSources
             /\ e.sources[k] \in ToSet(e.sources)
             /\ e.sources[k].digest \in Bytes
             /\ e.sources[k].from # None =>
                  \E j \in 1..k - 1 : e.sources[j].file = e.sources[k].from
  <2>1. ~e.none
    BY <1>1, <1>4
  <2>2. /\ e.sources[k].digest # None
        /\ e.sources[k].from # None =>
             \E s \in {e.sources[j] : j \in 1..k - 1} : s.file = e.sources[k].from /\ s.from = None
    BY <2>1, Zenon DEF Accepted
  <2>3. e.sources[k] \in LockSources /\ e.sources[k] \in ToSet(e.sources)
    BY <1>1, <1>2, ElementOfSeq
  <2> QED
    BY <2>2, <2>3 DEF LockSources
<1>5. \A s \in ToSet(e.sources) : s \in LockSources /\ s.digest # None
  BY <1>2, <1>4, NoneFacts
<1> QED
  BY <1>1, <1>2, <1>3, <1>4, <1>5

-----------------------------------------------------------------------------
(* Digests.  A file has one digest for a URL at most; every committed      *)
(* source has one; and what the last commit says of a URL the working tree *)
(* still says, but for URLs that a render forgot, or a torn file.          *)
Agrees(file) ==
  \A s, t \in LockedIn(file) :
    s.url # None /\ s.url = t.url /\ s.digest # None /\ t.digest # None => s.digest = t.digest

DigestInv ==
  /\ Agrees(lock)
  /\ Agrees(committed.lock)
  /\ \A s \in LockedIn(committed.lock) : s.digest # None
  /\ ~torn => \A u \in Urls \ dropped :
       Digests(committed.lock, u) # {} => Digests(lock, u) = Digests(committed.lock, u)

LEMMA LockedInMembers ==
  ASSUME NEW file \in [Packages -> Entries \cup {None}]
  PROVE  /\ \A s \in LockedIn(file) : \E p \in Packages :
              /\ file[p] # None
              /\ \E k \in 1..Len(file[p].sources) : s = file[p].sources[k]
         /\ \A p \in Packages : file[p] # None =>
              \A k \in 1..Len(file[p].sources) : file[p].sources[k] \in LockedIn(file)
<1>1. ASSUME NEW p \in Packages, file[p] # None
      PROVE  ToSet(file[p].sources) = {file[p].sources[k] : k \in 1..Len(file[p].sources)}
  <2>1. file[p].sources \in Seq(LockSources)
    BY <1>1 DEF Entries
  <2> QED
    BY <2>1, ToSetMembers
<1> QED
  BY <1>1 DEF LockedIn

(* What an edit by hand leaves as it was.                                  *)
Alike(file, other) ==
  \A s \in LockedIn(other) : s.url # None =>
    \E t \in LockedIn(file) : t.url = s.url /\ t.digest = s.digest

LEMMA AlikeKeepsDigests ==
  ASSUME DigestInv, Alike(lock, lock'), Alike(lock', lock),
         UNCHANGED <<torn, committed, dropped>>
  PROVE  DigestInv'
<1>1. Agrees(lock)'
  BY DEF DigestInv, Agrees, Alike
<1>2. ASSUME NEW u \in Urls PROVE Digests(lock, u)' = Digests(lock, u)
  BY NoneFacts DEF Digests, Alike
<1> QED
  BY <1>1, <1>2 DEF DigestInv

(* One source is replaced by another of the same URL and digest.           *)
LEMMA ReplacedAlike ==
  ASSUME LocksTypeOK, NEW p \in Packages, lock[p] # None, NEW k \in 1..Len(lock[p].sources),
         NEW t \in LockSources,
         t.url = lock[p].sources[k].url, t.digest = lock[p].sources[k].digest,
         lock' \in [Packages -> Entries \cup {None}], lock'[p] \in Entries,
         lock' = [lock EXCEPT ![p] =
                   [lock[p] EXCEPT !.sources = [lock[p].sources EXCEPT ![k] = t]]]
  PROVE  Alike(lock, lock') /\ Alike(lock', lock)
<1> DEFINE seq == [lock[p].sources EXCEPT ![k] = t]
<1>1. /\ lock \in [Packages -> Entries \cup {None}]
      /\ lock[p] # None /\ lock[p] \in Entries /\ lock[p].sources \in Seq(LockSources)
  BY EntryFacts DEF LocksTypeOK
<1>3. t \in LockSources /\ t.url = lock[p].sources[k].url /\ t.digest = lock[p].sources[k].digest
  OBVIOUS
<1>4. lock' = [lock EXCEPT ![p] = [lock[p] EXCEPT !.sources = seq]]
  OBVIOUS
<1>5. /\ Len(seq) = Len(lock[p].sources)
      /\ \A j \in 1..Len(lock[p].sources) : seq[j] = IF j = k THEN t ELSE lock[p].sources[j]
  BY <1>1, <1>3, ExceptSeq
<1> HIDE DEF seq
<1>6. lock'[p].sources = seq /\ \A q \in Packages \ {p} : lock'[q] = lock[q]
  BY <1>1, <1>4 DEF Entries
<1>7. \A q \in Packages : lock'[q] # None <=> lock[q] # None
  BY <1>1, <1>6, NoneFacts
<1>8. ASSUME NEW q \in Packages, lock[q] # None
      PROVE  /\ Len(lock'[q].sources) = Len(lock[q].sources)
             /\ \A j \in 1..Len(lock[q].sources) :
                  /\ lock'[q].sources[j].url = lock[q].sources[j].url
                  /\ lock'[q].sources[j].digest = lock[q].sources[j].digest
  <2>1. CASE q = p
    <3>1. ASSUME NEW j \in 1..Len(lock[p].sources)
          PROVE  seq[j].url = lock[p].sources[j].url /\ seq[j].digest = lock[p].sources[j].digest
      BY <1>3, <1>5
    <3> QED
      BY <1>5, <1>6, <2>1, <3>1
  <2>2. CASE q # p
    BY <1>6, <2>2
  <2> QED
    BY <2>1, <2>2
<1> DEFINE new == lock'
<1>0. new \in [Packages -> Entries \cup {None}]
  OBVIOUS
<1>a. /\ \A q \in Packages : new[q] # None <=> lock[q] # None
      /\ \A q \in Packages : lock[q] # None =>
           /\ Len(new[q].sources) = Len(lock[q].sources)
           /\ \A j \in 1..Len(lock[q].sources) :
                /\ new[q].sources[j].url = lock[q].sources[j].url
                /\ new[q].sources[j].digest = lock[q].sources[j].digest
  BY <1>7, <1>8
<1> HIDE DEF new
<1>9. Alike(lock, new)
  <2> SUFFICES ASSUME NEW s \in LockedIn(new), s.url # None
               PROVE  \E r \in LockedIn(lock) : r.url = s.url /\ r.digest = s.digest
    BY DEF Alike
  <2>1. PICK q \in Packages : /\ new[q] # None
                              /\ \E j \in 1..Len(new[q].sources) : s = new[q].sources[j]
    BY <1>0, LockedInMembers
  <2>2. lock[q] # None /\ \E j \in 1..Len(lock[q].sources) : s = new[q].sources[j]
    BY <1>a, <2>1
  <2>3. PICK j \in 1..Len(lock[q].sources) : s = new[q].sources[j]
    BY <2>2
  <2>4. lock[q].sources[j] \in LockedIn(lock)
    BY <1>1, <2>2, LockedInMembers
  <2>5. lock[q].sources[j].url = s.url /\ lock[q].sources[j].digest = s.digest
    BY <1>a, <2>2, <2>3
  <2> QED
    BY <2>4, <2>5
<1>10. Alike(new, lock)
  <2> SUFFICES ASSUME NEW s \in LockedIn(lock)
               PROVE  \E r \in LockedIn(new) : r.url = s.url /\ r.digest = s.digest
    BY DEF Alike
  <2>1. PICK q \in Packages : /\ lock[q] # None
                              /\ \E j \in 1..Len(lock[q].sources) : s = lock[q].sources[j]
    BY <1>1, LockedInMembers
  <2>2. PICK j \in 1..Len(lock[q].sources) : s = lock[q].sources[j]
    BY <2>1
  <2>3. new[q] # None /\ j \in 1..Len(new[q].sources)
    BY <1>a, <2>1
  <2>4. new[q].sources[j] \in LockedIn(new)
    BY <1>0, <2>3, LockedInMembers
  <2>5. new[q].sources[j].url = s.url /\ new[q].sources[j].digest = s.digest
    BY <1>a, <2>1, <2>2
  <2> QED
    BY <2>4, <2>5
<1> QED
  BY <1>9, <1>10 DEF new

LEMMA MirrorAlike ==
  ASSUME LocksTypeOK, NEW p \in Packages, NEW k \in 1..2, NEW u \in Mirrors, AddMirror(p, k, u)
  PROVE  Alike(lock, lock') /\ Alike(lock', lock)
<1> DEFINE t == [lock[p].sources[k] EXCEPT !.mirrors = @ \cup {u}]
<1>1. lock[p] # None /\ k \in 1..Len(lock[p].sources)
  BY DEF AddMirror
<1>2. lock[p].sources[k] \in LockSources
  BY <1>1, EntryFacts, ElementOfSeq
<1>3. t \in LockSources /\ t.url = lock[p].sources[k].url /\ t.digest = lock[p].sources[k].digest
  BY <1>2 DEF LockSources
<1>4. lock' = [lock EXCEPT ![p] = [lock[p] EXCEPT !.sources = [lock[p].sources EXCEPT ![k] = t]]]
  BY DEF AddMirror
<1> HIDE DEF t
<1> QED
  BY <1>1, <1>3, <1>4, MirrorTyped, ReplacedAlike

LEMMA SpellAlike ==
  ASSUME LocksTypeOK, NEW p \in Packages, NEW k \in 1..2, NEW spelling \in Spellings,
         Spell(p, k, spelling)
  PROVE  Alike(lock, lock') /\ Alike(lock', lock)
<1> DEFINE t == [lock[p].sources[k] EXCEPT !.spelling = spelling]
<1>1. lock[p] # None /\ k \in 1..Len(lock[p].sources)
  BY DEF Spell
<1>2. lock[p].sources[k] \in LockSources
  BY <1>1, EntryFacts, ElementOfSeq
<1>3. t \in LockSources /\ t.url = lock[p].sources[k].url /\ t.digest = lock[p].sources[k].digest
  BY <1>2, LocksAssumption DEF LockSources
<1>4. lock' = [lock EXCEPT ![p] = [lock[p] EXCEPT !.sources = [lock[p].sources EXCEPT ![k] = t]]]
  BY DEF Spell
<1> HIDE DEF t
<1> QED
  BY <1>1, <1>3, <1>4, SpellTyped, ReplacedAlike

LEMMA VendorAlike ==
  ASSUME LocksTypeOK, NEW p \in Packages, NEW k \in 1..2, NEW f \in Files,
         NEW odd \in BOOLEAN, AddVendor(p, k, f, odd)
  PROVE  Alike(lock, lock') /\ Alike(lock', lock)
<1> DEFINE vendor == [url |-> None, file |-> f, digest |-> VendorOf[lock[p].sources[k].digest],
                      spelling |-> ToolsSpelling, mirrors |-> {},
                      from |-> lock[p].sources[k].file, odd |-> odd]
           seq == Append(lock[p].sources, vendor)
<1>1. /\ lock \in [Packages -> Entries \cup {None}] /\ lock' \in [Packages -> Entries \cup {None}]
      /\ lock[p] # None /\ lock[p] \in Entries /\ lock[p].sources \in Seq(LockSources)
      /\ Len(lock[p].sources) \in Nat
  <2>1. lock[p] # None
    BY DEF AddVendor
  <2>2. lock[p] \in Entries /\ lock[p].sources \in Seq(LockSources)
    BY <2>1, EntryFacts
  <2> QED
    BY <2>1, <2>2, VendorTyped, LenProperties DEF LocksTypeOK
<1>2. \E b : lock' = [lock EXCEPT ![p].sources = seq, ![p].blocked = b]
  <2> DEFINE known == {f} \cup Carried \cup {s.file : s \in ToSet(lock[p].sources)}
             b == ~(sources[p].local \subseteq known)
  <2>1. lock' = [lock EXCEPT ![p].sources = seq, ![p].blocked = b]
    BY DEF AddVendor
  <2> HIDE DEF b, seq
  <2> QED
    BY <2>1
<1>3. /\ Len(seq) = Len(lock[p].sources) + 1
      /\ \A j \in 1..Len(lock[p].sources) : seq[j] = lock[p].sources[j]
      /\ seq[Len(lock[p].sources) + 1].url = None
  <2>1. lock[p].sources \in Seq(LockSources \cup {vendor}) /\ vendor \in LockSources \cup {vendor}
    BY <1>1
  <2>2. /\ Len(seq) = Len(lock[p].sources) + 1
        /\ \A j \in 1..Len(lock[p].sources) : seq[j] = lock[p].sources[j]
        /\ seq[Len(lock[p].sources) + 1] = vendor
    BY <2>1, AppendProperties
  <2> QED
    BY <2>2
<1> HIDE DEF seq, vendor
<1>4. lock'[p].sources = seq /\ \A q \in Packages \ {p} : lock'[q] = lock[q]
  BY <1>1, <1>2 DEF Entries
<1>5. lock'[p] # None
  BY VendorTyped, NoneFacts
<1>6. Alike(lock, lock')
  <2> SUFFICES ASSUME NEW s \in LockedIn(lock'), s.url # None
               PROVE  s \in LockedIn(lock)
    BY DEF Alike
  <2>1. PICK q \in Packages : /\ lock'[q] # None
                              /\ \E j \in 1..Len(lock'[q].sources) : s = lock'[q].sources[j]
    BY <1>1, LockedInMembers
  <2>2. CASE q = p
    <3>1. PICK j \in 1..Len(seq) : s = seq[j]
      BY <1>4, <2>1, <2>2
    <3>2. j \in 1..Len(lock[p].sources)
      BY <1>1, <1>3, <3>1
    <3> QED
      BY <1>1, <1>3, <3>1, <3>2, LockedInMembers
  <2>3. CASE q # p
    BY <1>1, <1>4, <2>1, <2>3, LockedInMembers
  <2> QED
    BY <2>2, <2>3
<1>7. Alike(lock', lock)
  <2> SUFFICES ASSUME NEW s \in LockedIn(lock)
               PROVE  s \in LockedIn(lock')
    BY DEF Alike
  <2>1. PICK q \in Packages : /\ lock[q] # None
                              /\ \E j \in 1..Len(lock[q].sources) : s = lock[q].sources[j]
    BY <1>1, LockedInMembers
  <2>2. CASE q = p
    <3>1. PICK j \in 1..Len(seq) : s = seq[j]
      BY <1>1, <1>3, <2>1, <2>2
    <3> QED
      BY <1>1, <1>4, <1>5, <3>1, LockedInMembers
  <2>3. CASE q # p
    BY <1>1, <1>4, <2>1, <2>3, LockedInMembers
  <2> QED
    BY <2>2, <2>3
<1> QED
  BY <1>6, <1>7

(* A render gives every URL one digest: the one the file has, if any.      *)
LEMMA RenderedDigests ==
  ASSUME LocksTypeOK, NEW named \in SpecSources, NEW last, NEW served,
         \A u \in ToSet(named.remote) :
           last[u] \in LockSources \cup {None} /\ served[u] \in Bytes \cup {None}
  PROVE  \A s \in ToSet(Rendered(named, last, served).sources) :
           s.url # None =>
             /\ s.url \in Urls /\ s.url \in ToSet(named.remote)
             /\ s.digest = Download(s.url, last[s.url], served[s.url]).digest
<1> DEFINE generated == {s \in Locked : s.from # None /\ s.file \in named.local}
           absent == named.local \ (Carried \cup {s.file : s \in generated})
           downloads == [k \in 1..Len(named.remote) |->
             Download(named.remote[k], last[named.remote[k]], served[named.remote[k]])]
           all == downloads \o SetToSeq(generated)
<1>1. CASE named.remote = <<>>
  <2>1. Rendered(named, last, served) = NoUpstream
    BY <1>1 DEF Rendered
  <2> QED
    BY <2>1 DEF NoUpstream, ToSet
<1>2. CASE named.remote # <<>>
  <2>1. Rendered(named, last, served).sources = all
    BY <1>2 DEF Rendered
  <2>2. /\ named.remote \in Seq(Urls) /\ Len(named.remote) \in Nat
        /\ \A k \in 1..Len(named.remote) :
             named.remote[k] \in Urls /\ named.remote[k] \in ToSet(named.remote)
    <3>1. named.remote \in Seq(Urls)
      BY DEF SpecSources
    <3> QED
      BY <3>1, ToSetMembers, LenProperties
  <2>3. downloads \in Seq(LockSources) /\ Len(downloads) = Len(named.remote)
    BY DownloadsTyped
  <2>4. SetToSeq(generated) \in Seq(generated) /\ generated \in SUBSET LockSources
    BY LockedFacts, FS_Subset, SetToSeqTyped
  <2>5. SetToSeq(generated) \in Seq(LockSources)
    BY <2>4
  <2> DEFINE tail == SetToSeq(generated)
  <2> HIDE DEF tail
  <2>6. \A k \in 1..Len(tail) : tail[k].url = None
    <3>1. \A s \in generated : s.url = None
      BY <2>4 DEF LockSources
    <3> QED
      BY <2>4, <3>1, ElementOfSeq DEF tail
  <2>7. \A k \in 1..Len(downloads) :
          /\ downloads[k].url \in Urls /\ downloads[k].url \in ToSet(named.remote)
          /\ downloads[k].digest =
               Download(downloads[k].url, last[downloads[k].url], served[downloads[k].url]).digest
    <3> SUFFICES ASSUME NEW k \in 1..Len(named.remote)
                 PROVE  LET u == downloads[k].url IN
                        /\ u \in Urls /\ u \in ToSet(named.remote)
                        /\ downloads[k].digest = Download(u, last[u], served[u]).digest
      BY <2>3
    <3> DEFINE u == named.remote[k]
    <3>1. downloads[k] = Download(u, last[u], served[u])
      OBVIOUS
    <3>2. u \in Urls /\ u \in ToSet(named.remote)
      BY <2>2
    <3>3. Download(u, last[u], served[u]).url = u
      BY <3>2, DownloadTyped
    <3> QED
      BY <3>1, <3>2, <3>3
  <2>8. /\ all \in Seq(LockSources) /\ Len(all) = Len(downloads) + Len(tail)
        /\ \A k \in 1..Len(downloads) + Len(tail) :
             all[k] = IF k <= Len(downloads) THEN downloads[k] ELSE tail[k - Len(downloads)]
    BY <2>3, <2>5, ConcatProperties DEF tail
  <2>9. Len(downloads) \in Nat /\ Len(tail) \in Nat
    BY <2>3, <2>5, LenProperties DEF tail
  <2> SUFFICES ASSUME NEW s \in ToSet(all), s.url # None
               PROVE  /\ s.url \in Urls /\ s.url \in ToSet(named.remote)
                      /\ s.digest = Download(s.url, last[s.url], served[s.url]).digest
    BY <2>1
  <2> HIDE DEF all, downloads
  <2>10. PICK k \in 1..Len(all) : s = all[k]
    BY <2>8, ToSetMembers
  <2>11. CASE k <= Len(downloads)
    <3>1. k \in 1..Len(downloads) /\ s = downloads[k]
      BY <2>8, <2>9, <2>10, <2>11
    <3> QED
      BY <2>7, <3>1
  <2>12. CASE ~(k <= Len(downloads))
    <3>1. k - Len(downloads) \in 1..Len(tail) /\ s = tail[k - Len(downloads)]
      BY <2>8, <2>9, <2>10, <2>12
    <3> QED
      BY <2>6, <3>1
  <2> QED
    BY <2>11, <2>12
<1> QED
  BY <1>1, <1>2

LEMMA RenderKeepsDigests ==
  ASSUME LocksTypeOK, DigestInv, Render
  PROVE  DigestInv'
<1>1. PICK last \in Previous, served \in [Remote -> Bytes \cup {None}], dumb \in SUBSET Recipes :
        /\ lock' = [p \in Packages |->
                     IF p \notin Recipes THEN None
                     ELSE Rendered(IF p \in dumb THEN NoSources ELSE sources[p], last, served)]
        /\ dropped' = dropped
             \cup ({s.url : s \in Locked} \ ({s.url : s \in Locked'} \cup {None}))
             \cup {u \in Remote : last[u] # None /\ ~HasSha512(last[u])}
  BY DEF Render
<1>2. ~torn /\ UNCHANGED <<torn, committed>>
  BY DEF Render
<1> DEFINE digest(u) == Download(u, last[u], served[u]).digest
<1>3. ASSUME NEW s \in LockedIn(lock'), s.url # None
      PROVE  s.url \in Urls /\ s.url \in Remote /\ s.digest = digest(s.url)
  <2>1. PICK p \in Packages : lock'[p] # None /\ s \in ToSet(lock'[p].sources)
    BY DEF LockedIn
  <2> DEFINE named == IF p \in dumb THEN NoSources ELSE sources[p]
  <2>2. p \in Recipes /\ lock'[p] = Rendered(named, last, served)
    BY <1>1, <2>1
  <2>3. named \in SpecSources /\ ToSet(named.remote) \subseteq Remote
    BY <2>2, NoSourcesTyped DEF Recipes, LocksTypeOK, NoSources, Remote, ToSet
  <2>4. \A u \in ToSet(named.remote) :
          last[u] \in LockSources \cup {None} /\ served[u] \in Bytes \cup {None}
    BY <2>3, PreviousTyped
  <2> HIDE DEF named
  <2>5. s.url \in Urls /\ s.url \in ToSet(named.remote) /\ s.digest = digest(s.url)
    BY <1>3, <2>1, <2>2, <2>3, <2>4, RenderedDigests
  <2> QED
    BY <2>3, <2>5
<1>4. Agrees(lock)'
  BY <1>3 DEF Agrees
<1>5. ASSUME NEW u \in Urls \ dropped', Digests(committed.lock, u) # {}
      PROVE  Digests(lock, u)' = Digests(committed.lock, u)
  <2>1. u \notin dropped /\ Digests(lock, u) = Digests(committed.lock, u)
    BY <1>1, <1>2, <1>5 DEF DigestInv
  <2>2. PICK s \in Locked : s.url = u /\ s.digest # None
    BY <1>5, <2>1 DEF Digests, DigestInv, Locked
  <2>3. u \in {t.url : t \in Locked'}
    BY <1>1, <1>5, <2>2, NoneFacts
  <2>4. u \in Remote
    BY <1>3, <2>3, NoneFacts DEF Locked
  <2>5. last[u] \in Listed(u) /\ last[u] # None
    <3>1. s \in Listed(u)
      BY <2>2 DEF Listed
    <3>2. last[u] \in Listed(u)
      BY <2>4, <3>1, PreviousTyped
    <3> QED
      BY <3>2, LockedFacts, NoneFacts DEF Listed
  <2>6. HasSha512(last[u])
    BY <1>1, <1>5, <2>4, <2>5
  <2>7. digest(u) = last[u].digest
    BY <2>5, <2>6 DEF Download, Source
  <2>8. Digests(lock, u) = {digest(u)}
    <3>1. \A t \in LockedIn(lock) : t.url = u => t.digest # None
      BY <2>1 DEF Digests, DigestInv
    <3>2. \A t \in LockedIn(lock) : t.url = u => t.digest = digest(u)
      BY <2>5, <2>7, <3>1, NoneFacts DEF Listed, Locked, DigestInv, Agrees
    <3> QED
      BY <2>2, <3>2 DEF Digests, Locked
  <2>9. Digests(lock, u)' = {digest(u)}
    BY <1>3, <2>3, NoneFacts DEF Digests, Locked
  <2> QED
    BY <2>1, <2>8, <2>9
<1> QED
  BY <1>2, <1>4, <1>5 DEF DigestInv

LEMMA DigestInvInit == LocksInit => DigestInv
<1> SUFFICES ASSUME LocksInit PROVE DigestInv
  OBVIOUS
<1>1. lock = [p \in Packages |-> None] /\ committed.lock = lock
  BY DEF LocksInit
<1>2. LockedIn(lock) = {}
  BY <1>1 DEF LockedIn
<1> QED
  BY <1>1, <1>2 DEF DigestInv, Agrees

LEMMA DigestUnchanged ==
  DigestInv /\ UNCHANGED <<lock, torn, committed, dropped>> => DigestInv'
BY DEF DigestInv

LEMMA CommitDigests ==
  ASSUME LocksInv, DigestInv, Commit
  PROVE  DigestInv'
<1>1. LocksValid /\ committed'.lock = lock /\ dropped' = {} /\ UNCHANGED <<lock, torn>>
  BY DEF Commit
<1>2. ASSUME NEW s \in LockedIn(lock) PROVE s.digest # None
  <2>1. PICK p \in Packages : lock[p] # None /\ s \in ToSet(lock[p].sources)
    BY DEF LockedIn
  <2>2. Accepted(lock[p]) /\ lock[p] \in Entries
    BY <1>1, <2>1, EntryFacts DEF LocksValid, LocksInv
  <2> QED
    BY <2>1, <2>2, AcceptedFacts
<1> QED
  BY <1>1, <1>2 DEF DigestInv

LEMMA DigestStep ==
  ASSUME LocksInv, DigestInv, LocksStep
  PROVE  DigestInv'
<1>1. CASE Render
  BY <1>1, RenderKeepsDigests DEF LocksInv
<1>2. CASE RenderDies
  <2>1. lock' = [p \in Packages |-> None] /\ torn' /\ UNCHANGED committed
    BY <1>2 DEF RenderDies
  <2>2. LockedIn(lock') = {}
    BY <2>1 DEF LockedIn
  <2> QED
    BY <2>1, <2>2 DEF DigestInv, Agrees
<1>3. CASE Restore
  BY <1>3 DEF Restore, DigestInv
<1>4. ASSUME NEW p \in Packages, EditSpec(p) PROVE DigestInv'
  BY <1>4, DigestUnchanged DEF EditSpec
<1>5. ASSUME NEW p \in Packages, NEW k \in 1..2, NEW u \in Mirrors, AddMirror(p, k, u)
      PROVE  DigestInv'
  BY <1>5, MirrorAlike, AlikeKeepsDigests DEF AddMirror, LocksInv
<1>6. ASSUME NEW p \in Packages, NEW k \in 1..2, NEW f \in Files, NEW odd \in BOOLEAN,
             AddVendor(p, k, f, odd)
      PROVE  DigestInv'
  BY <1>6, VendorAlike, AlikeKeepsDigests DEF AddVendor, LocksInv
<1>7. ASSUME NEW p \in Packages, NEW k \in 1..2, NEW spelling \in Spellings,
             Spell(p, k, spelling)
      PROVE  DigestInv'
  BY <1>7, SpellAlike, AlikeKeepsDigests DEF Spell, LocksInv
<1> QED
  BY <1>1, <1>2, <1>3, <1>4, <1>5, <1>6, <1>7 DEF LocksStep

(* What one step does to the digests of a URL that two commits lock.       *)
DigestsKept ==
  \A u \in Urls \ dropped :
    LET old == Digests(committed.lock, u)
        new == Digests(committed'.lock, u)
    IN old # {} /\ new # {} => new = old

LEMMA CommitKeepsDigests == LocksInv /\ DigestInv /\ Commit => DigestsKept
<1> SUFFICES ASSUME LocksInv, DigestInv, Commit PROVE DigestsKept
  OBVIOUS
<1>1. ~torn /\ committed'.lock = lock
  BY DEF Commit, LocksValid
<1> QED
  BY <1>1 DEF DigestInv, DigestsKept

LEMMA SameCommit == UNCHANGED committed => DigestsKept
BY DEF DigestsKept

-----------------------------------------------------------------------------
(* The job.  What it holds was accepted, and is worked through in order;   *)
(* what a fresh checkout holds, this job put there.                        *)
Theirs == {s.file : s \in ToSet(job.entry.sources)}

Fetching ==
  job.phase = "fetch" =>
    /\ ~job.entry.none
    /\ job.k \in 1..Len(job.entry.sources)
    /\ InHand.from = None => job.left # <<>>

FetchedSoFar ==
  job.phase = "fetch" => \A j \in 1..job.k - 1 : job.files[job.entry.sources[j].file] # None

OwnFiles ==
  job.phase # "idle" /\ job.fresh => \A f \in Files : job.files[f] # None => f \in Theirs

Verified ==
  job.phase \in {"verified", "built"} =>
    job.late \/ \A s \in ToSet(job.entry.sources) : job.files[s.file] = s.digest

JobInv ==
  /\ job \in Jobs
  /\ Accepted(job.entry)
  /\ Fetching
  /\ FetchedSoFar
  /\ OwnFiles
  /\ Verified
  /\ job.phase = "built" => SpecComplete
  /\ AcceptedIsStageable

LEMMA LocationsTyped ==
  ASSUME NEW s \in LockSources
  PROVE  /\ Locations(s) \in Seq(Urls)
         /\ s.from = None => Locations(s) # <<>>
<1>1. CASE s.url = None
  BY <1>1 DEF Locations, LockSources
<1>2. CASE s.url # None
  <2>1. s.url \in Urls /\ s.mirrors \in SUBSET Urls /\ IsFiniteSet(s.mirrors)
    BY <1>2, LocksAssumption, FS_Subset DEF LockSources
  <2>2. SetToSeq(s.mirrors) \in Seq(Urls) /\ <<s.url>> \in Seq(Urls) /\ <<s.url>> # <<>>
    BY <2>1, SetToSeqWider
  <2>3. <<s.url>> \o SetToSeq(s.mirrors) \in Seq(Urls) /\ <<s.url>> \o SetToSeq(s.mirrors) # <<>>
    BY <2>2, ConcatProperties, ConcatEqualIffEmpty
  <2> QED
    BY <1>2, <2>3 DEF Locations
<1> QED
  BY <1>1, <1>2

LEMMA IdleJobFacts == IdleJob \in Jobs /\ IdleJob.phase = "idle" /\ Accepted(IdleJob.entry)
<1>1. NoFiles \in [Files -> Bytes \cup {None}]
  BY DEF NoFiles
<1> QED
  BY <1>1, NoSourcesTyped, NoUpstreamTyped DEF IdleJob, Jobs, JobPhases, Accepted

(* A job that is not under way owes nothing.                               *)
LEMMA IdleInv ==
  ASSUME job' \in Jobs, job'.phase = "idle", job'.entry = NoUpstream
  PROVE  JobInv'
BY NoUpstreamTyped
DEF JobInv, Accepted, Fetching, FetchedSoFar, OwnFiles, Verified, AcceptedIsStageable

(* A job that fails has nothing but its own files, and the lock is not the *)
(* reason unless it was blocked or has what cannot be staged.              *)
LEMMA FailsInv ==
  ASSUME JobInv, job.phase # "idle", NEW why \in {"lock", "network", "bytes", "spec"},
         why = "lock" => \E s \in ToSet(job.entry.sources) : Unstageable(s),
         NEW files \in [Files -> Bytes \cup {None}],
         \A f \in Files : files[f] # None => job.files[f] # None \/ f \in Theirs,
         job' = [job EXCEPT !.phase = "failed", !.why = why, !.files = files]
  PROVE  JobInv'
<1>1. /\ job' \in Jobs /\ job'.phase = "failed" /\ job'.entry = job.entry /\ job'.why = why
      /\ job'.fresh = job.fresh /\ job'.files = files
  BY DEF JobInv, Jobs, JobPhases
<1>2. OwnFiles'
  BY <1>1 DEF JobInv, OwnFiles, Theirs
<1>3. AcceptedIsStageable'
  BY <1>1 DEF AcceptedIsStageable
<1> QED
  BY <1>1, <1>2, <1>3 DEF JobInv, Fetching, FetchedSoFar, Verified

LEMMA JobFailsInv ==
  ASSUME JobInv, job.phase # "idle", NEW why \in {"lock", "network", "bytes", "spec"},
         why = "lock" => \E s \in ToSet(job.entry.sources) : Unstageable(s),
         JobFails(why)
  PROVE  JobInv'
<1>1. job \in Jobs /\ job.files \in [Files -> Bytes \cup {None}]
  BY DEF JobInv, Jobs
<1>2. job' = [job EXCEPT !.phase = "failed", !.why = why, !.files = job.files]
  BY <1>1 DEF JobFails, Jobs
<1> QED
  BY <1>1, <1>2, FailsInv

(* What a job works on, one source at a time.                              *)
LEMMA SourceFacts ==
  ASSUME JobInv, job.phase = "fetch"
  PROVE  /\ InHand \in LockSources /\ InHand \in ToSet(job.entry.sources)
         /\ InHand.digest \in Bytes /\ InHand.digest # None
         /\ InHand.file \in Files /\ InHand.file \in Theirs
         /\ InHand.from # None =>
              \E j \in 1..job.k - 1 : job.entry.sources[j].file = InHand.from
<1>1. job.entry \in Entries /\ Accepted(job.entry) /\ job.k \in 1..Len(job.entry.sources)
  BY DEF JobInv, Jobs, Fetching
<1>2. /\ InHand \in LockSources /\ InHand \in ToSet(job.entry.sources)
      /\ InHand.digest \in Bytes
      /\ InHand.from # None => \E j \in 1..job.k - 1 : job.entry.sources[j].file = InHand.from
  BY <1>1, AcceptedFacts DEF InHand
<1> QED
  BY <1>2, NoneFacts DEF LockSources, Theirs

(* What cannot be had of a source that is not the lock's fault.            *)
LEMMA BlameFacts ==
  ASSUME JobInv, job.phase = "fetch", NEW why \in {"network", "bytes"}
  PROVE  /\ Blame(why) \in {"lock", "network", "bytes", "spec"}
         /\ Blame(why) = "lock" => \E s \in ToSet(job.entry.sources) : Unstageable(s)
BY SourceFacts DEF Blame, Unstageable

LEMMA MatchesFacts ==
  ASSUME JobInv, job.phase = "fetch", NEW bytes, Matches(InHand, bytes)
  PROVE  /\ bytes \in Bytes /\ bytes # None
         /\ LET files == [job.files EXCEPT ![InHand.file] = bytes] IN
            /\ files \in [Files -> Bytes \cup {None}]
            /\ \A f \in Files : files[f] # None => job.files[f] # None \/ f = InHand.file
            /\ files[InHand.file] # None
            /\ \A f \in Files : job.files[f] # None => files[f] # None
<1>1. InHand.file \in Files /\ bytes \in Bytes /\ bytes # None
  BY SourceFacts DEF Matches
<1>2. job.files \in [Files -> Bytes \cup {None}]
  BY DEF JobInv, Jobs
<1> QED
  BY <1>1, <1>2

(* On to the next source, with the one in hand in its place.               *)
LEMMA DoneInv ==
  ASSUME JobInv, job.phase = "fetch", NEW files \in [Files -> Bytes \cup {None}],
         \A f \in Files : files[f] # None => job.files[f] # None \/ f = InHand.file,
         files[InHand.file] # None,
         \A f \in Files : job.files[f] # None => files[f] # None,
         Done(files)
  PROVE  JobInv'
<1>1. /\ job \in Jobs /\ job.entry \in Entries /\ Accepted(job.entry) /\ ~job.entry.none
      /\ job.k \in 1..Len(job.entry.sources)
  BY DEF JobInv, Jobs, Fetching
<1>2. Len(job.entry.sources) \in Nat /\ job.k + 1 \in Nat
  BY <1>1, AcceptedFacts
<1>3. InHand.file \in Theirs
  BY SourceFacts
<1>4. CASE job.k + 1 > Len(job.entry.sources)
  <2>1. job' = [job EXCEPT !.phase = "staged", !.files = files]
    BY <1>4 DEF Done
  <2>2. /\ job' \in Jobs /\ job'.phase = "staged" /\ job'.entry = job.entry
        /\ job'.fresh = job.fresh /\ job'.files = files
    BY <1>1, <2>1 DEF Jobs, JobPhases
  <2>3. OwnFiles'
    BY <1>3, <2>2 DEF JobInv, OwnFiles, Theirs
  <2> QED
    BY <1>1, <2>2, <2>3 DEF JobInv, Fetching, FetchedSoFar, Verified, AcceptedIsStageable
<1>5. CASE ~(job.k + 1 > Len(job.entry.sources))
  <2> DEFINE next == job.entry.sources[job.k + 1]
  <2>1. job.k + 1 \in 1..Len(job.entry.sources)
    BY <1>1, <1>2, <1>5
  <2>2. next \in LockSources
    BY <1>1, <2>1, AcceptedFacts
  <2>3. Locations(next) \in Seq(Urls) /\ (next.from = None => Locations(next) # <<>>)
    BY <2>2, LocationsTyped
  <2>4. job' = [job EXCEPT !.k = job.k + 1, !.files = files, !.attempt = 0,
                           !.left = Locations(next)]
    BY <1>5 DEF Done
  <2> HIDE DEF next
  <2>5. /\ job' \in Jobs /\ job'.phase = "fetch" /\ job'.entry = job.entry
        /\ job'.fresh = job.fresh /\ job'.files = files
        /\ job'.k = job.k + 1 /\ job'.left = Locations(next)
    BY <1>1, <1>2, <2>3, <2>4 DEF JobInv, Jobs
  <2>6. OwnFiles'
    BY <1>3, <2>5 DEF JobInv, OwnFiles, Theirs
  <2>7. Fetching'
    BY <1>1, <2>1, <2>3, <2>5 DEF Fetching, InHand, next
  <2>8. FetchedSoFar'
    <3>1. ASSUME NEW j \in 1..job.k PROVE job.entry.sources[j].file \in Files
      <4>1. job.entry.sources[j] \in LockSources
        BY <1>1, <1>2, AcceptedFacts
      <4> QED
        BY <4>1 DEF LockSources
    <3>2. ASSUME NEW j \in 1..job.k PROVE files[job.entry.sources[j].file] # None
      <4>1. CASE j = job.k
        BY <4>1 DEF InHand
      <4>2. CASE j \in 1..job.k - 1
        BY <3>1, <3>2, <4>2 DEF JobInv, FetchedSoFar
      <4> QED
        BY <1>1, <1>2, <4>1, <4>2
    <3> QED
      <4>1. job'.k - 1 = job.k
        BY <1>1, <1>2, <2>5
      <4>2. \A j \in 1..job'.k - 1 : job'.files[job'.entry.sources[j].file] # None
        BY <2>5, <3>2, <4>1
      <4> QED
        BY <4>2 DEF FetchedSoFar
  <2> QED
    BY <1>1, <2>5, <2>6, <2>7, <2>8 DEF JobInv, Verified, AcceptedIsStageable
<1> QED
  BY <1>4, <1>5

-----------------------------------------------------------------------------
LEMMA JobStartInv ==
  ASSUME LocksInv, JobInv, NEW p \in Packages, JobStart(p)
  PROVE  JobInv'
<1> DEFINE entry == committed.lock[p]
           fresh == [IdleJob EXCEPT
                       !.package = p, !.named = committed.sources[p],
                       !.entry = IF entry = None THEN NoUpstream ELSE entry,
                       !.fresh = job.package # p,
                       !.files = IF job.package = p THEN job.files ELSE NoFiles]
           own == IF job.package = p THEN job.files ELSE NoFiles
<1>1. committed.sources[p] \in SpecSources /\ entry \in Entries /\ entry # None /\ Accepted(entry)
  BY DEF JobStart, LocksInv, LocksTypeOK, CommittedAccepted
<1>2. own \in [Files -> Bytes \cup {None}] /\ (job.package # p => \A f \in Files : own[f] = None)
  BY DEF NoFiles, JobInv, Jobs
<1>3. fresh = [IdleJob EXCEPT !.package = p, !.named = committed.sources[p], !.entry = entry,
                              !.fresh = job.package # p, !.files = own]
  BY <1>1
<1>4. IF ~Stageable(entry) THEN job' = [fresh EXCEPT !.phase = "failed", !.why = "lock"]
      ELSE IF entry.none THEN job' = [fresh EXCEPT !.phase = "staged"]
      ELSE job' = [fresh EXCEPT !.phase = "fetch", !.k = 1, !.left = Locations(entry.sources[1])]
  BY <1>1 DEF JobStart
<1> HIDE DEF entry, fresh, own
<1>5. (job.package # p) \in BOOLEAN
  OBVIOUS
<1>6. /\ fresh \in Jobs /\ fresh.entry = entry /\ fresh.files = own
      /\ fresh.fresh = (job.package # p)
  BY <1>1, <1>2, <1>3, <1>5, IdleJobFacts DEF Jobs
<1>7. CASE ~Stageable(entry)
  <2>1. job' = [fresh EXCEPT !.phase = "failed", !.why = "lock"]
    BY <1>4, <1>7
  <2>2. /\ job' \in Jobs /\ job'.phase = "failed" /\ job'.entry = entry /\ job'.files = own
        /\ job'.fresh = (job.package # p)
    BY <1>6, <2>1 DEF Jobs, JobPhases
  <2>3. entry.blocked
    BY <1>1, <1>7, AcceptedFacts DEF Stageable
  <2>4. OwnFiles' /\ AcceptedIsStageable'
    BY <1>2, <2>2, <2>3 DEF OwnFiles, AcceptedIsStageable
  <2> QED
    BY <1>1, <2>2, <2>4 DEF JobInv, Fetching, FetchedSoFar, Verified
<1>8. CASE Stageable(entry) /\ entry.none
  <2>1. job' = [fresh EXCEPT !.phase = "staged"]
    BY <1>4, <1>8
  <2>2. /\ job' \in Jobs /\ job'.phase = "staged" /\ job'.entry = entry /\ job'.files = own
        /\ job'.fresh = (job.package # p)
    BY <1>6, <2>1 DEF Jobs, JobPhases
  <2>3. OwnFiles'
    BY <1>2, <2>2 DEF OwnFiles
  <2> QED
    BY <1>1, <2>2, <2>3 DEF JobInv, Fetching, FetchedSoFar, Verified, AcceptedIsStageable
<1>9. CASE Stageable(entry) /\ ~entry.none
  <2> DEFINE first == entry.sources[1]
  <2>1. job' = [fresh EXCEPT !.phase = "fetch", !.k = 1, !.left = Locations(first)]
    BY <1>4, <1>9
  <2>2. 1 \in 1..Len(entry.sources) /\ first \in LockSources
    BY <1>1, <1>9, AcceptedFacts
  <2>3. Locations(first) \in Seq(Urls) /\ (first.from = None => Locations(first) # <<>>)
    BY <2>2, LocationsTyped
  <2> HIDE DEF first
  <2>4. /\ job' \in Jobs /\ job'.phase = "fetch" /\ job'.entry = entry /\ job'.files = own
        /\ job'.fresh = (job.package # p) /\ job'.k = 1 /\ job'.left = Locations(first)
    BY <1>6, <2>1, <2>3 DEF Jobs, JobPhases
  <2>5. OwnFiles'
    BY <1>2, <2>4 DEF OwnFiles
  <2>6. Fetching'
    BY <1>9, <2>2, <2>3, <2>4 DEF Fetching, InHand, first
  <2> QED
    BY <1>1, <2>4, <2>5, <2>6 DEF JobInv, FetchedSoFar, Verified, AcceptedIsStageable
<1> QED
  BY <1>7, <1>8, <1>9

LEMMA JobStepInv == JobInv /\ JobStep => JobInv'
<1> SUFFICES ASSUME JobInv, JobStep PROVE JobInv'
  OBVIOUS
<1>1. job \in Jobs /\ job.files \in [Files -> Bytes \cup {None}]
  BY DEF JobInv, Jobs
<1>2. CASE FetchRefused
  <2>1. job.phase = "fetch" /\ Refused /\ JobFails("lock")
    BY <1>2 DEF FetchRefused
  <2>2. Unstageable(InHand) /\ InHand \in ToSet(job.entry.sources)
    <3>1. Hashed(InHand) = "unknown" => ~Clear(InHand)
      BY DEF Clear, Compared
    <3> QED
      BY <2>1, <3>1, SourceFacts DEF Refused, Unstageable
  <2> QED
    BY <2>1, <2>2, JobFailsInv
<1>3. CASE FetchKept
  <2>1. job.phase = "fetch" /\ Matches(InHand, job.files[InHand.file]) /\ Done(job.files)
    BY <1>3 DEF FetchKept
  <2>2. job.files[InHand.file] # None
    BY <2>1, MatchesFacts
  <2> QED
    BY <1>1, <2>1, <2>2, DoneInv
<1>4. CASE Generate
  <2>1. job.phase = "fetch" /\ InHand.from # None
    BY <1>4 DEF Generate
  <2>2. /\ InHand.file \in Files /\ InHand.file \in Theirs
        /\ \E j \in 1..job.k - 1 : job.entry.sources[j].file = InHand.from
    BY <2>1, SourceFacts
  <2> DEFINE made == VendorOf[job.files[InHand.from]]
             left == IF Hashed(InHand) = "unknown" THEN made ELSE None
             files == [job.files EXCEPT ![InHand.file] = left]
  <2>3. made \in Bytes
    <3>1. InHand.from \in Files
      BY <2>1, SourceFacts DEF LockSources
    <3>2. job.files[InHand.from] \in Bytes
      BY <1>1, <2>1, <2>2, <3>1 DEF JobInv, FetchedSoFar
    <3> QED
      BY <3>2, LocksAssumption
  <2>4. \/ Matches(InHand, made) /\ Done([job.files EXCEPT ![InHand.file] = made])
        \/ job' = [job EXCEPT !.phase = "failed", !.why = Blame("bytes"), !.files = files]
        \/ JobFails("network")
    BY <1>4, <2>2 DEF Generate
  <2>5. CASE Matches(InHand, made) /\ Done([job.files EXCEPT ![InHand.file] = made])
    BY <2>1, <2>5, MatchesFacts, DoneInv
  <2>6. CASE job' = [job EXCEPT !.phase = "failed", !.why = Blame("bytes"), !.files = files]
    <3>1. /\ files \in [Files -> Bytes \cup {None}]
          /\ \A f \in Files : files[f] # None => job.files[f] # None \/ f \in Theirs
      BY <1>1, <2>2, <2>3
    <3> HIDE DEF files
    <3> QED
      BY <2>1, <2>6, <3>1, BlameFacts, FailsInv
  <2>7. CASE JobFails("network")
    BY <2>1, <2>7, JobFailsInv
  <2> QED
    BY <2>4, <2>5, <2>6, <2>7
<1>5. CASE Fetch
  <2>1. PICK answer \in Bytes \cup {"busy", "gone"} : Answer(answer)
    BY <1>5 DEF Fetch
  <2>2. job.phase = "fetch" /\ InHand.from = None
    BY <1>5 DEF Fetch
  <2>3. job.left # <<>> /\ job.left \in Seq(Urls)
    BY <1>1, <2>2 DEF JobInv, Fetching, Jobs
  <2>4. CASE job' = [job EXCEPT !.attempt = @ + 1]
    <3> DEFINE n == job.attempt + 1
    <3>0. job.attempt \in Nat
      BY <1>1 DEF Jobs
    <3>a. n \in Nat /\ job' = [job EXCEPT !.attempt = n]
      BY <2>4, <3>0
    <3> HIDE DEF n
    <3>1. /\ job' \in Jobs /\ job'.phase = job.phase /\ job'.entry = job.entry
          /\ job'.files = job.files /\ job'.fresh = job.fresh /\ job'.k = job.k
          /\ job'.left = job.left
      BY <1>1, <3>a DEF Jobs
    <3> QED
      BY <2>2, <3>1
     
      DEF JobInv, Fetching, FetchedSoFar, InHand, OwnFiles, Theirs, Verified, AcceptedIsStageable
  <2>5. CASE Matches(InHand, answer) /\ Done([job.files EXCEPT ![InHand.file] = answer])
    BY <2>2, <2>5, MatchesFacts, DoneInv
  <2>6. CASE JobFails(Blame("network"))
    BY <2>2, <2>6, BlameFacts, JobFailsInv
  <2>7. CASE Len(job.left) # 1 /\ job' = [job EXCEPT !.attempt = 0, !.left = Tail(@)]
    <3>a. Tail(job.left) \in Seq(Urls) /\ Len(Tail(job.left)) = Len(job.left) - 1
      BY <2>3, HeadTailProperties
    <3>b. Len(job.left) \in Nat
      BY <2>3, LenProperties
    <3>c. Len(job.left) # 1
      BY <2>7
    <3>d. Len(Tail(job.left)) # 0
      BY <3>a, <3>b, <3>c
    <3>1. Tail(job.left) \in Seq(Urls) /\ Tail(job.left) # <<>>
      BY <3>a, <3>d, EmptySeq
    <3> DEFINE rest == Tail(job.left)
    <3>2. job' = [job EXCEPT !.attempt = 0, !.left = rest] /\ rest \in Seq(Urls) /\ rest # <<>>
      BY <2>7, <3>1
    <3> HIDE DEF rest
    <3>3. /\ job' \in Jobs /\ job'.phase = job.phase /\ job'.entry = job.entry
          /\ job'.files = job.files /\ job'.fresh = job.fresh /\ job'.k = job.k
          /\ job'.left = rest
      BY <1>1, <3>2 DEF Jobs
    <3> QED
      BY <2>2, <3>2, <3>3
     
      DEF JobInv, Fetching, FetchedSoFar, InHand, OwnFiles, Theirs, Verified, AcceptedIsStageable
  <2> QED
    BY <2>1, <2>4, <2>5, <2>6, <2>7 DEF Answer
<1>6. CASE Verify
  <2>1. CASE /\ \A s \in ToSet(job.entry.sources) : Matches(s, job.files[s.file])
             /\ job' = [job EXCEPT !.phase = "verified"]
    <3>1. /\ job' \in Jobs /\ job'.phase = "verified" /\ job'.entry = job.entry
          /\ job'.files = job.files /\ job'.fresh = job.fresh /\ job.phase # "idle"
      BY <1>1, <1>6, <2>1 DEF Verify, Jobs, JobPhases
    <3> QED
      BY <2>1, <3>1
     
      DEF JobInv, Fetching, FetchedSoFar, OwnFiles, Theirs, Verified, Matches, AcceptedIsStageable
  <2>2. CASE JobFails("bytes")
    BY <1>6, <2>2, JobFailsInv DEF Verify
  <2> QED
    BY <1>6, <2>1, <2>2 DEF Verify
<1>7. CASE Build
  <2>1. CASE SpecComplete /\ job' = [job EXCEPT !.phase = "built"]
    <3>1. /\ job' \in Jobs /\ job'.phase = "built" /\ job'.entry = job.entry
          /\ job'.files = job.files /\ job'.fresh = job.fresh /\ job'.named = job.named
          /\ job.phase = "verified" /\ job'.late = job.late
      BY <1>1, <1>7, <2>1 DEF Build, Jobs, JobPhases
    <3> QED
      BY <2>1, <3>1
      DEF JobInv, Fetching, FetchedSoFar, OwnFiles, Theirs, Verified, AcceptedIsStageable,
                        SpecComplete, LookedFor
  <2>2. CASE JobFails("spec")
    BY <1>7, <2>2, JobFailsInv DEF Build
  <2> QED
    BY <1>7, <2>1, <2>2 DEF Build
<1>8. CASE JobEnd
  <2>1. IdleJob.entry = NoUpstream
    BY DEF IdleJob
  <2>2. CASE job' = IdleJob
    BY <2>1, <2>2, IdleJobFacts, IdleInv
  <2>3. CASE job' = [IdleJob EXCEPT !.package = job.package, !.files = job.files]
    <3>1. job' \in Jobs /\ job'.phase = "idle" /\ job'.entry = NoUpstream
      BY <1>1, <2>1, <2>3, IdleJobFacts DEF Jobs
    <3> QED
      BY <3>1, IdleInv
  <2> QED
    BY <1>8, <2>2, <2>3 DEF JobEnd
<1> QED
  BY <1>2, <1>3, <1>4, <1>5, <1>6, <1>7, <1>8 DEF JobStep

LEMMA SwapInv == JobInv /\ Swap => JobInv'
<1> SUFFICES ASSUME JobInv, Swap PROVE JobInv'
  OBVIOUS
<1>1. /\ job \in Jobs /\ job.entry \in Entries /\ Accepted(job.entry)
      /\ job.phase \in {"staged", "verified"}
  BY DEF JobInv, Jobs, Swap
<1>2. PICK s \in ToSet(job.entry.sources), bytes \in Bytes \cup {None} :
        job' = [job EXCEPT !.files[s.file] = bytes,
                           !.late = job.late \/ job.phase = "verified"]
  BY DEF Swap
<1>3. s.file \in Files /\ s.file \in Theirs
  BY <1>1, AcceptedFacts DEF LockSources, Theirs
<1> DEFINE late == job.late \/ job.phase = "verified"
           files == [job.files EXCEPT ![s.file] = bytes]
<1>4. late \in BOOLEAN /\ files \in [Files -> Bytes \cup {None}]
  BY <1>1, <1>3 DEF Jobs
<1>5. \A f \in Files : files[f] # None => job.files[f] # None \/ f \in Theirs
  BY <1>1, <1>3 DEF Jobs
<1>6. job' = [job EXCEPT !.files = files, !.late = late]
  BY <1>1, <1>2 DEF Jobs
<1>7. job.phase = "verified" => late
  OBVIOUS
<1> HIDE DEF files, late
<1>8. /\ job' \in Jobs /\ job'.phase = job.phase /\ job'.entry = job.entry
      /\ job'.files = files /\ job'.fresh = job.fresh /\ job'.late = late
  BY <1>1, <1>4, <1>6 DEF Jobs
<1>9. OwnFiles'
  BY <1>5, <1>8 DEF JobInv, OwnFiles, Theirs
<1> QED
  BY <1>1, <1>7, <1>8, <1>9 DEF JobInv, Fetching, FetchedSoFar, Verified, AcceptedIsStageable

LEMMA JobDiesInv == JobInv /\ JobDies => JobInv'
<1> SUFFICES ASSUME JobInv, JobDies PROVE JobInv'
  OBVIOUS
<1>1. job \in Jobs
  BY DEF JobInv
<1>2. PICK bytes \in (IF job.phase = "fetch" THEN Bytes ELSE {}) \cup {None} :
        job' = [IdleJob EXCEPT !.package = job.package,
                  !.files = IF bytes = None THEN job.files
                            ELSE [job.files EXCEPT ![InHand.file] = bytes]]
  BY DEF JobDies
<1> DEFINE files == IF bytes = None THEN job.files ELSE [job.files EXCEPT ![InHand.file] = bytes]
<1>3. files \in [Files -> Bytes \cup {None}]
  BY <1>1, SourceFacts DEF Jobs
<1> HIDE DEF files
<1>4. job' = [IdleJob EXCEPT !.package = job.package, !.files = files]
  BY <1>2 DEF files
<1>5. job' \in Jobs /\ job'.phase = "idle" /\ job'.entry = NoUpstream
  BY <1>1, <1>3, <1>4, IdleJobFacts DEF IdleJob, Jobs
<1> QED
  BY <1>5, IdleInv

LEMMA JobUnchanged == JobInv /\ UNCHANGED job => JobInv'
BY DEF JobInv, Fetching, FetchedSoFar, InHand, OwnFiles, Theirs, Verified,
       AcceptedIsStageable, SpecComplete, LookedFor

LEMMA JobInvInit == job = IdleJob => JobInv
BY IdleJobFacts
DEF JobInv, Fetching, FetchedSoFar, OwnFiles, Verified, AcceptedIsStageable

(* Every step of a job, whatever the hosts answer and whatever is swapped  *)
(* or cut short, from a checkout of any commit the gate let in.            *)
LEMMA JobInvStep ==
  ASSUME LocksInv, JobInv,
         \/ \E p \in Packages : JobStart(p)
         \/ JobStep \/ Swap \/ JobDies \/ UNCHANGED job
  PROVE  JobInv'
BY JobStartInv, JobStepInv, SwapInv, JobDiesInv, JobUnchanged

LEMMA LocksInvUnchanged == LocksInv /\ UNCHANGED lockVars => LocksInv'
BY LocksInvStep

(* A build that runs has what the lock names, and in a fresh checkout      *)
(* nothing else.                                                           *)
LEMMA JobInvBuilt == JobInv => BuiltFromLockedBytes
<1> SUFFICES ASSUME JobInv, job.phase = "built" PROVE BuiltFromLockedBytes
  BY DEF BuiltFromLockedBytes
<1>1. job \in Jobs /\ job.entry \in Entries /\ Accepted(job.entry)
  BY DEF JobInv, Jobs
<1>2. job.late \/ \A s \in ToSet(job.entry.sources) : s.digest # None /\ job.files[s.file] = s.digest
  BY <1>1, AcceptedFacts DEF JobInv, Verified
<1>3. LookedFor \subseteq Files
  <2>1. job.named \in SpecSources
    BY <1>1 DEF Jobs
  <2>2. ToSet(job.named.remote) \subseteq Urls
    BY <2>1, ToSetMembers DEF SpecSources
  <2> QED
    BY <2>1, <2>2, LocksAssumption DEF LookedFor, SpecSources
<1>4. job.fresh => LookedFor \subseteq Carried \cup Theirs
  BY <1>3 DEF JobInv, SpecComplete, OwnFiles
<1> QED
  BY <1>2, <1>4 DEF BuiltFromLockedBytes, Theirs

StagingInv == LocksInv /\ DigestInv /\ JobInv

LEMMA StagingInvInit == LocksInit /\ job = IdleJob => StagingInv
BY LocksInvInit, DigestInvInit, JobInvInit DEF StagingInv

(* Steps in the working tree, steps of the job, and steps of neither.      *)
LEMMA LocksKeepStaging ==
  ASSUME StagingInv, LocksStep \/ Commit, UNCHANGED job
  PROVE  StagingInv' /\ DigestsKept
<1>1. JobInv'
  BY JobUnchanged DEF StagingInv
<1>2. CASE LocksStep
  <2>1. LocksInv' /\ DigestInv'
    BY <1>2, LocksInvStep, DigestStep DEF StagingInv
  <2>2. UNCHANGED committed
    <3>1. Render \/ RenderDies \/ Restore => UNCHANGED committed
      BY DEF Render, RenderDies, Restore
    <3>2. ASSUME NEW p \in Packages, EditSpec(p) PROVE UNCHANGED committed
      BY <3>2 DEF EditSpec
    <3>3. ASSUME NEW p \in Packages, NEW k \in 1..2,
                 \/ \E u \in Mirrors : AddMirror(p, k, u)
                 \/ \E spelling \in Spellings : Spell(p, k, spelling)
                 \/ \E f \in Files, odd \in BOOLEAN : AddVendor(p, k, f, odd)
          PROVE  UNCHANGED committed
      BY <3>3 DEF AddMirror, Spell, AddVendor
    <3> QED
      BY <1>2, <3>1, <3>2, <3>3 DEF LocksStep
  <2> QED
    BY <1>1, <2>1, <2>2, SameCommit DEF StagingInv
<1>3. CASE Commit
  BY <1>1, <1>3, CommitStep, CommitDigests, CommitKeepsDigests DEF StagingInv
<1> QED
  BY <1>2, <1>3

LEMMA JobKeepsStaging ==
  ASSUME StagingInv, UNCHANGED lockVars,
         \/ \E p \in Packages : JobStart(p)
         \/ JobStep \/ Swap \/ JobDies \/ UNCHANGED job
  PROVE  StagingInv' /\ DigestsKept
<1>1. LocksInv' /\ JobInv'
  BY LocksInvUnchanged, JobInvStep DEF StagingInv
<1>2. DigestInv' /\ DigestsKept
  BY DigestUnchanged, SameCommit DEF StagingInv, lockVars
<1> QED
  BY <1>1, <1>2 DEF StagingInv

LEMMA AppearKeepsStaging ==
  ASSUME StagingInv, NEW p \in Packages, Appear(p), UNCHANGED job
  PROVE  StagingInv' /\ DigestsKept
BY AppearStep, DigestUnchanged, JobUnchanged, SameCommit DEF StagingInv, Appear

LEMMA StagingInvStep ==
  StagingInv /\ [StagingNext]_<<lockVars, job>> => StagingInv' /\ DigestsKept
<1> SUFFICES ASSUME StagingInv, [StagingNext]_<<lockVars, job>> PROVE StagingInv' /\ DigestsKept
  OBVIOUS
<1>1. CASE LocksNext /\ UNCHANGED job
  BY <1>1, LocksKeepStaging, AppearKeepsStaging DEF LocksNext
<1>2. CASE \/ \E p \in Packages : JobStart(p)
           \/ JobStep \/ Swap \/ JobDies
  <2>1. UNCHANGED lockVars
    BY <1>2 DEF JobStart, JobStep, FetchRefused, FetchKept, Generate, Fetch, Verify, Build,
                JobEnd, Swap, JobDies
  <2> QED
    BY <1>2, <2>1, JobKeepsStaging
<1>3. CASE UNCHANGED <<lockVars, job>>
  BY <1>3, JobKeepsStaging
<1> QED
  BY <1>1, <1>2, <1>3 DEF StagingNext

(* Whatever is locked, committed, served, generated, swapped or cut short, *)
(* types hold, and rpmbuild runs on the locked bytes, unless one is        *)
(* replaced after it was verified, and, in a fresh checkout, on nothing    *)
(* else (source_pipeline.py, fetch_source and verify_staged).              *)
THEOREM StagingBuildsLocked == StagingSpec => [](StagingTypeOK /\ BuiltFromLockedBytes)
<1>1. StagingInv => StagingTypeOK /\ BuiltFromLockedBytes
  BY JobInvBuilt DEF StagingInv, LocksInv, JobInv, StagingTypeOK
<1> QED
  BY <1>1, StagingInvInit, StagingInvStep, PTL DEF StagingSpec

(* No job fails because of a lock that validate.py let in, but for the     *)
(* four cases in which the two sets of rules part: a recipe listed as      *)
(* blocked, a name that is neither an archive nor a signature, a           *)
(* generated: URL other than cargo-vendor's, and a digest compared under   *)
(* another algorithm than its own (validate.py, check_locks;               *)
(* source_pipeline.py, fetch_source).                                      *)
THEOREM StagingAccepts == StagingSpec => []AcceptedIsStageable
<1>1. StagingInv => AcceptedIsStageable
  BY DEF StagingInv, JobInv
<1> QED
  BY <1>1, StagingInvInit, StagingInvStep, PTL DEF StagingSpec
-----------------------------------------------------------------------------
(* Why a job ends.  Four numbers, the first that changes going down: how   *)
(* far the phase is from idle, the sources not yet done, the locations of  *)
(* the one in hand, and the requests its location is still good for.       *)
PhasesLeft ==
  CASE job.phase = "fetch" -> 4 [] job.phase = "staged" -> 3 [] job.phase = "verified" -> 2
    [] job.phase = "idle" -> 0 [] OTHER -> 1

SourcesLeft == IF job.phase = "fetch" THEN Len(job.entry.sources) - job.k ELSE 0

Work == <<<<PhasesLeft, SourcesLeft>>, <<Len(job.left), Attempts - job.attempt>>>>

Fewer == OpToRel(<, Nat)

Less == LexPairOrdering(LexPairOrdering(Fewer, Fewer, Nat, Nat),
                        LexPairOrdering(Fewer, Fewer, Nat, Nat), Nat \X Nat, Nat \X Nat)

WorkInv == job.attempt < Attempts

(* There is no endless descent.                                            *)
LEMMA LessWellFounded == IsWellFoundedOn(Less, (Nat \X Nat) \X (Nat \X Nat))
<1> DEFINE Pairs == LexPairOrdering(Fewer, Fewer, Nat, Nat)
<1>1. IsWellFoundedOn(Fewer, Nat)
  BY NatLessThanWellFounded DEF Fewer
<1>2. IsWellFoundedOn(Pairs, Nat \X Nat)
  BY <1>1, WFLexPairOrdering
<1> HIDE DEF Pairs
<1>3. IsWellFoundedOn(LexPairOrdering(Pairs, Pairs, Nat \X Nat, Nat \X Nat),
                      (Nat \X Nat) \X (Nat \X Nat))
  BY <1>2, WFLexPairOrdering
<1> QED
  BY <1>3 DEF Less, Pairs

LEMMA LessByParts ==
  ASSUME NEW a \in Nat, NEW b \in Nat, NEW c \in Nat, NEW d \in Nat,
         NEW w \in Nat, NEW x \in Nat, NEW y \in Nat, NEW z \in Nat,
         \/ w < a
         \/ w = a /\ x < b
         \/ w = a /\ x = b /\ y < c
         \/ w = a /\ x = b /\ y = c /\ z < d
  PROVE  << <<<<w, x>>, <<y, z>>>>, <<<<a, b>>, <<c, d>>>> >> \in Less
<1> DEFINE Pairs == LexPairOrdering(Fewer, Fewer, Nat, Nat)
<1>1. w < a \/ (w = a /\ x < b) => << <<w, x>>, <<a, b>> >> \in Pairs
  BY DEF LexPairOrdering, Fewer, OpToRel
<1>2. y < c \/ (y = c /\ z < d) => << <<y, z>>, <<c, d>> >> \in Pairs
  BY DEF LexPairOrdering, Fewer, OpToRel
<1> HIDE DEF Pairs
<1>3. \/ << <<w, x>>, <<a, b>> >> \in Pairs
      \/ <<w, x>> = <<a, b>> /\ << <<y, z>>, <<c, d>> >> \in Pairs
  BY <1>1, <1>2
<1>4. << <<<<w, x>>, <<y, z>>>>, <<<<a, b>>, <<c, d>>>> >>
        \in LexPairOrdering(Pairs, Pairs, Nat \X Nat, Nat \X Nat)
  BY <1>3 DEF LexPairOrdering
<1> QED
  BY <1>4 DEF Less, Pairs

(* The numbers of a job, and the two facts that make them ones: it is not  *)
(* past the last source, and a location is not asked once too often.       *)
LEMMA WorkTyped ==
  ASSUME JobInv, WorkInv
  PROVE  /\ PhasesLeft \in 0..4 /\ SourcesLeft \in Nat
         /\ Len(job.left) \in Nat /\ Attempts - job.attempt \in Nat
<1>1. job \in Jobs /\ job.attempt \in Nat /\ job.left \in Seq(Urls)
  BY DEF JobInv, Jobs
<1>2. Len(job.left) \in Nat /\ Attempts - job.attempt \in Nat
  BY <1>1, StagingAssumption, LenProperties DEF WorkInv
<1>3. SourcesLeft \in Nat
  <2>1. CASE job.phase = "fetch"
    <3>1. Len(job.entry.sources) \in Nat /\ job.k \in 1..Len(job.entry.sources)
      BY <1>1, <2>1, AcceptedFacts DEF JobInv, Fetching, Jobs
    <3> QED
      BY <2>1, <3>1 DEF SourcesLeft
  <2> QED
    BY <2>1 DEF SourcesLeft
<1> QED
  BY <1>2, <1>3 DEF PhasesLeft

(* Four ways a step of a job gets on.                                      *)
GetsOn ==
  \/ PhasesLeft' < PhasesLeft
  \/ PhasesLeft' = PhasesLeft /\ SourcesLeft' < SourcesLeft
  \/ /\ PhasesLeft' = PhasesLeft /\ SourcesLeft' = SourcesLeft
     /\ Len(job.left)' < Len(job.left)
  \/ /\ PhasesLeft' = PhasesLeft /\ SourcesLeft' = SourcesLeft
     /\ Len(job.left)' = Len(job.left) /\ job.attempt' > job.attempt

LEMMA DoneGetsOn ==
  ASSUME JobInv, WorkInv, job.phase = "fetch", NEW files, Done(files)
  PROVE  GetsOn /\ WorkInv'
<1>1. /\ job \in Jobs /\ Len(job.entry.sources) \in Nat /\ job.k \in 1..Len(job.entry.sources)
  BY AcceptedFacts DEF JobInv, Fetching, Jobs
<1>2. CASE job.k + 1 > Len(job.entry.sources)
  <2>1. job' = [job EXCEPT !.phase = "staged", !.files = files]
    BY <1>2 DEF Done
  <2>2. job'.phase = "staged" /\ job'.attempt = job.attempt
    BY <1>1, <2>1 DEF Jobs
  <2> QED
    BY <2>2 DEF GetsOn, PhasesLeft, WorkInv
<1>3. CASE ~(job.k + 1 > Len(job.entry.sources))
  <2> DEFINE locations == Locations(job.entry.sources[job.k + 1])
  <2>1. job' = [job EXCEPT !.k = job.k + 1, !.files = files, !.attempt = 0, !.left = locations]
    BY <1>3 DEF Done
  <2> HIDE DEF locations
  <2>2. /\ job'.phase = "fetch" /\ job'.attempt = 0 /\ job'.entry = job.entry
        /\ job'.k = job.k + 1
    BY <1>1, <2>1 DEF Jobs
  <2> QED
    BY <1>1, <2>2, StagingAssumption DEF GetsOn, PhasesLeft, SourcesLeft, WorkInv
<1> QED
  BY <1>2, <1>3

(* A job that fails is nearly over, whatever it fails of.                  *)
LEMMA FailingGetsOn ==
  ASSUME JobInv, WorkInv, job.phase \in {"fetch", "staged", "verified"},
         job'.phase = "failed", job'.attempt = job.attempt
  PROVE  GetsOn /\ WorkInv'
BY DEF GetsOn, PhasesLeft, WorkInv

LEMMA JobFailsGetsOn ==
  ASSUME JobInv, WorkInv, job.phase \in {"fetch", "staged", "verified"}, NEW why, JobFails(why)
  PROVE  GetsOn /\ WorkInv'
<1>1. job'.phase = "failed" /\ job'.attempt = job.attempt
  BY DEF JobInv, Jobs, JobFails
<1> QED
  BY <1>1, FailingGetsOn

LEMMA FetchGetsOn ==
  ASSUME JobInv, WorkInv, Fetch
  PROVE  GetsOn /\ WorkInv'
<1>1. PICK answer \in Bytes \cup {"busy", "gone"} : Answer(answer)
  BY DEF Fetch
<1>2. job \in Jobs /\ job.phase = "fetch" /\ job.left \in Seq(Urls) /\ job.left # <<>>
  BY DEF Fetch, JobInv, Fetching, Jobs
<1>3. CASE job.attempt + 1 < Attempts /\ job' = [job EXCEPT !.attempt = @ + 1]
  <2>1. job.attempt \in Nat
    BY <1>2 DEF Jobs
  <2>2. /\ job'.phase = job.phase /\ job'.entry = job.entry /\ job'.k = job.k
        /\ job'.left = job.left /\ job'.attempt = job.attempt + 1
    BY <1>2, <1>3 DEF Jobs
  <2>3. PhasesLeft' = PhasesLeft /\ SourcesLeft' = SourcesLeft /\ Len(job.left)' = Len(job.left)
    BY <2>2 DEF PhasesLeft, SourcesLeft
  <2> QED
    BY <1>3, <2>1, <2>2, <2>3 DEF GetsOn, WorkInv
<1>4. CASE Done([job.files EXCEPT ![InHand.file] = answer])
  BY <1>2, <1>4, DoneGetsOn
<1>5. CASE JobFails(Blame("network"))
  BY <1>2, <1>5, JobFailsGetsOn
<1>6. CASE job' = [job EXCEPT !.attempt = 0, !.left = Tail(@)]
  <2>1. Len(Tail(job.left)) = Len(job.left) - 1 /\ Len(job.left) \in Nat
    BY <1>2, HeadTailProperties, LenProperties
  <2>2. /\ job'.phase = job.phase /\ job'.entry = job.entry /\ job'.k = job.k
        /\ job'.left = Tail(job.left) /\ job'.attempt = 0
    BY <1>2, <1>6 DEF Jobs
  <2>3. PhasesLeft' = PhasesLeft /\ SourcesLeft' = SourcesLeft /\ Len(job.left)' < Len(job.left)
    BY <2>1, <2>2 DEF PhasesLeft, SourcesLeft
  <2> QED
    BY <2>2, <2>3, StagingAssumption DEF GetsOn, WorkInv
<1> QED
  BY <1>1, <1>3, <1>4, <1>5, <1>6 DEF Answer

LEMMA EndedJob ==
  /\ IdleJob \in Jobs /\ IdleJob.phase = "idle" /\ IdleJob.attempt = 0
  /\ 0 < Attempts
<1>1. IdleJob.attempt = 0
  BY DEF IdleJob
<1>2. 0 < Attempts
  BY StagingAssumption
<1> QED
  BY <1>1, <1>2, IdleJobFacts

LEMMA JobStepGetsOn ==
  ASSUME JobInv, WorkInv, JobStep
  PROVE  GetsOn /\ WorkInv'
<1>1. job \in Jobs
  BY DEF JobInv
<1>2. CASE FetchRefused
  BY <1>2, JobFailsGetsOn DEF FetchRefused
<1>3. CASE FetchKept
  BY <1>3, DoneGetsOn DEF FetchKept
<1>4. CASE Generate
  <2>1. job.phase = "fetch"
    BY <1>4 DEF Generate
  <2> DEFINE made == VendorOf[job.files[InHand.from]]
             left == IF Hashed(InHand) = "unknown" THEN made ELSE None
  <2>2. ASSUME job' = [job EXCEPT !.phase = "failed", !.why = Blame("bytes"),
                                  !.files[InHand.file] = left]
        PROVE  job'.phase = "failed" /\ job'.attempt = job.attempt
    BY <1>1, <2>2 DEF Jobs
  <2> QED
    BY <1>4, <2>1, <2>2, DoneGetsOn, JobFailsGetsOn, FailingGetsOn DEF Generate
<1>5. CASE Fetch
  BY <1>5, FetchGetsOn
<1>6. CASE Verify
  <2>1. ASSUME job' = [job EXCEPT !.phase = "verified"]
        PROVE  GetsOn /\ WorkInv'
    <3>1. job'.phase = "verified" /\ job'.attempt = job.attempt
      BY <1>1, <2>1 DEF Jobs
    <3> QED
      BY <1>6, <3>1 DEF Verify, GetsOn, PhasesLeft, WorkInv
  <2> QED
    BY <1>6, <2>1, JobFailsGetsOn DEF Verify
<1>7. CASE Build
  <2>1. ASSUME job' = [job EXCEPT !.phase = "built"]
        PROVE  GetsOn /\ WorkInv'
    <3>1. job'.phase = "built" /\ job'.attempt = job.attempt
      BY <1>1, <2>1 DEF Jobs
    <3> QED
      BY <1>7, <3>1 DEF Build, GetsOn, PhasesLeft, WorkInv
  <2> QED
    BY <1>7, <2>1, JobFailsGetsOn DEF Build
<1>8. CASE JobEnd
  <2>1. job'.phase = "idle" /\ job'.attempt = 0
    BY <1>8, EndedJob DEF JobEnd, Jobs
  <2> QED
    BY <1>8, <2>1, EndedJob DEF JobEnd, GetsOn, PhasesLeft, WorkInv
<1> QED
  BY <1>2, <1>3, <1>4, <1>5, <1>6, <1>7, <1>8 DEF JobStep

(* What else happens to a job while it runs takes nothing back.            *)
LEMMA OthersLeaveWork ==
  ASSUME JobInv, WorkInv,
         (\E p \in Packages : JobStart(p)) \/ Swap \/ JobDies \/ UNCHANGED job
  PROVE  WorkInv' /\ (job.phase # "idle" => UNCHANGED Work \/ GetsOn)
<1>1. job \in Jobs
  BY DEF JobInv
<1>2. ASSUME NEW p \in Packages, JobStart(p) PROVE job.phase = "idle" /\ job'.attempt = 0
  BY <1>2, EndedJob DEF JobStart, Jobs
<1>3. CASE Swap
  <2>1. /\ job'.phase = job.phase /\ job'.entry = job.entry /\ job'.k = job.k
        /\ job'.left = job.left /\ job'.attempt = job.attempt
    BY <1>1, <1>3 DEF Swap, Jobs
  <2> QED
    BY <2>1 DEF Work, WorkInv, PhasesLeft, SourcesLeft
<1>4. CASE JobDies
  <2>1. PICK files : job' = [IdleJob EXCEPT !.package = job.package, !.files = files]
    BY <1>4 DEF JobDies
  <2>2. job'.phase = "idle" /\ job'.attempt = 0
    BY <2>1, EndedJob DEF Jobs
  <2>3. job.phase \in {"fetch", "staged", "verified"}
    BY <1>4 DEF JobDies
  <2> QED
    BY <2>2, <2>3, EndedJob DEF GetsOn, PhasesLeft, WorkInv
<1>5. CASE UNCHANGED job
  BY <1>5 DEF Work, WorkInv, PhasesLeft, SourcesLeft
<1> QED
  BY <1>2, <1>3, <1>4, <1>5, EndedJob DEF WorkInv

LEMMA WorkGoesDown ==
  ASSUME JobInv, WorkInv, JobInv', WorkInv', GetsOn
  PROVE  <<Work', Work>> \in Less
<1>1. /\ PhasesLeft \in Nat /\ SourcesLeft \in Nat
      /\ Len(job.left) \in Nat /\ Attempts - job.attempt \in Nat
  BY WorkTyped
<1>2. /\ PhasesLeft' \in Nat /\ SourcesLeft' \in Nat
      /\ Len(job.left)' \in Nat /\ (Attempts - job.attempt)' \in Nat
  <2>1. (PhasesLeft \in 0..4 /\ SourcesLeft \in Nat /\ Len(job.left) \in Nat
           /\ Attempts - job.attempt \in Nat)'
    BY WorkTyped, PTL
  <2> QED
    BY <2>1
<1>3. job.attempt' > job.attempt => (Attempts - job.attempt)' < Attempts - job.attempt
  <2>1. Attempts \in Nat /\ job.attempt \in Nat /\ job'.attempt \in Nat
    BY StagingAssumption DEF JobInv, Jobs
  <2> QED
    BY <2>1
<1> QED
  BY <1>1, <1>2, <1>3, LessByParts DEF Work, GetsOn

(* A step of the job takes it down; no other takes it up before it ends.   *)
WorkRunsDry ==
  /\ JobStep => <<Work', Work>> \in Less
  /\ job.phase # "idle" => UNCHANGED Work \/ <<Work', Work>> \in Less

LEMMA StepRunsDry ==
  ASSUME JobInv, WorkInv, JobInv',
         \/ \E p \in Packages : JobStart(p)
         \/ JobStep \/ Swap \/ JobDies \/ UNCHANGED job
  PROVE  WorkInv' /\ WorkRunsDry
<1>1. CASE JobStep
  <2>1. GetsOn /\ WorkInv'
    BY <1>1, JobStepGetsOn
  <2> QED
    BY <2>1, WorkGoesDown DEF WorkRunsDry
<1>2. CASE ~JobStep
  <2>1. WorkInv' /\ (job.phase # "idle" => UNCHANGED Work \/ GetsOn)
    BY <1>2, OthersLeaveWork
  <2> QED
    BY <1>2, <2>1, WorkGoesDown DEF WorkRunsDry
<1> QED
  BY <1>1, <1>2

LEMMA WorkInvInit == job = IdleJob => WorkInv
BY EndedJob DEF WorkInv

(* A job comes to an end whatever the hosts answer, for any number of      *)
(* sources, mirrors and attempts: each of its steps goes down in an order  *)
(* without an endless descent, and nothing that befalls a running job      *)
(* takes it up again (source_pipeline.py, _fetch and fetch_source).        *)
THEOREM JobsRunDry ==
  /\ IsWellFoundedOn(Less, (Nat \X Nat) \X (Nat \X Nat))
  /\ StagingSpec => [][WorkRunsDry]_<<lockVars, job>>
<1>1. LocksInit /\ job = IdleJob => StagingInv /\ WorkInv
  BY StagingInvInit, WorkInvInit
<1>2. StagingInv /\ WorkInv /\ [StagingNext]_<<lockVars, job>> =>
        (StagingInv /\ WorkInv)' /\ [WorkRunsDry]_<<lockVars, job>>
  <2> SUFFICES ASSUME StagingInv, WorkInv, [StagingNext]_<<lockVars, job>>
               PROVE  (StagingInv /\ WorkInv)' /\ WorkRunsDry
    OBVIOUS
  <2>1. StagingInv' /\ JobInv /\ JobInv'
    BY StagingInvStep DEF StagingInv
  <2>2. \/ \E p \in Packages : JobStart(p)
        \/ JobStep \/ Swap \/ JobDies \/ UNCHANGED job
    BY DEF StagingNext
  <2> QED
    BY <2>1, <2>2, StepRunsDry
<1>3. StagingSpec => [][WorkRunsDry]_<<lockVars, job>>
  BY <1>1, <1>2, PTL DEF StagingSpec
<1> QED
  BY <1>3, LessWellFounded
=============================================================================
