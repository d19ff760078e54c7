----------------------------- MODULE SourceLocks ------------------------------
(***************************************************************************)
(* config/upstream-sources.json: how render_source_locks.py writes it from *)
(* the recipes, what maintainers write into it by hand, and what           *)
(* validate.py asks of it before a commit.  A digest is the bytes it is    *)
(* of; what upstream serves under a URL may change from one request to the *)
(* next.                                                                   *)
(***************************************************************************)
EXTENDS Integers, SequencesExt, RecipeNames

CONSTANTS
  Urls,      \* URLs a Source may name, or a mirror may serve it under
  Files,     \* local names of sources
  Mirrors,   \* URLs maintainers add beside another
  FileOf,    \* FileOf[u]: the name rpmbuild gives what u serves
  Carried,   \* files that come with the recipe that names them
  Bytes,     \* contents of downloads
  VendorOf,  \* VendorOf[b]: the crates bundle made from source archive b
  SpecsOf,   \* SpecsOf[p]: what the specs p may have name as sources
  Bumps,     \* edits: pairs of such specs, the new one after the old
  Spellings, \* ways maintainers may write a digest by hand
  LockFaults \* what may go wrong: "rpmspec", "write"

(* What a spec names: URLs, in order, and files by their bare names.        *)
SpecSources == [remote : Seq(Urls), local : SUBSET Files]

(* How an entry writes a digest: under the names of one or both algorithms,*)
(* with a checksum_type beside them or without.  The tools write sha512.   *)
AllSpellings == [fields : (SUBSET {"sha512", "sha256"}) \ {{}},
                 type : {"", "sha512", "sha256", "unknown"}]
ToolsSpelling == [fields |-> {"sha512"}, type |-> "sha512"]

(* A locked source is downloaded from its url, or from a mirror somebody   *)
(* added, or has a generated: URL and is made from a file locked before it;*)
(* odd are those whose URL does not go on with cargo-vendor/.  The digest  *)
(* is the one that gets compared, the sha512 where there is one.           *)
LockSources ==
  {s \in [url : Urls \cup {None}, file : Files, digest : Bytes \cup {None},
          spelling : AllSpellings, mirrors : SUBSET Mirrors,
          from : Files \cup {None}, odd : BOOLEAN] :
     s.url = None <=> s.from # None}

Entries ==
  {e \in [none : BOOLEAN, sources : Seq(LockSources), blocked : BOOLEAN] :
     e.none => e.sources = <<>>}

ASSUME LocksAssumption ==
  /\ FileOf \in [Urls -> Files]
  /\ Mirrors \subseteq Urls
  /\ Carried \subseteq Files
  /\ VendorOf \in [Bytes -> Bytes]
  /\ IsFiniteSet(Packages) /\ IsFiniteSet(Mirrors)
  /\ SpecsOf \in [Packages -> SUBSET SpecSources]
  /\ Spellings \subseteq AllSpellings
  /\ LockFaults \subseteq {"rpmspec", "write"}
  /\ None \notin Bytes \cup Files \cup Urls
  /\ None \notin SpecSources \cup Entries \cup LockSources

VARIABLES
  sources,   \* sources[p]: the sources p's spec names, None without a recipe
  lock,      \* lock[p]: p's entry in the working tree
  torn,      \* the file was cut short by a writer that died
  committed, \* the sources and the lock of the last commit the gate let in
  dropped    \* history: URLs that a render since that commit left out,
             \* or found without a sha512

lockVars == <<sources, lock, torn, committed, dropped>>

NoSources == [remote |-> <<>>, local |-> {}]

NoUpstream == [none |-> TRUE, sources |-> <<>>, blocked |-> FALSE]

Recipes == {p \in Packages : sources[p] # None}

-----------------------------------------------------------------------------
(* Every locked source of a file: what a render may take a digest from.    *)
LockedIn(file) == UNION {ToSet(file[p].sources) : p \in {q \in Packages : file[q] # None}}

Locked == LockedIn(lock)

(* What a render remembers of each URL: the source it was listed with last.*)
Remote == UNION {ToSet(sources[p].remote) : p \in Recipes}

Listed(u) == {s \in Locked : s.url = u}

Previous ==
  {last \in [Remote -> Locked \cup {None}] :
     \A u \in Remote : last[u] \in IF Listed(u) = {} THEN {None} ELSE Listed(u)}

HasSha512(s) == s.digest # None /\ "sha512" \in s.spelling.fields

Source(u, digest, spelling) ==
  [url |-> u, file |-> FileOf[u], digest |-> digest, spelling |-> spelling,
   mirrors |-> {}, from |-> None, odd |-> FALSE]

(* Mutant of Download: the digest is always computed anew.                 *)
DownloadAlways(u, last, served) == Source(u, served, ToolsSpelling)

(* A URL that has a sha512 keeps it, with its checksum_type; another is    *)
(* downloaded once, and has no digest when it cannot be.  Nothing else of  *)
(* the old entry is carried over.                                          *)
Download(u, last, served) ==
  IF last # None /\ HasSha512(last)
  THEN Source(u, last.digest,
              [fields |-> {"sha512"},
               type |-> IF last.spelling.type = "" THEN "sha512" ELSE last.spelling.type])
  ELSE Source(u, served, ToolsSpelling)

(* The entry of a recipe whose spec was seen to name these sources.        *)
Rendered(named, last, served) ==
  LET generated == {s \in Locked : s.from # None /\ s.file \in named.local}
      absent == named.local \ (Carried \cup {s.file : s \in generated})
  IN IF named.remote = <<>> THEN NoUpstream
     ELSE [none |-> FALSE, blocked |-> absent # {},
           sources |-> [k \in 1..Len(named.remote) |->
                         LET u == named.remote[k] IN Download(u, last[u], served[u])]
                         \o SetToSeq(generated)]

(* Mutant of Accepted: a source without a digest is let in.                *)
AcceptedUnlocked(entry) ==
  \/ entry.none
  \/ /\ entry.sources # <<>>
     /\ \A k \in 1..Len(entry.sources) :
          \A j \in 1..k - 1 : entry.sources[j].file # entry.sources[k].file

(* check_locks, for one recipe's entry.  Any digest will do, whatever its  *)
(* checksum_type, and any generated: URL.                                  *)
Accepted(entry) ==
  \/ entry.none
  \/ /\ entry.sources # <<>>
     /\ \A k \in 1..Len(entry.sources) :
          LET s == entry.sources[k]
              earlier == {entry.sources[j] : j \in 1..k - 1}
          IN /\ s.digest # None
             /\ s.from # None => \E e \in earlier : e.file = s.from /\ e.from = None
             /\ \A e \in earlier : e.file # s.file

(* Recipes and entries correspond, in both directions.                     *)
LocksValid ==
  /\ ~torn
  /\ \A p \in Packages : lock[p] # None <=> p \in Recipes
  /\ \A p \in Recipes : Accepted(lock[p])

-----------------------------------------------------------------------------
LocksInit ==
  /\ sources = [p \in Packages |-> None]
  /\ lock = [p \in Packages |-> None]
  /\ torn = FALSE
  /\ committed = [sources |-> sources, lock |-> lock]
  /\ dropped = {}

(* A recipe is imported, or removed.                                       *)
Appear(p) ==
  /\ sources[p] = None
  /\ \E named \in SpecsOf[p] : sources' = [sources EXCEPT ![p] = named]
  /\ UNCHANGED <<lock, torn, committed, dropped>>

(* A version bump: the spec names other sources.                           *)
EditSpec(p) ==
  /\ \E named \in SpecsOf[p] :
       /\ <<sources[p], named>> \in Bumps
       /\ sources' = [sources EXCEPT ![p] = named]
  /\ UNCHANGED <<lock, torn, committed, dropped>>

(* render_source_locks.py --write.  What rpmspec cannot expand it prints   *)
(* nothing for, and that recipe names no source.  It reads the inventory,  *)
(* and so never gets past a lock that was cut short.  What a URL serves    *)
(* does not change in the course of one render.                            *)
Render ==
  /\ ~torn
  /\ \E last \in Previous, served \in [Remote -> Bytes \cup {None}],
        dumb \in (IF "rpmspec" \in LockFaults THEN SUBSET Recipes ELSE {{}}) :
       /\ lock' = [p \in Packages |->
                     IF p \notin Recipes THEN None
                     ELSE Rendered(IF p \in dumb THEN NoSources ELSE sources[p], last, served)]
       /\ dropped' = dropped
            \cup ({s.url : s \in Locked} \ ({s.url : s \in Locked'} \cup {None}))
            \cup {u \in Remote : last[u] # None /\ ~HasSha512(last[u])}
  /\ UNCHANGED <<sources, torn, committed>>

(* The writer dies: the file is not replaced in one step.                  *)
RenderDies ==
  /\ "write" \in LockFaults
  /\ ~torn
  /\ torn' = TRUE
  /\ lock' = [p \in Packages |-> None]
  /\ UNCHANGED <<sources, committed, dropped>>

(* git checkout of the lock.                                               *)
Restore ==
  /\ torn
  /\ torn' = FALSE
  /\ lock' = committed.lock
  /\ dropped' = {}
  /\ UNCHANGED <<sources, committed>>

(* By hand: a mirror beside a URL, as fallback_urls.                       *)
AddMirror(p, k, u) ==
  /\ lock[p] # None
  /\ k \in 1..Len(lock[p].sources)
  /\ lock[p].sources[k].from = None
  /\ lock' = [lock EXCEPT ![p].sources[k].mirrors = @ \cup {u}]
  /\ UNCHANGED <<sources, torn, committed, dropped>>

(* By hand: a digest in one of the ways that validate.py reads.            *)
Spell(p, k, spelling) ==
  /\ lock[p] # None
  /\ k \in 1..Len(lock[p].sources)
  /\ lock[p].sources[k].digest # None
  /\ lock' = [lock EXCEPT ![p].sources[k].spelling = spelling]
  /\ UNCHANGED <<sources, torn, committed, dropped>>

(* By hand: the crates bundle generate_vendor.py made from a locked        *)
(* archive, with the digest it printed.  It unblocks the recipe when it    *)
(* was all that was missing.                                               *)
AddVendor(p, k, f, odd) ==
  /\ lock[p] # None
  /\ sources[p] # None
  /\ f \in sources[p].local \ Carried
  /\ k \in 1..Len(lock[p].sources)
  /\ \A s \in ToSet(lock[p].sources) : s.file # f
  /\ LET input == lock[p].sources[k]
         vendor == [url |-> None, file |-> f, digest |-> VendorOf[input.digest],
                    spelling |-> ToolsSpelling, mirrors |-> {}, from |-> input.file,
                    odd |-> odd]
         known == {f} \cup Carried \cup {s.file : s \in ToSet(lock[p].sources)}
     IN /\ input.digest # None
        /\ input.from = None
        /\ lock' = [lock EXCEPT ![p].sources = Append(@, vendor),
                                ![p].blocked = ~(sources[p].local \subseteq known)]
  /\ UNCHANGED <<sources, torn, committed, dropped>>

(* A commit that validate.py lets in.                                      *)
Commit ==
  /\ LocksValid
  /\ committed' = [sources |-> sources, lock |-> lock]
  /\ dropped' = {}
  /\ UNCHANGED <<sources, lock, torn>>

(* What a maintainer does to the working tree.                             *)
LocksStep ==
  \/ Render
  \/ RenderDies
  \/ Restore
  \/ \E p \in Packages :
       \/ EditSpec(p)
       \/ \E k \in 1..2 : \/ \E u \in Mirrors : AddMirror(p, k, u)
                          \/ \E spelling \in Spellings : Spell(p, k, spelling)
                          \/ \E f \in Files, odd \in BOOLEAN : AddVendor(p, k, f, odd)

LocksNext == LocksStep \/ Commit \/ \E p \in Packages : Appear(p)

LocksSpec == LocksInit /\ [][LocksNext]_lockVars

-----------------------------------------------------------------------------
LocksTypeOK ==
  /\ sources \in [Packages -> SpecSources \cup {None}]
  /\ lock \in [Packages -> Entries \cup {None}]
  /\ torn \in BOOLEAN
  /\ dropped \subseteq Urls
  /\ committed \in [sources : [Packages -> SpecSources \cup {None}],
                   lock : [Packages -> Entries \cup {None}]]

(* The digests a file records for a URL.                                   *)
Digests(file, u) == {s.digest : s \in {t \in LockedIn(file) : t.url = u}}

(* From one commit to the next, the digest of a URL both lock does not     *)
(* change, whatever upstream serves by then and however often the lock was *)
(* rendered, edited, torn and restored in between, unless a render in      *)
(* between left the URL out or found no sha512 beside it                   *)
(* (render_source_locks.py, "a re-render fetches only what actually        *)
(* changed": a digest is remembered by the lock alone, and as a sha512).   *)
CommitsKeepDigests ==
  [][\A u \in Urls \ dropped :
       LET old == Digests(committed.lock, u)
           new == Digests(committed'.lock, u)
       IN old # {} /\ new # {} => new = old]_lockVars
=============================================================================
