------------------------ MODULE UpdateInstallProofs ------------------------
(***************************************************************************)
(* What UpdateInstall promises, for any number of updaters, releases,      *)
(* failed renames, deaths and manual updates.                              *)
(*                                                                         *)
(* The heart of the inductive invariant is PlaceInv: at every point of an  *)
(* install, of its undoing and of the two halves of each replacement, the  *)
(* directory is the one the install found, except for the targets already  *)
(* replaced and for the one in hand, and the backups are what was there.   *)
(* The rest says what a directory is between installs (PairInv,            *)
(* VersionInv, EngineInv), and so of the one an install found.             *)
(***************************************************************************)
EXTENDS UpdateInstall, TLAPS

Installing == {"installing", "rolling", "restoring"}

\* The place of a target in Replacements, 0 for one that is not replaced.
Slot(j, f) ==
    CASE f = "corpus" -> 1
      [] f = "certificate" -> 2
      [] f = "pob" -> IF replace_engine(j) THEN 3 ELSE 0
      [] f = "installed" -> IF replace_engine(j) THEN 4 ELSE 3
Last(j) == IF replace_engine(j) THEN 4 ELSE 3

\* What an install leaves there.
New(j, f) ==
    CASE f = "corpus" -> CorpusOf[j.release]
      [] f = "certificate" -> CorpusOf[j.release]
      [] f = "pob" -> EngineOf[j.release]
      [] f = "installed" -> Metadata(j)

LeaseInv ==
    \A u \in Updaters :
        /\ pc[u] \in Installing <=> lease = u
        /\ pc[u] \notin Installing => placed[u] = 0 /\ backups[u] = <<>>
        /\ pc[u] # "idle" => job[u].release \in 1 .. published

\* The target in hand, moved away and not yet replaced or put back, of an
\* updater that decided j, is at w, has placed k replacements and holds the
\* backups q.
Gap(j, w, k, q, f) ==
    \/ w = "installing" /\ Len(q) = k + 1 /\ Slot(j, f) = k + 1
    \/ w = "restoring" /\ Slot(j, f) = k

\* How far that updater is, when it found the directory b and it now is d.
Underway(j, b, w, k, q, d) ==
    /\ Len(q) <= Last(j)
    /\ w = "installing" => Len(q) \in {k, k + 1}
    /\ w \in {"rolling", "restoring"} => Len(q) = k /\ k < Last(j)
    /\ w = "restoring" => k > 0
    /\ \A f \in Files :
           /\ Slot(j, f) \in 1 .. Len(q) => q[Slot(j, f)] = b[f]
           /\ d[f] = IF Gap(j, w, k, q, f) THEN Absent
                     ELSE IF Slot(j, f) \in 1 .. k THEN New(j, f)
                     ELSE b[f]

Placing(u) == Underway(job[u], before[u], pc[u], placed[u], backups[u], disk)

PlaceInv == \A u \in Updaters : pc[u] \in Installing => Placing(u)

\* What a directory says is installed, and that it says what was released.
Claimed(d) == IF d["installed"] = Absent THEN NoMetadata ELSE d["installed"]
Recorded(v) == IF v = 0 THEN NoMetadata ELSE Metadata([release |-> v])
Truthful(m) == m.version \in 0 .. published /\ m = Recorded(m.version)

MetaInv ==
    /\ lease = Absent => Truthful(Claimed(disk))
    /\ \A u \in Updaters :
           /\ pc[u] # "idle" => Truthful(job[u].prev)
           /\ pc[u] \in Installing => Truthful(Claimed(before[u]))

\* The certified pair of a directory that no manual update has touched.
PairWhole(d) ==
    manual = 0 => /\ d["certificate"] = d["corpus"]
                  /\ Claimed(d).corpus = d["corpus"]
                  /\ Claimed(d).certificate = d["corpus"]

PairInv ==
    crashes = 0 =>
        /\ lease = Absent => PairWhole(disk)
        /\ \A u \in Updaters : pc[u] \in Installing => PairWhole(before[u])

VersionInv ==
    crashes = 0 =>
        /\ lease = Absent => Claimed(disk).version >= highest
        /\ \A u \in Updaters : pc[u] \in Installing =>
               /\ Claimed(before[u]).version >= highest
               /\ Claimed(before[u]).version <= job[u].release

\* An engine payload that a release has replaced does not come back in a later
\* one.
EnginesAdvance ==
    \A a, b, c \in Releases :
        a <= b /\ b <= c /\ EngineOf[a] = EngineOf[c] => EngineOf[b] = EngineOf[a]

\* The engine is the recorded one, and what an updater has read is no newer
\* than what is installed, or is about to be.
EngineInv ==
    EnginesAdvance /\ crashes = 0 =>
        /\ lease = Absent =>
               /\ disk["pob"] = Claimed(disk).engine
               /\ \A u \in Updaters : pc[u] # "idle" =>
                      job[u].prev.version <= Claimed(disk).version
        /\ \A w \in Updaters : pc[w] \in Installing =>
               /\ before[w]["pob"] = Claimed(before[w]).engine
               /\ job[w].prev.version <= Claimed(before[w]).version
               /\ \A u \in Updaters : pc[u] # "idle" =>
                      \/ job[u].prev.version <= Claimed(before[w]).version
                      \/ /\ pc[w] = "installing" /\ placed[w] = Last(job[w])
                         /\ job[u].prev.version <= job[w].release

IInv == TypeOK /\ LeaseInv /\ PlaceInv /\ MetaInv /\ PairInv /\ VersionInv /\ EngineInv

----------------------------------------------------------------------------
(* Replacements *)

\* Corpus, certificate, the engine if it is another one, and the metadata last.
LEMMA ReplacementsAre ==
    ASSUME NEW j
    PROVE  /\ Len(Replacements(j)) = Last(j)
           /\ Replacements(j)[1] = <<"corpus", CorpusOf[j.release]>>
           /\ Replacements(j)[2] = <<"certificate", CorpusOf[j.release]>>
           /\ replace_engine(j) => Replacements(j)[3] = <<"pob", EngineOf[j.release]>>
           /\ Replacements(j)[Last(j)] = <<"installed", Metadata(j)>>
<1> DEFINE a == <<"corpus", CorpusOf[j.release]>>
           b == <<"certificate", CorpusOf[j.release]>>
           e == <<"pob", EngineOf[j.release]>>
           m == <<"installed", Metadata(j)>>
<1>1. Replacements(j) = IF replace_engine(j) THEN <<a, b, e, m>> ELSE <<a, b, m>>
  BY DEF Replacements
<1> HIDE DEF a, b, e, m
<1>2. /\ Len(Replacements(j)) = Last(j)
      /\ Replacements(j)[1] = a /\ Replacements(j)[2] = b
      /\ replace_engine(j) => Replacements(j)[3] = e
      /\ Replacements(j)[Last(j)] = m
  BY <1>1 DEF Last
<1> QED
  BY <1>2 DEF a, b, e, m

\* Every replacement has its slot, and no two targets share one.
LEMMA Slots ==
    ASSUME NEW j
    PROVE  /\ Last(j) \in 3 .. 4 /\ Slot(j, "installed") = Last(j)
           /\ \A f \in Files : Slot(j, f) \in 0 .. Last(j)
           /\ \A f, g \in Files : Slot(j, f) = Slot(j, g) /\ Slot(j, f) # 0 => f = g
<1>1. /\ Slot(j, "corpus") = 1 /\ Slot(j, "certificate") = 2
      /\ Slot(j, "pob") = IF replace_engine(j) THEN 3 ELSE 0
      /\ Slot(j, "installed") = IF replace_engine(j) THEN 4 ELSE 3
  BY DEF Slot
<1> QED
  BY <1>1 DEF Last, Files

LEMMA Replaced ==
    ASSUME NEW j, NEW k \in 1 .. Last(j)
    PROVE  /\ Replacements(j)[k][1] \in Files
           /\ Slot(j, Replacements(j)[k][1]) = k
           /\ Replacements(j)[k][2] = New(j, Replacements(j)[k][1])
<1>1. /\ Slot(j, "corpus") = 1 /\ Slot(j, "certificate") = 2
      /\ Slot(j, "pob") = IF replace_engine(j) THEN 3 ELSE 0
      /\ Slot(j, "installed") = Last(j)
  BY DEF Slot, Last
<1>2. /\ New(j, "corpus") = CorpusOf[j.release] /\ New(j, "certificate") = CorpusOf[j.release]
      /\ New(j, "pob") = EngineOf[j.release] /\ New(j, "installed") = Metadata(j)
  BY DEF New
<1>3. k = 1 \/ k = 2 \/ (k = 3 /\ replace_engine(j)) \/ k = Last(j)
  BY DEF Last
<1>4. CASE k = 1
  <2>1. Replacements(j)[k] = <<"corpus", CorpusOf[j.release]>>
    BY <1>4, ReplacementsAre
  <2> QED
    BY <1>1, <1>2, <1>4, <2>1 DEF Files
<1>5. CASE k = 2
  <2>1. Replacements(j)[k] = <<"certificate", CorpusOf[j.release]>>
    BY <1>5, ReplacementsAre
  <2> QED
    BY <1>1, <1>2, <1>5, <2>1 DEF Files
<1>6. CASE k = 3 /\ replace_engine(j)
  <2>1. Replacements(j)[k] = <<"pob", EngineOf[j.release]>>
    BY <1>6, ReplacementsAre
  <2> QED
    BY <1>1, <1>2, <1>6, <2>1 DEF Files
<1>7. CASE k = Last(j)
  <2>1. Replacements(j)[k] = <<"installed", Metadata(j)>>
    BY <1>7, ReplacementsAre
  <2> QED
    BY <1>1, <1>2, <1>7, <2>1 DEF Files
<1> QED
  BY <1>3, <1>4, <1>5, <1>6, <1>7

LEMMA Appended ==
    ASSUME NEW S, NEW q \in Seq(S), NEW x \in S
    PROVE  /\ Append(q, x) \in Seq(S) /\ Len(Append(q, x)) = Len(q) + 1
           /\ Append(q, x)[Len(q) + 1] = x
           /\ \A i \in 1 .. Len(q) : Append(q, x)[i] = q[i]
  OBVIOUS

LEMMA Cut ==
    ASSUME NEW S, NEW q \in Seq(S), NEW n \in 0 .. Len(q)
    PROVE  /\ SubSeq(q, 1, n) \in Seq(S) /\ Len(SubSeq(q, 1, n)) = n
           /\ \A i \in 1 .. n : SubSeq(q, 1, n)[i] = q[i]
  OBVIOUS

LEMMA ReleaseContents ==
    ASSUME NEW j, j.release \in Releases
    PROVE  /\ CorpusOf[j.release] \in Corpora /\ EngineOf[j.release] \in Engines
           /\ Metadata(j) \in Metadatas /\ Metadata(j) = Recorded(j.release)
           /\ Metadata(j).version = j.release /\ Metadata(j).engine = EngineOf[j.release]
           /\ Metadata(j).corpus = CorpusOf[j.release]
           /\ Metadata(j).certificate = CorpusOf[j.release]
           /\ \A f \in Files : New(j, f) \in Contents /\ New(j, f) # Absent
<1>1. CorpusOf[j.release] \in Corpora /\ EngineOf[j.release] \in Engines
  BY DEF Corpora, Engines
<1>2. j.release \in 0 .. MaxRelease /\ j.release # 0
  BY ReleasesTyped DEF Releases
<1>3. Metadata(j) \in Metadatas
  BY <1>1, <1>2 DEF Metadata, Metadatas, Payload
<1>4. Metadata(j) = Recorded(j.release)
  BY <1>2 DEF Metadata, Recorded
<1>5. \A f \in Files : New(j, f) \in Corpora \cup Engines \cup Metadatas
  BY <1>1, <1>3 DEF New, Files
<1>6. \A f \in Files : New(j, f) \in Contents /\ New(j, f) # Absent
  BY <1>5, ReleasesTyped DEF Contents, Payload
<1> QED
  BY <1>1, <1>3, <1>4, <1>6 DEF Metadata

\* A directory that gets a payload of its own kind, or nothing, stays one.
LEMMA DirectoryPut ==
    ASSUME NEW d \in Directories, NEW f \in Files, NEW x,
           x = Absent \/ (\E e \in Directories : x = e[f])
           \/ (\E j : j.release \in Releases /\ x = New(j, f))
    PROVE  [d EXCEPT ![f] = x] \in Directories
<1>1. /\ x \in Contents
      /\ f \in {"corpus", "certificate"} => x \in Payload(Corpora)
      /\ f = "pob" => x \in Payload(Engines)
      /\ f = "installed" => x \in Payload(Metadatas)
  <2>1. CASE x = Absent
    BY <2>1 DEF Contents, Payload
  <2>2. CASE \E e \in Directories : x = e[f]
    BY <2>2 DEF Directories, Contents, Files
  <2>3. ASSUME NEW j, j.release \in Releases, x = New(j, f)
        PROVE  /\ x \in Contents
               /\ f \in {"corpus", "certificate"} => x \in Payload(Corpora)
               /\ f = "pob" => x \in Payload(Engines)
               /\ f = "installed" => x \in Payload(Metadatas)
    BY <2>3, ReleaseContents DEF New, Payload, Files
  <2> QED
    BY <2>1, <2>2, <2>3
<1> DEFINE e == [d EXCEPT ![f] = x]
<1>2. d \in [Files -> Contents]
  BY DEF Directories
<1>3. e \in [Files -> Contents] /\ \A g \in Files : e[g] = IF g = f THEN x ELSE d[g]
  BY <1>1, <1>2
<1> HIDE DEF e
<1>4. e \in Directories
  BY <1>1, <1>3 DEF Directories, Files
<1> QED
  BY <1>4 DEF e

----------------------------------------------------------------------------
(* What a directory is during an install *)

\* The slot of the metadata is the last one, so that installed.json is what it
\* was, or gone, or the new one and nothing is left to do.
LEMMA MetadataLast ==
    ASSUME IInv, NEW u \in Updaters, pc[u] \in Installing
    PROVE  \/ disk["installed"] = Absent
           \/ disk["installed"] = before[u]["installed"]
           \/ /\ pc[u] = "installing" /\ placed[u] = Last(job[u])
              /\ disk["installed"] = Metadata(job[u])
<1>1. Placing(u) /\ "installed" \in Files
  BY DEF IInv, PlaceInv, Files
<1>2. Slot(job[u], "installed") = Last(job[u]) /\ Last(job[u]) \in 3 .. 4
  BY Slots
<1>3. placed[u] \in 0 .. 4 /\ Len(backups[u]) \in Nat
  BY DEF IInv, TypeOK
<1>4. Last(job[u]) \in 1 .. placed[u] => placed[u] = Last(job[u]) /\ pc[u] = "installing"
  BY <1>1, <1>2, <1>3 DEF Placing, Underway, Installing
<1>5. New(job[u], "installed") = Metadata(job[u])
  BY DEF New
<1> QED
  BY <1>1, <1>2, <1>4, <1>5 DEF Placing, Underway

\* So installed.json is the record of a release whenever it is read.
LEMMA AlwaysTruthful ==
    ASSUME IInv PROVE Truthful(Claimed(disk))
<1>1. CASE lease = Absent
  BY <1>1 DEF IInv, MetaInv
<1>2. ASSUME NEW u \in Updaters, lease = u PROVE Truthful(Claimed(disk))
  <2>1. pc[u] \in Installing /\ Truthful(Claimed(before[u])) /\ job[u].release \in 1 .. published
    BY <1>2 DEF IInv, LeaseInv, MetaInv, Installing
  <2>2. published \in 0 .. MaxRelease
    BY DEF IInv, TypeOK
  <2>3. job[u].release \in Releases
    BY <2>1, <2>2, ReleasesTyped DEF Releases
  <2>4. CASE disk["installed"] = Absent
    BY <2>2, <2>4, ReleasesTyped DEF Claimed, Truthful, NoMetadata, Recorded
  <2>5. CASE disk["installed"] = before[u]["installed"]
    BY <2>1, <2>5 DEF Claimed
  <2>6. CASE disk["installed"] = Metadata(job[u])
    <3>1. Metadata(job[u]) # Absent /\ Metadata(job[u]).version = job[u].release
          /\ Metadata(job[u]) = Recorded(job[u].release)
      BY <2>3, ReleaseContents, ReleasesTyped
    <3> QED
      BY <2>1, <2>2, <2>6, <3>1 DEF Claimed, Truthful
  <2> QED
    BY <2>1, <2>4, <2>5, <2>6, MetadataLast
<1> QED
  BY <1>1, <1>2 DEF IInv, TypeOK

----------------------------------------------------------------------------
(* The steps of an install *)

LEMMA OneInstalls ==
    ASSUME LeaseInv, NEW u \in Updaters, pc[u] \in Installing
    PROVE  /\ lease = u /\ lease # Absent
           /\ \A w \in Updaters \ {u} : pc[w] \notin Installing
  BY ReleasesTyped DEF LeaseInv

\* Nobody else's replacement, and neither the decision nor the directory that
\* was found, changes while one is in hand.
LEMMA InstallStepKeeps ==
    ASSUME IInv, TypeOK', NEW u \in Updaters, pc[u] \in Installing, pc'[u] \in Installing,
           ~(pc[u] = "installing" /\ placed[u] = Last(job[u])),
           Placing(u)',
           \A w \in Updaters \ {u} : /\ pc'[w] = pc[w] /\ placed'[w] = placed[w]
                                     /\ backups'[w] = backups[w],
           UNCHANGED <<published, lease, job, before, highest, crashes, manual>>
    PROVE  IInv'
<1>1. /\ lease = u /\ lease # Absent
      /\ \A w \in Updaters \ {u} : pc[w] \notin Installing
  BY OneInstalls DEF IInv
<1>2. LeaseInv'
  BY <1>1 DEF IInv, LeaseInv, Installing
<1>3. PlaceInv'
  BY <1>1 DEF PlaceInv
<1>4. \A m : Truthful(m) => Truthful(m)'
  BY DEF Truthful
<1>5. MetaInv'
  BY <1>1, <1>4 DEF IInv, MetaInv, Installing
<1>6. PairInv'
  BY <1>1 DEF IInv, PairInv, PairWhole
<1>7. VersionInv'
  BY <1>1 DEF IInv, VersionInv
<1>8. EngineInv'
  <2> SUFFICES ASSUME EnginesAdvance, crashes' = 0
               PROVE  \A w \in Updaters : pc'[w] \in Installing =>
                          /\ before'[w]["pob"] = Claimed(before[w])'.engine
                          /\ job'[w].prev.version <= Claimed(before[w])'.version
                          /\ \A x \in Updaters : pc'[x] # "idle" =>
                                 job'[x].prev.version <= Claimed(before[w])'.version
    BY <1>1 DEF EngineInv
  <2>1. ASSUME NEW w \in Updaters, pc'[w] \in Installing PROVE w = u
    BY <1>1, <2>1
  <2>2. /\ before[u]["pob"] = Claimed(before[u]).engine
        /\ job[u].prev.version <= Claimed(before[u]).version
        /\ \A x \in Updaters : pc[x] # "idle" =>
               job[x].prev.version <= Claimed(before[u]).version
    BY DEF IInv, EngineInv
  <2>3. \A x \in Updaters : pc'[x] # "idle" => pc[x] # "idle"
    BY DEF Installing
  <2> QED
    BY <2>1, <2>2, <2>3
<1> QED
  BY <1>2, <1>3, <1>5, <1>6, <1>7, <1>8 DEF IInv

\* What is known of an install in progress.
LEMMA InProgress ==
    ASSUME IInv, NEW u \in Updaters, pc[u] \in Installing
    PROVE  /\ Placing(u) /\ placed[u] \in 0 .. 4 /\ placed[u] \in Nat
           /\ backups[u] \in Seq(Contents) /\ Len(backups[u]) \in Nat /\ Len(backups[u]) <= 4
           /\ Last(job[u]) \in 3 .. 4 /\ Len(Replacements(job[u])) = Last(job[u])
           /\ disk \in Directories /\ before[u] \in Directories
           /\ job[u].release \in Releases
<1>1. job[u].release \in 1 .. published /\ published \in 0 .. MaxRelease
  BY DEF IInv, LeaseInv, TypeOK, Installing
<1>2. job[u].release \in Releases
  BY <1>1, ReleasesTyped DEF Releases
<1>3. Last(job[u]) \in 3 .. 4 /\ Len(Replacements(job[u])) = Last(job[u])
  BY Slots, ReplacementsAre
<1>4. Placing(u)
  BY DEF IInv, PlaceInv
<1>5. placed[u] \in 0 .. 4 /\ backups[u] \in Seq(Contents) /\ Len(backups[u]) <= 4
  BY DEF IInv, TypeOK
<1>6. disk \in Directories /\ before[u] \in Directories
  BY DEF IInv, TypeOK
<1>7. placed[u] \in Nat /\ Len(backups[u]) \in Nat
  BY <1>5
<1> QED
  BY <1>2, <1>3, <1>4, <1>5, <1>6, <1>7

LEMMA TargetIs ==
    ASSUME NEW u, NEW k \in 1 .. Last(job[u])
    PROVE  /\ Target(u, k) \in Files /\ Slot(job[u], Target(u, k)) = k
           /\ Staged(u, k) = New(job[u], Target(u, k))
           /\ \A f \in Files : Slot(job[u], f) = k <=> f = Target(u, k)
           /\ \A f \in Files : Slot(job[u], f) \in Nat
<1>1. /\ Target(u, k) \in Files /\ Slot(job[u], Target(u, k)) = k
      /\ Staged(u, k) = New(job[u], Target(u, k))
  BY Replaced DEF Target, Staged
<1>2. k # 0 /\ Last(job[u]) \in 3 .. 4
  BY Slots
<1>3. \A f \in Files : Slot(job[u], f) = k <=> f = Target(u, k)
  BY <1>1, <1>2, Slots
<1>4. \A f \in Files : Slot(job[u], f) \in Nat
  BY <1>2, Slots
<1> QED
  BY <1>1, <1>3, <1>4

LEMMA DiskPut ==
    ASSUME disk \in Directories, NEW f \in Files, NEW x, disk' = [disk EXCEPT ![f] = x]
    PROVE  disk'[f] = x /\ \A g \in Files \ {f} : disk'[g] = disk[g]
  BY DEF Directories

\* An install step changes one target, its own backups and where it is.
LEMMA PlacedStepKeeps ==
    ASSUME IInv, NEW u \in Updaters, pc[u] \in Installing,
           ~(pc[u] = "installing" /\ placed[u] = Last(job[u])),
           NEW w \in Installing, NEW k \in 0 .. 4, NEW q \in Seq(Contents), Len(q) <= 4,
           pc' = [pc EXCEPT ![u] = w], placed' = [placed EXCEPT ![u] = k],
           backups' = [backups EXCEPT ![u] = q], disk' \in Directories,
           failures' \in 0 .. MaxFailures,
           UNCHANGED <<published, due, lease, job, before, highest, crashes, manual>>,
           Underway(job[u], before[u], w, k, q, disk')
    PROVE  IInv'
<1>1. /\ pc'[u] = w /\ placed'[u] = k /\ backups'[u] = q
      /\ \A x \in Updaters \ {u} : pc'[x] = pc[x] /\ placed'[x] = placed[x]
                                   /\ backups'[x] = backups[x]
  BY DEF IInv, TypeOK
<1>2. TypeOK'
  <2>1. /\ pc' \in [Updaters -> {"idle", "staging", "staged", "installing", "rolling",
                                 "restoring"}]
        /\ placed' \in [Updaters -> 0 .. 4]
    BY DEF IInv, TypeOK, Installing
  <2>2. backups' \in [Updaters -> Seq(Contents)]
    BY DEF IInv, TypeOK
  <2>3. \A x \in Updaters : Len(backups'[x]) <= 4
    BY <1>1 DEF IInv, TypeOK
  <2> QED
    BY <2>1, <2>2, <2>3 DEF IInv, TypeOK
<1>6. Placing(u)'
  BY <1>1 DEF Placing
<1>7. pc'[u] \in Installing
  BY <1>1
<1> QED
  BY <1>1, <1>2, <1>6, <1>7, InstallStepKeeps

\* A variable that stays is one that gets the value it has.
LEMMA SameValue ==
    ASSUME IInv, NEW u \in Updaters
    PROVE  /\ pc = [pc EXCEPT ![u] = pc[u]] /\ placed = [placed EXCEPT ![u] = placed[u]]
           /\ backups = [backups EXCEPT ![u] = backups[u]]
  BY DEF IInv, TypeOK

LEMMA BackUpKeeps ==
    ASSUME IInv, NEW u \in Updaters, back_up(u) PROVE IInv'
<1> DEFINE k == placed[u]
           t == Target(u, k + 1)
<1>1. pc[u] = "installing" /\ pc[u] \in Installing
  BY DEF back_up, Installing
<1>2. /\ Placing(u) /\ k \in 0 .. 4 /\ backups[u] \in Seq(Contents) /\ Len(backups[u]) \in Nat
      /\ Last(job[u]) \in 3 .. 4 /\ Len(Replacements(job[u])) = Last(job[u])
      /\ disk \in Directories
  BY <1>1, InProgress
<1>3. Len(backups[u]) = k /\ k < Last(job[u])
  BY <1>1, <1>2 DEF Placing, Underway, back_up, Complete, Moved
<1>4. k + 1 \in 1 .. Last(job[u])
  BY <1>2, <1>3
<1>5. /\ t \in Files /\ \A f \in Files : Slot(job[u], f) = k + 1 <=> f = t
      /\ \A f \in Files : Slot(job[u], f) \in Nat
  BY <1>4, TargetIs
<1>6. disk[t] \in Contents
  BY <1>2, <1>5 DEF Directories
<1> DEFINE q == Append(backups[u], disk[t])
<1>7. /\ q \in Seq(Contents) /\ Len(q) = k + 1 /\ q[k + 1] = disk[t]
      /\ \A i \in 1 .. k : q[i] = backups[u][i]
  BY <1>2, <1>3, <1>6, Appended
<1>8. /\ disk' = [disk EXCEPT ![t] = Absent]
      /\ backups' = [backups EXCEPT ![u] = q]
      /\ UNCHANGED <<published, due, lease, pc, job, placed, before, failures, highest,
                     crashes, manual>>
  BY DEF back_up, history, faults
<1> HIDE DEF q, t
<1>9. disk' \in Directories
  BY <1>2, <1>5, <1>8, DirectoryPut
<1>10. disk'[t] = Absent /\ \A g \in Files \ {t} : disk'[g] = disk[g]
  BY <1>2, <1>5, <1>8, DiskPut
<1>11. ASSUME NEW f \in Files
       PROVE  /\ Slot(job[u], f) \in 1 .. Len(q) => q[Slot(job[u], f)] = before[u][f]
              /\ disk'[f] = IF Slot(job[u], f) = k + 1 THEN Absent
                            ELSE IF Slot(job[u], f) \in 1 .. k THEN New(job[u], f)
                            ELSE before[u][f]
  <2>1. /\ Slot(job[u], f) \in 1 .. k => backups[u][Slot(job[u], f)] = before[u][f]
        /\ disk[f] = IF Slot(job[u], f) \in 1 .. k THEN New(job[u], f) ELSE before[u][f]
    BY <1>1, <1>2, <1>3 DEF Placing, Underway, Gap
  <2> QED
    BY <2>1, <1>2, <1>5, <1>7, <1>10
<1>12. pc' = [pc EXCEPT ![u] = "installing"] /\ placed' = [placed EXCEPT ![u] = k]
  BY <1>1, <1>8, SameValue
<1>13. Len(q) <= 4 /\ Len(q) <= Last(job[u]) /\ Len(q) \in {k, k + 1}
  BY <1>2, <1>3, <1>7
<1>14. failures' \in 0 .. MaxFailures
  BY <1>8 DEF IInv, TypeOK
<1>15. Underway(job[u], before[u], "installing", k, q, disk')
  BY <1>2, <1>3, <1>7, <1>11, <1>13 DEF Underway, Gap
<1>16. UNCHANGED <<published, due, lease, job, before, highest, crashes, manual>>
  BY <1>8
<1>17. /\ pc' = [pc EXCEPT ![u] = "installing"] /\ placed' = [placed EXCEPT ![u] = k]
      /\ backups' = [backups EXCEPT ![u] = q]
  BY <1>8, <1>12
<1>18. "installing" \in Installing /\ k \in 0 .. 4 /\ q \in Seq(Contents) /\ Len(q) <= 4
      /\ ~(pc[u] = "installing" /\ placed[u] = Last(job[u]))
  BY <1>1, <1>2, <1>3, <1>4, <1>5, <1>6, <1>7
<1> HIDE DEF k
<1> QED
  BY <1>1, <1>9, <1>14, <1>15, <1>16, <1>17, <1>18, PlacedStepKeeps

LEMMA BackUpFailsKeeps ==
    ASSUME IInv, NEW u \in Updaters, back_up_fails(u) PROVE IInv'
<1> DEFINE k == placed[u]
<1>1. pc[u] = "installing" /\ pc[u] \in Installing /\ "rolling" \in Installing
  BY DEF back_up_fails, Installing
<1>2. /\ Placing(u) /\ k \in 0 .. 4 /\ backups[u] \in Seq(Contents) /\ Len(backups[u]) \in Nat
      /\ Last(job[u]) \in 3 .. 4 /\ Len(Replacements(job[u])) = Last(job[u])
      /\ disk \in Directories /\ Len(backups[u]) <= 4
  BY <1>1, InProgress
<1>3. Len(backups[u]) = k /\ k < Last(job[u])
  BY <1>1, <1>2 DEF Placing, Underway, back_up_fails, Complete, Moved
<1>4. /\ pc' = [pc EXCEPT ![u] = "rolling"]
      /\ UNCHANGED <<disk, published, due, lease, job, placed, backups, before, highest,
                     crashes, manual>>
  BY DEF back_up_fails, history
<1>5. failures' \in 0 .. MaxFailures
  BY FaultsTyped DEF back_up_fails, IInv, TypeOK
<1>6. ASSUME NEW f \in Files
      PROVE  /\ Slot(job[u], f) \in 1 .. Len(backups[u]) =>
                    backups[u][Slot(job[u], f)] = before[u][f]
             /\ disk'[f] = IF Slot(job[u], f) \in 1 .. k THEN New(job[u], f)
                           ELSE before[u][f]
  BY <1>1, <1>2, <1>3, <1>4 DEF Placing, Underway, Gap
<1>7. placed' = [placed EXCEPT ![u] = k] /\ backups' = [backups EXCEPT ![u] = backups[u]]
  BY <1>4, SameValue
<1>8. Underway(job[u], before[u], "rolling", k, backups[u], disk')
  BY <1>2, <1>3, <1>6 DEF Underway, Gap
<1>9. UNCHANGED <<published, due, lease, job, before, highest, crashes, manual>>
  BY <1>4
<1>10. disk' \in Directories
  BY <1>2, <1>4
<1>11. /\ pc' = [pc EXCEPT ![u] = "rolling"] /\ placed' = [placed EXCEPT ![u] = k]
      /\ backups' = [backups EXCEPT ![u] = backups[u]]
  BY <1>4, <1>7
<1>12. "rolling" \in Installing /\ k \in 0 .. 4 /\ backups[u] \in Seq(Contents) /\ Len(backups[u]) <= 4
      /\ ~(pc[u] = "installing" /\ placed[u] = Last(job[u]))
  BY <1>1, <1>2, <1>3, <1>4, <1>5, <1>6, <1>7
<1> HIDE DEF k
<1> QED
  BY <1>1, <1>5, <1>8, <1>9, <1>11, <1>12, <1>10, PlacedStepKeeps

LEMMA PutKeeps ==
    ASSUME IInv, NEW u \in Updaters, put(u) PROVE IInv'
<1> DEFINE k == placed[u]
           t == Target(u, k + 1)
<1>1. pc[u] = "installing" /\ pc[u] \in Installing
  BY DEF put, Installing
<1>2. /\ Placing(u) /\ k \in 0 .. 4 /\ backups[u] \in Seq(Contents) /\ Len(backups[u]) \in Nat
      /\ Last(job[u]) \in 3 .. 4 /\ disk \in Directories /\ job[u].release \in Releases
      /\ Len(backups[u]) <= 4
  BY <1>1, InProgress
<1>3. Len(backups[u]) = k + 1 /\ k + 1 <= Last(job[u])
  BY <1>1, <1>2 DEF Placing, Underway, put, Moved
<1>4. k + 1 \in 1 .. Last(job[u])
  BY <1>2, <1>3
<1>5. /\ t \in Files /\ \A f \in Files : Slot(job[u], f) = k + 1 <=> f = t
      /\ \A f \in Files : Slot(job[u], f) \in Nat
      /\ Staged(u, k + 1) = New(job[u], t)
  BY <1>4, TargetIs
<1>6. /\ disk' = [disk EXCEPT ![t] = New(job[u], t)]
      /\ placed' = [placed EXCEPT ![u] = k + 1]
      /\ UNCHANGED <<published, due, lease, pc, job, backups, before, highest, failures,
                     crashes, manual>>
  BY <1>5 DEF put, history, faults, IInv, TypeOK
<1> HIDE DEF t
<1>7. disk' \in Directories
  BY <1>2, <1>5, <1>6, DirectoryPut
<1>8. disk'[t] = New(job[u], t) /\ \A g \in Files \ {t} : disk'[g] = disk[g]
  BY <1>2, <1>5, <1>6, DiskPut
<1>9. ASSUME NEW f \in Files
      PROVE  /\ Slot(job[u], f) \in 1 .. Len(backups[u]) =>
                    backups[u][Slot(job[u], f)] = before[u][f]
             /\ disk'[f] = IF Slot(job[u], f) \in 1 .. k + 1 THEN New(job[u], f)
                           ELSE before[u][f]
  <2>1. /\ Slot(job[u], f) \in 1 .. Len(backups[u]) =>
               backups[u][Slot(job[u], f)] = before[u][f]
        /\ disk[f] = IF Slot(job[u], f) = k + 1 THEN Absent
                     ELSE IF Slot(job[u], f) \in 1 .. k THEN New(job[u], f)
                     ELSE before[u][f]
    BY <1>1, <1>2, <1>3 DEF Placing, Underway, Gap
  <2> QED
    BY <2>1, <1>2, <1>5, <1>8
<1>10. /\ pc' = [pc EXCEPT ![u] = "installing"]
       /\ backups' = [backups EXCEPT ![u] = backups[u]]
  BY <1>1, <1>6, SameValue
<1>11. /\ k + 1 \in 0 .. 4 /\ Len(backups[u]) \in {k + 1, (k + 1) + 1}
       /\ Len(backups[u]) # (k + 1) + 1 /\ k # Last(job[u])
       /\ Len(backups[u]) <= Last(job[u])
  BY <1>2, <1>3
<1>12. failures' \in 0 .. MaxFailures
  BY <1>6 DEF IInv, TypeOK
<1>13. Underway(job[u], before[u], "installing", k + 1, backups[u], disk')
  BY <1>2, <1>3, <1>9, <1>11 DEF Underway, Gap
<1>14. UNCHANGED <<published, due, lease, job, before, highest, crashes, manual>>
  BY <1>6
<1>15. /\ pc' = [pc EXCEPT ![u] = "installing"] /\ placed' = [placed EXCEPT ![u] = k + 1]
      /\ backups' = [backups EXCEPT ![u] = backups[u]]
  BY <1>6, <1>10
<1>16. "installing" \in Installing /\ k + 1 \in 0 .. 4 /\ backups[u] \in Seq(Contents) /\ Len(backups[u]) <= 4
      /\ ~(pc[u] = "installing" /\ placed[u] = Last(job[u]))
  BY <1>1, <1>2, <1>3, <1>4, <1>5, <1>6, <1>7
<1> HIDE DEF k
<1> QED
  BY <1>1, <1>7, <1>12, <1>13, <1>14, <1>15, <1>16, PlacedStepKeeps

LEMMA PutFailsKeeps ==
    ASSUME IInv, NEW u \in Updaters, put_fails(u) PROVE IInv'
<1> DEFINE k == placed[u]
           t == Target(u, k + 1)
           q == SubSeq(backups[u], 1, k)
<1>1. pc[u] = "installing" /\ pc[u] \in Installing /\ "rolling" \in Installing
  BY DEF put_fails, Installing
<1>2. /\ Placing(u) /\ k \in 0 .. 4 /\ backups[u] \in Seq(Contents) /\ Len(backups[u]) \in Nat
      /\ Last(job[u]) \in 3 .. 4 /\ disk \in Directories /\ before[u] \in Directories
  BY <1>1, InProgress
<1>3. Len(backups[u]) = k + 1 /\ k + 1 <= Last(job[u])
  BY <1>1, <1>2 DEF Placing, Underway, put_fails, Moved
<1>4. k + 1 \in 1 .. Last(job[u]) /\ k \in 0 .. Len(backups[u])
  BY <1>2, <1>3
<1>5. /\ t \in Files /\ \A f \in Files : Slot(job[u], f) = k + 1 <=> f = t
      /\ \A f \in Files : Slot(job[u], f) \in Nat
  BY <1>4, TargetIs
<1>6. q \in Seq(Contents) /\ Len(q) = k /\ \A i \in 1 .. k : q[i] = backups[u][i]
  BY <1>2, <1>4, Cut
<1>7. backups[u][k + 1] = before[u][t]
  BY <1>2, <1>3, <1>5 DEF Placing, Underway
<1>8. /\ disk' = [disk EXCEPT ![t] = before[u][t]]
      /\ pc' = [pc EXCEPT ![u] = "rolling"]
      /\ backups' = [backups EXCEPT ![u] = q]
      /\ UNCHANGED <<published, due, lease, job, placed, before, highest, crashes, manual>>
  BY <1>7 DEF put_fails, history, IInv, TypeOK
<1> HIDE DEF t, q
<1>9. disk' \in Directories
  BY <1>2, <1>5, <1>8, DirectoryPut
<1>10. disk'[t] = before[u][t] /\ \A g \in Files \ {t} : disk'[g] = disk[g]
  BY <1>2, <1>5, <1>8, DiskPut
<1>11. ASSUME NEW f \in Files
       PROVE  /\ Slot(job[u], f) \in 1 .. Len(q) => q[Slot(job[u], f)] = before[u][f]
              /\ disk'[f] = IF Slot(job[u], f) \in 1 .. k THEN New(job[u], f)
                            ELSE before[u][f]
  <2>1. /\ Slot(job[u], f) \in 1 .. Len(backups[u]) =>
               backups[u][Slot(job[u], f)] = before[u][f]
        /\ disk[f] = IF Slot(job[u], f) = k + 1 THEN Absent
                     ELSE IF Slot(job[u], f) \in 1 .. k THEN New(job[u], f)
                     ELSE before[u][f]
    BY <1>1, <1>2, <1>3 DEF Placing, Underway, Gap
  <2> QED
    BY <2>1, <1>2, <1>3, <1>5, <1>6, <1>10
<1>12. placed' = [placed EXCEPT ![u] = k]
  BY <1>8, SameValue
<1>13. Len(q) <= 4 /\ Len(q) <= Last(job[u]) /\ k < Last(job[u])
  BY <1>2, <1>3, <1>6
<1>14. failures' \in 0 .. MaxFailures
  BY FaultsTyped DEF put_fails, IInv, TypeOK
<1>15. Underway(job[u], before[u], "rolling", k, q, disk')
  BY <1>2, <1>3, <1>6, <1>11, <1>13 DEF Underway, Gap
<1>16. UNCHANGED <<published, due, lease, job, before, highest, crashes, manual>>
  BY <1>8
<1>17. /\ pc' = [pc EXCEPT ![u] = "rolling"] /\ placed' = [placed EXCEPT ![u] = k]
      /\ backups' = [backups EXCEPT ![u] = q]
  BY <1>8, <1>12
<1>18. "rolling" \in Installing /\ k \in 0 .. 4 /\ q \in Seq(Contents) /\ Len(q) <= 4
      /\ ~(pc[u] = "installing" /\ placed[u] = Last(job[u]))
  BY <1>1, <1>2, <1>3, <1>4, <1>5, <1>6, <1>7
<1> HIDE DEF k
<1> QED
  BY <1>1, <1>9, <1>14, <1>15, <1>16, <1>17, <1>18, PlacedStepKeeps

LEMMA RemoveKeeps ==
    ASSUME IInv, NEW u \in Updaters, remove(u) PROVE IInv'
<1> DEFINE k == placed[u]
           t == Target(u, k)
<1>1. pc[u] = "rolling" /\ pc[u] \in Installing /\ "restoring" \in Installing /\ k > 0
  BY DEF remove, Installing
<1>2. /\ Placing(u) /\ k \in 0 .. 4 /\ backups[u] \in Seq(Contents) /\ Len(backups[u]) \in Nat
      /\ Last(job[u]) \in 3 .. 4 /\ disk \in Directories /\ Len(backups[u]) <= 4
  BY <1>1, InProgress
<1>3. Len(backups[u]) = k /\ k < Last(job[u])
  BY <1>1, <1>2 DEF Placing, Underway
<1>4. k \in 1 .. Last(job[u])
  BY <1>1, <1>2, <1>3
<1>5. /\ t \in Files /\ \A f \in Files : Slot(job[u], f) = k <=> f = t
      /\ \A f \in Files : Slot(job[u], f) \in Nat
  BY <1>4, TargetIs
<1>6. /\ disk' = [disk EXCEPT ![t] = Absent]
      /\ pc' = [pc EXCEPT ![u] = "restoring"]
      /\ UNCHANGED <<published, due, lease, job, placed, backups, before, highest, failures,
                     crashes, manual>>
  BY DEF remove, history, faults
<1> HIDE DEF t
<1>7. disk' \in Directories
  BY <1>2, <1>5, <1>6, DirectoryPut
<1>8. disk'[t] = Absent /\ \A g \in Files \ {t} : disk'[g] = disk[g]
  BY <1>2, <1>5, <1>6, DiskPut
<1>9. ASSUME NEW f \in Files
      PROVE  /\ Slot(job[u], f) \in 1 .. Len(backups[u]) =>
                    backups[u][Slot(job[u], f)] = before[u][f]
             /\ disk'[f] = IF Slot(job[u], f) = k THEN Absent
                           ELSE IF Slot(job[u], f) \in 1 .. k THEN New(job[u], f)
                           ELSE before[u][f]
  <2>1. /\ Slot(job[u], f) \in 1 .. Len(backups[u]) =>
               backups[u][Slot(job[u], f)] = before[u][f]
        /\ disk[f] = IF Slot(job[u], f) \in 1 .. k THEN New(job[u], f) ELSE before[u][f]
    BY <1>1, <1>2, <1>3 DEF Placing, Underway, Gap
  <2> QED
    BY <2>1, <1>5, <1>8
<1>10. /\ placed' = [placed EXCEPT ![u] = k]
       /\ backups' = [backups EXCEPT ![u] = backups[u]]
  BY <1>6, SameValue
<1>11. failures' \in 0 .. MaxFailures
  BY <1>6 DEF IInv, TypeOK
<1>12. Underway(job[u], before[u], "restoring", k, backups[u], disk')
  BY <1>1, <1>2, <1>3, <1>9 DEF Underway, Gap
<1>13. UNCHANGED <<published, due, lease, job, before, highest, crashes, manual>>
  BY <1>6
<1>14. /\ pc' = [pc EXCEPT ![u] = "restoring"] /\ placed' = [placed EXCEPT ![u] = k]
      /\ backups' = [backups EXCEPT ![u] = backups[u]]
  BY <1>6, <1>10
<1>15. "restoring" \in Installing /\ k \in 0 .. 4 /\ backups[u] \in Seq(Contents) /\ Len(backups[u]) <= 4
      /\ ~(pc[u] = "installing" /\ placed[u] = Last(job[u]))
  BY <1>1, <1>2, <1>3, <1>4, <1>5, <1>6, <1>7
<1> HIDE DEF k
<1> QED
  BY <1>1, <1>7, <1>11, <1>12, <1>13, <1>14, <1>15, PlacedStepKeeps

LEMMA RestoreKeeps ==
    ASSUME IInv, NEW u \in Updaters, restore(u) PROVE IInv'
<1> DEFINE k == placed[u]
           t == Target(u, k)
           q == SubSeq(backups[u], 1, k - 1)
<1>1. pc[u] = "restoring" /\ pc[u] \in Installing /\ "rolling" \in Installing
  BY DEF restore, Installing
<1>2. /\ Placing(u) /\ k \in 0 .. 4 /\ backups[u] \in Seq(Contents) /\ Len(backups[u]) \in Nat
      /\ Last(job[u]) \in 3 .. 4 /\ disk \in Directories /\ before[u] \in Directories
  BY <1>1, InProgress
<1>3. Len(backups[u]) = k /\ k < Last(job[u]) /\ k > 0
  BY <1>1, <1>2 DEF Placing, Underway
<1>4. k \in 1 .. Last(job[u]) /\ k - 1 \in 0 .. Len(backups[u]) /\ k - 1 \in 0 .. 4
  BY <1>2, <1>3
<1>5. /\ t \in Files /\ \A f \in Files : Slot(job[u], f) = k <=> f = t
      /\ \A f \in Files : Slot(job[u], f) \in Nat
  BY <1>4, TargetIs
<1>6. q \in Seq(Contents) /\ Len(q) = k - 1 /\ \A i \in 1 .. k - 1 : q[i] = backups[u][i]
  BY <1>2, <1>4, Cut
<1>7. backups[u][k] = before[u][t]
  BY <1>2, <1>3, <1>5 DEF Placing, Underway
<1>8. /\ disk' = [disk EXCEPT ![t] = before[u][t]]
      /\ pc' = [pc EXCEPT ![u] = "rolling"]
      /\ placed' = [placed EXCEPT ![u] = k - 1]
      /\ backups' = [backups EXCEPT ![u] = q]
      /\ UNCHANGED <<published, due, lease, job, before, highest, failures, crashes, manual>>
  BY <1>7 DEF restore, history, faults, IInv, TypeOK
<1> HIDE DEF t, q
<1>9. disk' \in Directories
  BY <1>2, <1>5, <1>8, DirectoryPut
<1>10. disk'[t] = before[u][t] /\ \A g \in Files \ {t} : disk'[g] = disk[g]
  BY <1>2, <1>5, <1>8, DiskPut
<1>11. ASSUME NEW f \in Files
       PROVE  /\ Slot(job[u], f) \in 1 .. Len(q) => q[Slot(job[u], f)] = before[u][f]
              /\ disk'[f] = IF Slot(job[u], f) \in 1 .. k - 1 THEN New(job[u], f)
                            ELSE before[u][f]
  <2>1. /\ Slot(job[u], f) \in 1 .. k => backups[u][Slot(job[u], f)] = before[u][f]
        /\ disk[f] = IF Slot(job[u], f) = k THEN Absent
                     ELSE IF Slot(job[u], f) \in 1 .. k THEN New(job[u], f)
                     ELSE before[u][f]
    BY <1>1, <1>2, <1>3 DEF Placing, Underway, Gap
  <2> QED
    BY <2>1, <1>2, <1>3, <1>5, <1>6, <1>10
<1>12. Len(q) <= 4 /\ Len(q) <= Last(job[u]) /\ k - 1 < Last(job[u])
  BY <1>2, <1>3, <1>6
<1>13. failures' \in 0 .. MaxFailures
  BY <1>8 DEF IInv, TypeOK
<1>14. Underway(job[u], before[u], "rolling", k - 1, q, disk')
  BY <1>2, <1>3, <1>4, <1>6, <1>11, <1>12 DEF Underway, Gap
<1>15. UNCHANGED <<published, due, lease, job, before, highest, crashes, manual>>
  BY <1>8
<1>16. /\ pc' = [pc EXCEPT ![u] = "rolling"] /\ placed' = [placed EXCEPT ![u] = k - 1]
      /\ backups' = [backups EXCEPT ![u] = q]
  BY <1>8
<1>17. "rolling" \in Installing /\ k - 1 \in 0 .. 4 /\ q \in Seq(Contents) /\ Len(q) <= 4
      /\ ~(pc[u] = "installing" /\ placed[u] = Last(job[u]))
  BY <1>1, <1>2, <1>3, <1>4, <1>5, <1>6, <1>7
<1> HIDE DEF k
<1> QED
  BY <1>1, <1>9, <1>13, <1>14, <1>15, <1>16, <1>17, PlacedStepKeeps

----------------------------------------------------------------------------
(* The end of an install *)

LEMMA NoJobTyped ==
    /\ NoMetadata \in Metadatas
    /\ NoJob \in [release : 0 .. MaxRelease, prev : Metadatas]
<1>1. 0 \in 0 .. MaxRelease
  BY ReleasesTyped
<1>2. NoMetadata \in Metadatas
  BY <1>1 DEF NoMetadata, Metadatas, Payload
<1> QED
  BY <1>1, <1>2 DEF NoJob

\* It is enough that the directory it leaves is one that an install may find.
LEMMA UnplaceKeeps ==
    ASSUME IInv, NEW u \in Updaters, pc[u] \in Installing, Unplace(u),
           UNCHANGED <<disk, published, due, before, manual>>,
           failures' \in 0 .. MaxFailures, crashes' \in 0 .. MaxCrashes,
           highest' \in 0 .. MaxRelease,
           crashes' = 0 => PairWhole(disk) /\ Claimed(disk).version >= highest',
           EnginesAdvance /\ crashes' = 0 =>
               /\ disk["pob"] = Claimed(disk).engine
               /\ \A w \in Updaters \ {u} : pc[w] # "idle" =>
                      job[w].prev.version <= Claimed(disk).version
    PROVE  IInv'
<1>1. \A w \in Updaters \ {u} : pc[w] \notin Installing
  BY OneInstalls DEF IInv
<1>2. TypeOK
  BY DEF IInv
<1>3. /\ lease' = Absent /\ pc'[u] = "idle" /\ placed'[u] = 0 /\ backups'[u] = <<>>
      /\ \A w \in Updaters \ {u} : /\ pc'[w] = pc[w] /\ job'[w] = job[w]
                                   /\ placed'[w] = placed[w] /\ backups'[w] = backups[w]
  BY <1>2 DEF Unplace, TypeOK
<1>4. \A w \in Updaters : pc'[w] \notin Installing
  BY <1>1, <1>3 DEF Installing
<1>5. \A w \in Updaters : pc'[w] # "idle" => w # u /\ pc'[w] = pc[w] /\ job'[w] = job[w]
  BY <1>3
<1>6. TypeOK'
  <2>1. /\ pc' \in [Updaters -> {"idle", "staging", "staged", "installing", "rolling",
                                 "restoring"}]
        /\ lease' \in Updaters \cup {Absent}
    BY <1>2, <1>3 DEF Unplace, TypeOK
  <2>2. job' \in [Updaters -> [release : 0 .. MaxRelease, prev : Metadatas]]
    BY <1>2, NoJobTyped DEF Unplace, TypeOK
  <2>3. placed' \in [Updaters -> 0 .. 4]
    <3>1. 0 \in 0 .. 4
      OBVIOUS
    <3> QED
      BY <1>2, <3>1 DEF Unplace, TypeOK
  <2>4. backups' \in [Updaters -> Seq(Contents)]
    <3>1. <<>> \in Seq(Contents)
      OBVIOUS
    <3> QED
      BY <1>2, <3>1 DEF Unplace, TypeOK
  <2>5. \A w \in Updaters : Len(backups'[w]) <= 4
    <3>1. Len(<<>>) <= 4
      OBVIOUS
    <3> QED
      BY <1>2, <1>3, <3>1 DEF TypeOK
  <2>6. /\ disk' \in Directories /\ before' \in [Updaters -> Directories]
        /\ due' \in BOOLEAN /\ published' \in 0 .. MaxRelease /\ manual' \in 0 .. MaxManual
    BY <1>2 DEF TypeOK
  <2> QED
    BY <2>1, <2>2, <2>3, <2>4, <2>5, <2>6 DEF TypeOK
<1>7. LeaseInv'
  <2>1. lease' \notin Updaters
    BY <1>3, ReleasesTyped
  <2>2. \A w \in Updaters : pc[w] \notin Installing => placed[w] = 0 /\ backups[w] = <<>>
    BY DEF IInv, LeaseInv
  <2>3. \A w \in Updaters : placed'[w] = 0 /\ backups'[w] = <<>>
    BY <1>1, <1>3, <2>2
  <2>4. \A w \in Updaters : pc'[w] # "idle" => job'[w].release \in 1 .. published
    BY <1>5 DEF IInv, LeaseInv
  <2> QED
    BY <1>4, <2>1, <2>3, <2>4 DEF LeaseInv
<1>8. PlaceInv'
  BY <1>4 DEF PlaceInv
<1>9. MetaInv'
  <2>1. \A m : Truthful(m) => Truthful(m)'
    BY DEF Truthful
  <2>2. Truthful(Claimed(disk))
    BY AlwaysTruthful
  <2>3. Claimed(disk)' = Claimed(disk)
    BY DEF Claimed
  <2>4. \A w \in Updaters : pc'[w] # "idle" => Truthful(job'[w].prev)
    BY <1>5 DEF IInv, MetaInv
  <2> QED
    BY <1>4, <2>1, <2>2, <2>3, <2>4 DEF MetaInv
<1>10. PairInv'
  BY <1>4 DEF PairInv, PairWhole, Claimed
<1>11. VersionInv'
  BY <1>4 DEF VersionInv, Claimed
<1>12. EngineInv'
  <2>1. Claimed(disk)' = Claimed(disk)
    BY DEF Claimed
  <2> QED
    BY <1>4, <1>5, <2>1 DEF EngineInv
<1> QED
  BY <1>6, <1>7, <1>8, <1>9, <1>10, <1>11, <1>12 DEF IInv

\* An engine that is not replaced is the one of the release.
LEMMA KeptEngine ==
    ASSUME IInv, EnginesAdvance, crashes = 0, NEW u \in Updaters, pc[u] \in Installing,
           Claimed(before[u]).version <= job[u].release, ~replace_engine(job[u])
    PROVE  before[u]["pob"] = EngineOf[job[u].release]
<1> DEFINE j == job[u]
           r == job[u].release
           a == j.prev.version
           b == Claimed(before[u]).version
<1>1. r \in Releases /\ Truthful(Claimed(before[u])) /\ Truthful(j.prev)
  BY InProgress DEF IInv, MetaInv, Installing
<1>2. EngineOf[r] = j.prev.engine /\ EngineOf[r] # Absent
  BY <1>1, ReleaseContents, ReleasesTyped DEF replace_engine
<1>3. j.prev = Recorded(a) /\ Claimed(before[u]) = Recorded(b)
  BY <1>1 DEF Truthful
<1>4. a # 0 /\ EngineOf[a] = EngineOf[r]
  BY <1>2, <1>3 DEF Recorded, NoMetadata, Metadata
<1>5. a <= b /\ b <= r /\ before[u]["pob"] = Claimed(before[u]).engine
  BY DEF IInv, EngineInv
<1>6. a \in Releases /\ b \in Releases /\ b # 0
  <2>1. published \in 0 .. MaxRelease /\ a \in 0 .. published /\ b \in 0 .. published
    BY <1>1 DEF IInv, TypeOK, Truthful
  <2> HIDE DEF a, b, r
  <2> QED BY <1>1, <1>4, <1>5, <2>1, ReleasesTyped DEF Releases
<1>7. EngineOf[b] = EngineOf[a]
  BY <1>1, <1>4, <1>5, <1>6 DEF EnginesAdvance
<1>8. Claimed(before[u]).engine = EngineOf[b]
  BY <1>3, <1>6 DEF Recorded, Metadata
<1> QED BY <1>4, <1>5, <1>7, <1>8

\* When the last replacement is made the directory is the release, its engine
\* included: an updater that keeps the engine it found holds a release whose
\* engine is the one that every release in between has.
LEMMA FinishKeeps ==
    ASSUME IInv, NEW u \in Updaters, finish_install(u) PROVE IInv'
<1> DEFINE j == job[u]
           r == job[u].release
<1>1. pc[u] = "installing" /\ pc[u] \in Installing
  BY DEF finish_install, Installing
<1>2. /\ Placing(u) /\ placed[u] = Last(j) /\ Last(j) \in 3 .. 4
      /\ backups[u] \in Seq(Contents) /\ Len(backups[u]) \in Nat
      /\ r \in Releases
  BY <1>1, InProgress DEF finish_install, Complete
<1>3. r \in Nat /\ highest \in Nat /\ highest \in 0 .. MaxRelease /\ r \in 0 .. MaxRelease
  BY <1>2 DEF IInv, TypeOK, Releases
<1>4. \A f \in Files : disk[f] = IF Slot(j, f) = 0 THEN before[u][f] ELSE New(j, f)
  <2>1. \A f \in Files : Slot(j, f) \in 0 .. Last(j)
    BY Slots
  <2>2. Len(backups[u]) # placed[u] + 1
    BY <1>2 DEF Placing, Underway
  <2> QED
    BY <1>1, <1>2, <2>1, <2>2 DEF Placing, Underway, Gap
<1>5. /\ disk["corpus"] = CorpusOf[r] /\ disk["certificate"] = CorpusOf[r]
      /\ disk["installed"] = Metadata(j)
      /\ disk["pob"] = IF replace_engine(j) THEN EngineOf[r] ELSE before[u]["pob"]
  <2>1. /\ Slot(j, "corpus") = 1 /\ Slot(j, "certificate") = 2
        /\ Slot(j, "pob") = IF replace_engine(j) THEN 3 ELSE 0
        /\ Slot(j, "installed") = Last(j)
    BY DEF Slot, Last
  <2>2. /\ New(j, "corpus") = CorpusOf[r] /\ New(j, "certificate") = CorpusOf[r]
        /\ New(j, "pob") = EngineOf[r] /\ New(j, "installed") = Metadata(j)
    BY DEF New
  <2> QED
    BY <1>2, <1>4, <2>1, <2>2 DEF Files
<1>6. Claimed(disk) = Metadata(j)
  BY <1>2, <1>5, ReleaseContents, ReleasesTyped DEF Claimed
<1>7. /\ Claimed(disk).version = r /\ Claimed(disk).engine = EngineOf[r]
      /\ Claimed(disk).corpus = CorpusOf[r] /\ Claimed(disk).certificate = CorpusOf[r]
  BY <1>6 DEF Metadata
<1>8. /\ Unplace(u) /\ UNCHANGED <<disk, published, due, before, manual, failures, crashes>>
      /\ highest' = IF r > highest THEN r ELSE highest
  BY DEF finish_install, faults
<1>9. /\ failures' \in 0 .. MaxFailures /\ crashes' \in 0 .. MaxCrashes
      /\ highest' \in 0 .. MaxRelease
  BY <1>3, <1>8 DEF IInv, TypeOK
<1>10. /\ Truthful(Claimed(before[u])) /\ Truthful(j.prev)
  BY <1>1 DEF IInv, MetaInv
<1>11. published \in Nat /\ Claimed(before[u]).version \in Nat /\ j.prev.version \in Nat
  BY <1>10 DEF Truthful, IInv, TypeOK
<1>12. crashes = 0 => highest <= Claimed(before[u]).version /\ Claimed(before[u]).version <= r
  BY <1>1, <1>3, <1>11 DEF IInv, VersionInv
<1>13. crashes' = 0 => PairWhole(disk) /\ Claimed(disk).version >= highest'
  BY <1>3, <1>5, <1>7, <1>8, <1>11, <1>12 DEF PairWhole
<1>14. ASSUME EnginesAdvance, crashes' = 0 PROVE disk["pob"] = Claimed(disk).engine
  <2>1. CASE replace_engine(j)
    BY <1>5, <1>7, <2>1
  <2>2. CASE ~replace_engine(j)
    BY <1>1, <1>5, <1>7, <1>8, <1>12, <1>14, <2>2, KeptEngine
  <2> QED
    BY <2>1, <2>2
<1>15. ASSUME EnginesAdvance, crashes' = 0, NEW w \in Updaters \ {u}, pc[w] # "idle"
       PROVE  job[w].prev.version <= Claimed(disk).version
  <2>1. /\ \/ job[w].prev.version <= Claimed(before[u]).version
           \/ job[w].prev.version <= r
    BY <1>1, <1>8, <1>15 DEF IInv, EngineInv
  <2>2. job[w].prev.version \in Nat
    BY <1>15 DEF IInv, MetaInv, Truthful, TypeOK
  <2> QED
    BY <1>3, <1>7, <1>8, <1>11, <1>12, <1>15, <2>1, <2>2
<1> QED
  BY <1>1, <1>8, <1>9, <1>13, <1>14, <1>15, UnplaceKeeps

\* When everything is undone the directory is the one that was found.
LEMMA UndoneIsBefore ==
    ASSUME IInv, NEW u \in Updaters, pc[u] = "rolling", placed[u] = 0
    PROVE  disk = before[u]
<1>1. pc[u] \in Installing
  BY DEF Installing
<1>2. /\ Placing(u) /\ disk \in Directories /\ before[u] \in Directories
      /\ backups[u] \in Seq(Contents)
  BY <1>1, InProgress
<1>3. \A f \in Files : Slot(job[u], f) \in Nat
  BY Slots
<1>4. \A f \in Files : disk[f] = before[u][f]
  BY <1>2, <1>3 DEF Placing, Underway, Gap
<1> QED
  BY <1>2, <1>4 DEF Directories

LEMMA RolledBackKeeps ==
    ASSUME IInv, NEW u \in Updaters, rolled_back(u) PROVE IInv'
<1>1. pc[u] = "rolling" /\ pc[u] \in Installing /\ placed[u] = 0 /\ Last(job[u]) \in 3 .. 4
  BY Slots DEF rolled_back, Installing
<1>2. disk = before[u]
  BY <1>1, UndoneIsBefore
<1>3. /\ Unplace(u)
      /\ UNCHANGED <<disk, published, due, before, highest, failures, crashes, manual>>
  BY DEF rolled_back, history, faults
<1>4. /\ failures' \in 0 .. MaxFailures /\ crashes' \in 0 .. MaxCrashes
      /\ highest' \in 0 .. MaxRelease
  BY <1>3 DEF IInv, TypeOK
<1>5. crashes' = 0 => PairWhole(disk) /\ Claimed(disk).version >= highest'
  BY <1>1, <1>2, <1>3 DEF IInv, PairInv, VersionInv
<1>6. ASSUME EnginesAdvance, crashes' = 0
      PROVE  /\ disk["pob"] = Claimed(disk).engine
             /\ \A w \in Updaters \ {u} : pc[w] # "idle" =>
                    job[w].prev.version <= Claimed(disk).version
  BY <1>1, <1>2, <1>3, <1>6 DEF IInv, EngineInv
<1> QED
  BY <1>1, <1>3, <1>4, <1>5, <1>6, UnplaceKeeps

\* After a death nothing is promised but that the record is a true one.
LEMMA CrashKeeps ==
    ASSUME IInv, NEW u \in Updaters, crash(u) PROVE IInv'
<1>1. pc[u] \in Installing
  BY DEF crash, Installing
<1>2. /\ Unplace(u) /\ UNCHANGED <<disk, published, due, before, highest, failures, manual>>
      /\ crashes < MaxCrashes /\ crashes' = crashes + 1
  BY DEF crash, history
<1>3. /\ failures' \in 0 .. MaxFailures /\ crashes' \in 0 .. MaxCrashes
      /\ highest' \in 0 .. MaxRelease /\ crashes' # 0
  BY <1>2, FaultsTyped DEF IInv, TypeOK
<1> QED
  BY <1>1, <1>2, <1>3, UnplaceKeeps

----------------------------------------------------------------------------
(* The steps before an install, and beside it *)

\* What EngineInv says of an updater that has read m.
NoNewer(m) ==
    EnginesAdvance /\ crashes = 0 =>
        /\ lease = Absent => m.version <= Claimed(disk).version
        /\ \A w \in Updaters : pc[w] \in Installing =>
               \/ m.version <= Claimed(before[w]).version
               \/ /\ pc[w] = "installing" /\ placed[w] = Last(job[w])
                  /\ m.version <= job[w].release

\* What is read while another installs is what that one found, nothing, or its
\* own release when it is all in place.
LEMMA ReadIsNoNewer ==
    ASSUME IInv PROVE NoNewer(Claimed(disk))
<1>1. Claimed(disk).version \in Nat
  BY AlwaysTruthful DEF Truthful, IInv, TypeOK
<1>2. ASSUME NEW w \in Updaters, pc[w] \in Installing
      PROVE  \/ Claimed(disk).version <= Claimed(before[w]).version
             \/ /\ pc[w] = "installing" /\ placed[w] = Last(job[w])
                /\ Claimed(disk).version <= job[w].release
  <2>1. Claimed(before[w]).version \in Nat /\ job[w].release \in Releases
    <3>1. Truthful(Claimed(before[w])) /\ published \in 0 .. MaxRelease
      BY <1>2 DEF IInv, MetaInv, TypeOK
    <3> QED
      BY <1>2, <3>1, InProgress DEF Truthful
  <2>2. CASE disk["installed"] = Absent
    BY <2>1, <2>2 DEF Claimed, NoMetadata
  <2>3. CASE disk["installed"] = before[w]["installed"]
    BY <2>1, <2>3 DEF Claimed
  <2>4. CASE /\ pc[w] = "installing" /\ placed[w] = Last(job[w])
             /\ disk["installed"] = Metadata(job[w])
    <3>1. Claimed(disk).version = job[w].release
      BY <2>1, <2>4, ReleaseContents, ReleasesTyped DEF Claimed
    <3>2. job[w].release \in Nat
      BY <2>1 DEF Releases
    <3> QED
      BY <2>4, <3>1, <3>2
  <2> QED
    BY <1>2, <2>2, <2>3, <2>4, MetadataLast
<1> QED
  BY <1>1, <1>2 DEF NoNewer

\* Deciding, staging and giving up touch nothing but the updater's own plan.
LEMMA PlanStepKeeps ==
    ASSUME IInv, NEW u \in Updaters, pc[u] \notin Installing,
           NEW w \in {"idle", "staging", "staged"},
           NEW j \in [release : 0 .. MaxRelease, prev : Metadatas],
           pc' = [pc EXCEPT ![u] = w], job' = [job EXCEPT ![u] = j],
           w # "idle" => j.release \in 1 .. published /\ Truthful(j.prev) /\ NoNewer(j.prev),
           due' \in BOOLEAN,
           UNCHANGED <<disk, published, lease, placed, backups, before, highest, failures,
                       crashes, manual>>
    PROVE  IInv'
<1>1. TypeOK
  BY DEF IInv
<1>2. /\ pc'[u] = w /\ job'[u] = j /\ w \notin Installing
      /\ \A x \in Updaters \ {u} : pc'[x] = pc[x] /\ job'[x] = job[x]
  BY <1>1 DEF TypeOK, Installing
<1>3. \A x \in Updaters : pc'[x] \in Installing =>
          x # u /\ pc[x] \in Installing /\ pc'[x] = pc[x] /\ job'[x] = job[x]
  BY <1>2
<1>4. \A x \in Updaters : pc'[x] \in Installing <=> pc[x] \in Installing
  BY <1>2
<1>5. TypeOK'
  BY <1>1 DEF TypeOK
<1>6. LeaseInv'
  <2>1. \A x \in Updaters : pc'[x] # "idle" => job'[x].release \in 1 .. published
    BY <1>2 DEF IInv, LeaseInv
  <2> QED
    BY <1>4, <2>1 DEF IInv, LeaseInv
<1>7. PlaceInv'
  <2> SUFFICES ASSUME NEW x \in Updaters, pc'[x] \in Installing PROVE Placing(x)'
    BY DEF PlaceInv
  <2>1. /\ Placing(x) /\ pc'[x] = pc[x] /\ job'[x] = job[x]
    BY <1>3 DEF IInv, PlaceInv
  <2> QED
    BY <2>1 DEF Placing
<1>8. MetaInv'
  <2>1. \A m : Truthful(m) <=> Truthful(m)'
    BY DEF Truthful
  <2>2. \A x \in Updaters : pc'[x] # "idle" => Truthful(job'[x].prev)
    BY <1>2 DEF IInv, MetaInv
  <2>3. \A x \in Updaters : pc'[x] \in Installing => Truthful(Claimed(before[x]))
    BY <1>3 DEF IInv, MetaInv
  <2>4. lease = Absent => Truthful(Claimed(disk))
    BY DEF IInv, MetaInv
  <2> QED
    BY <2>1, <2>2, <2>3, <2>4 DEF MetaInv, Claimed
<1>9. PairInv'
  BY <1>4 DEF IInv, PairInv, PairWhole, Claimed
<1>10. VersionInv'
  <2>1. crashes = 0 =>
        /\ lease = Absent => Claimed(disk).version >= highest
        /\ \A x \in Updaters : pc'[x] \in Installing =>
               /\ Claimed(before[x]).version >= highest
               /\ Claimed(before[x]).version <= job'[x].release
    BY <1>3 DEF IInv, VersionInv
  <2> QED
    BY <2>1 DEF VersionInv, Claimed
<1>11. EngineInv'
  <2> SUFFICES ASSUME EnginesAdvance, crashes = 0
               PROVE  EngineInv'
    BY DEF EngineInv
  <2>1. \A x \in Updaters : pc[x] # "idle" => NoNewer(job[x].prev)
    BY DEF NoNewer, IInv, EngineInv
  <2>2. \A x \in Updaters : pc'[x] # "idle" => NoNewer(job'[x].prev)
    BY <1>2, <2>1
  <2>3. ASSUME NEW x \in Updaters, pc'[x] # "idle"
        PROVE  /\ lease' = Absent => job'[x].prev.version <= Claimed(disk)'.version
               /\ \A y \in Updaters : pc'[y] \in Installing =>
                      \/ job'[x].prev.version <= Claimed(before[y])'.version
                      \/ /\ pc'[y] = "installing" /\ placed'[y] = Last(job[y])'
                         /\ job'[x].prev.version <= job'[y].release
    <3>1. \A y \in Updaters : pc'[y] \in Installing => Last(job[y])' = Last(job[y])
      BY <1>3 DEF Last, replace_engine
    <3>2. Claimed(disk)' = Claimed(disk) /\ \A y \in Updaters : Claimed(before[y])' = Claimed(before[y])
      BY DEF Claimed
    <3> QED
      BY <1>3, <2>2, <2>3, <3>1, <3>2 DEF NoNewer
  <2>4. lease' = Absent => disk'["pob"] = Claimed(disk)'.engine
    BY DEF IInv, EngineInv, Claimed
  <2>5. \A y \in Updaters : pc'[y] \in Installing =>
               /\ before'[y]["pob"] = Claimed(before[y])'.engine
               /\ job'[y].prev.version <= Claimed(before[y])'.version
    BY <1>3 DEF IInv, EngineInv, Claimed
  <2> QED
    BY <2>3, <2>4, <2>5 DEF EngineInv
<1> QED
  BY <1>5, <1>6, <1>7, <1>8, <1>9, <1>10, <1>11 DEF IInv

LEMMA DecidesKeeps ==
    ASSUME IInv, NEW u \in Updaters, Decides(u), due' \in BOOLEAN PROVE IInv'
<1> DEFINE j == [release |-> published, prev |-> installed_meta]
<1>1. pc[u] = "idle" /\ pc[u] \notin Installing /\ published > 0 /\ published \in 0 .. MaxRelease
  BY DEF Decides, available, Installing, IInv, TypeOK
<1>2. installed_meta = Claimed(disk)
  BY DEF installed_meta, Claimed
<1>3. installed_meta \in Metadatas
  BY NoJobTyped DEF installed_meta, IInv, TypeOK, Directories, Payload
<1>4. j \in [release : 0 .. MaxRelease, prev : Metadatas]
  BY <1>1, <1>3
<1>5. j.release = published /\ j.prev = Claimed(disk)
  BY <1>2
<1>6. /\ pc' = [pc EXCEPT ![u] = "staging"] /\ job' = [job EXCEPT ![u] = j]
      /\ UNCHANGED <<disk, published, lease, placed, backups, before, highest, failures,
                     crashes, manual>>
  BY DEF Decides, history, faults
<1> HIDE DEF j
<1>7. j.release \in 1 .. published /\ Truthful(j.prev) /\ NoNewer(j.prev)
  <2>1. published \in 1 .. published
    BY <1>1
  <2> QED
    BY <2>1, <1>5, AlwaysTruthful, ReadIsNoNewer
<1> QED
  BY <1>1, <1>4, <1>6, <1>7, PlanStepKeeps

LEMMA UnchangedKeeps ==
    ASSUME IInv, due' \in BOOLEAN,
           UNCHANGED <<disk, published, lease, pc, job, placed, backups, before, highest,
                       failures, crashes, manual>>
    PROVE  IInv'
<1>1. TypeOK'
  BY DEF IInv, TypeOK
<1>2. LeaseInv'
  BY DEF IInv, LeaseInv
<1>3. PlaceInv'
  BY DEF IInv, PlaceInv, Placing
<1>4. MetaInv'
  BY DEF IInv, MetaInv, Truthful, Claimed
<1>5. PairInv' /\ VersionInv'
  BY DEF IInv, PairInv, PairWhole, VersionInv, Claimed
<1>6. EngineInv'
  BY DEF IInv, EngineInv, Claimed, Last, replace_engine
<1> QED
  BY <1>1, <1>2, <1>3, <1>4, <1>5, <1>6 DEF IInv

\* A truth about an earlier release stays one.
LEMMA PublishKeeps ==
    ASSUME IInv, publish PROVE IInv'
<1>1. /\ published \in 0 .. MaxRelease /\ published' = published + 1 /\ published < MaxRelease
      /\ UNCHANGED <<disk, due, lease, pc, job, placed, backups, before, highest, failures,
                     crashes, manual>>
  BY DEF publish, history, faults, IInv, TypeOK
<1>2. TypeOK'
  BY <1>1, ReleasesTyped DEF IInv, TypeOK
<1>3. LeaseInv'
  <2>1. \A n : n \in 1 .. published => n \in 1 .. published'
    BY <1>1
  <2> QED
    BY <1>1, <2>1 DEF IInv, LeaseInv
<1>4. PlaceInv'
  BY <1>1 DEF IInv, PlaceInv, Placing
<1>5. MetaInv'
  <2>1. \A m : Truthful(m) => Truthful(m)'
    BY <1>1 DEF Truthful
  <2>2. /\ lease = Absent => Truthful(Claimed(disk))'
        /\ \A u \in Updaters : /\ pc[u] # "idle" => Truthful(job[u].prev)'
                               /\ pc[u] \in Installing => Truthful(Claimed(before[u]))'
    <3>1. Claimed(disk)' = Claimed(disk)
          /\ \A u \in Updaters : /\ Claimed(before[u])' = Claimed(before[u])
                                 /\ job'[u].prev = job[u].prev
      BY <1>1 DEF Claimed
    <3> QED
      BY <1>1, <3>1 DEF Truthful, IInv, MetaInv
  <2> QED
    BY <1>1, <2>2 DEF MetaInv
<1>6. PairInv' /\ VersionInv'
  BY <1>1 DEF IInv, PairInv, PairWhole, VersionInv, Claimed
<1>7. EngineInv'
  BY <1>1 DEF IInv, EngineInv, Claimed, Last, replace_engine
<1> QED
  BY <1>2, <1>3, <1>4, <1>5, <1>6, <1>7 DEF IInv

\* The manual corpus has no certificate: the pair is no longer spoken of.
LEMMA UpdateCorpusKeeps ==
    ASSUME IInv, update_corpus PROVE IInv'
<1>1. /\ lease = Absent /\ manual' = manual + 1 /\ manual < MaxManual
      /\ manual \in 0 .. MaxManual
      /\ UNCHANGED <<published, due, lease, pc, job, placed, backups, before, highest,
                     failures, crashes>>
  BY DEF update_corpus, history, IInv, TypeOK
<1>2. PICK c \in Corpora : disk' = [disk EXCEPT !["corpus"] = c]
  BY DEF update_corpus
<1>3. disk \in [Files -> Contents] /\ "corpus" \in Files
  BY DEF IInv, TypeOK, Directories, Files
<1>4. /\ disk'["installed"] = disk["installed"] /\ disk'["pob"] = disk["pob"]
      /\ disk'["certificate"] = disk["certificate"] /\ disk'["corpus"] = c
  BY <1>2, <1>3 DEF Files
<1>5. Claimed(disk)' = Claimed(disk)
  BY <1>4 DEF Claimed
<1>6. \A w \in Updaters : pc[w] \notin Installing
  BY <1>1, ReleasesTyped DEF IInv, LeaseInv
<1>7. TypeOK'
  <2>1. disk' \in Directories
    <3>1. disk' \in [Files -> Contents]
      BY <1>2, <1>3 DEF Contents, Payload
    <3> QED
      BY <1>4, <3>1 DEF Directories, Payload, IInv, TypeOK
  <2>2. manual' \in 0 .. MaxManual
    BY <1>1, FaultsTyped
  <2> QED
    BY <1>1, <2>1, <2>2 DEF IInv, TypeOK
<1>8. LeaseInv'
  BY <1>1 DEF IInv, LeaseInv
<1>9. PlaceInv'
  BY <1>1, <1>6 DEF PlaceInv
<1>10. MetaInv'
  <2>1. \A m : Truthful(m) => Truthful(m)'
    BY <1>1 DEF Truthful
  <2> QED
    BY <1>1, <1>5, <1>6, <2>1 DEF IInv, MetaInv
<1>11. PairInv'
  <2>1. manual' # 0
    BY <1>1
  <2> QED
    BY <2>1 DEF PairInv, PairWhole
<1>12. VersionInv'
  BY <1>1, <1>5, <1>6 DEF IInv, VersionInv
<1>13. EngineInv'
  BY <1>1, <1>4, <1>5, <1>6 DEF IInv, EngineInv
<1> QED
  BY <1>7, <1>8, <1>9, <1>10, <1>11, <1>12, <1>13 DEF IInv

LEMMA StageKeeps ==
    ASSUME IInv, NEW u \in Updaters, stage(u) PROVE IInv'
<1>1. pc[u] = "staging" /\ pc[u] \notin Installing
  BY DEF stage, Installing
<1>2. /\ pc' = [pc EXCEPT ![u] = "staged"] /\ job' = [job EXCEPT ![u] = job[u]]
      /\ due' \in BOOLEAN
      /\ UNCHANGED <<disk, published, lease, placed, backups, before, highest, failures,
                     crashes, manual>>
  BY DEF stage, history, faults, IInv, TypeOK
<1>3. job[u] \in [release : 0 .. MaxRelease, prev : Metadatas]
  BY DEF IInv, TypeOK
<1>4. job[u].release \in 1 .. published /\ Truthful(job[u].prev) /\ NoNewer(job[u].prev)
  BY <1>1 DEF IInv, LeaseInv, MetaInv, EngineInv, NoNewer
<1> HIDE DEF Installing
<1> QED
  BY <1>1, <1>2, <1>3, <1>4, PlanStepKeeps

LEMMA GiveUpKeeps ==
    ASSUME IInv, NEW u \in Updaters, pc[u] \in {"staging", "staged"},
           pc' = [pc EXCEPT ![u] = "idle"], job' = [job EXCEPT ![u] = NoJob],
           UNCHANGED <<disk, published, due, lease, placed, backups, before, highest, failures,
                       crashes, manual>>
    PROVE  IInv'
<1>1. pc[u] \notin Installing /\ due' \in BOOLEAN
  BY DEF Installing, IInv, TypeOK
<1> QED
  BY <1>1, NoJobTyped, PlanStepKeeps

\* The second look at the version is what keeps an install from going back.
LEMMA BeginKeeps ==
    ASSUME IInv, NEW u \in Updaters, begin_install(u) PROVE IInv'
<1>1. pc[u] = "staged" /\ lease = Absent
  BY DEF begin_install
<1>2. CASE /\ pc' = [pc EXCEPT ![u] = "idle"] /\ job' = [job EXCEPT ![u] = NoJob]
           /\ UNCHANGED <<lease, before>>
  <2>1. UNCHANGED <<disk, published, due, placed, backups, highest, failures, crashes, manual>>
    BY DEF begin_install, faults
  <2> QED
    BY <1>1, <1>2, <2>1, GiveUpKeeps
<1>3. CASE /\ installed_version <= job[u].release
           /\ lease' = u /\ pc' = [pc EXCEPT ![u] = "installing"]
           /\ before' = [before EXCEPT ![u] = disk] /\ UNCHANGED job
  <2>1. UNCHANGED <<disk, published, due, job, placed, backups, highest, failures, crashes,
                    manual>>
    BY <1>3 DEF begin_install, faults
  <2>2. TypeOK
    BY DEF IInv
  <2>3. \A w \in Updaters : pc[w] \notin Installing
    BY <1>1, ReleasesTyped DEF IInv, LeaseInv
  <2>4. /\ pc'[u] = "installing" /\ before'[u] = disk
        /\ \A w \in Updaters \ {u} : pc'[w] = pc[w] /\ before'[w] = before[w]
    BY <1>3, <2>2 DEF TypeOK
  <2>5. \A w \in Updaters : pc'[w] \in Installing <=> w = u
    BY <2>3, <2>4 DEF Installing
  <2>6. placed[u] = 0 /\ backups[u] = <<>> /\ pc[u] # "idle"
    BY <1>1, <2>3 DEF IInv, LeaseInv
  <2>7. TypeOK'
    <3>1. before' \in [Updaters -> Directories]
      BY <1>3, <2>2 DEF TypeOK
    <3>2. pc' \in [Updaters -> {"idle", "staging", "staged", "installing", "rolling",
                                "restoring"}]
      BY <1>3, <2>2 DEF TypeOK
    <3> QED
      BY <1>3, <2>1, <2>2, <3>1, <3>2 DEF TypeOK
  <2>8. LeaseInv'
    <3>1. \A w \in Updaters : pc'[w] # "idle" => pc[w] # "idle"
      BY <2>4, <2>6
    <3>2. \A w \in Updaters : placed[w] = 0 /\ backups[w] = <<>>
      BY <2>3 DEF IInv, LeaseInv
    <3> QED
      BY <1>3, <2>1, <2>5, <3>1, <3>2 DEF IInv, LeaseInv
  <2>9. PlaceInv'
    <3>1. Underway(job[u], disk, "installing", 0, <<>>, disk)
      <4>1. Last(job[u]) \in 3 .. 4 /\ Len(<<>>) = 0
        BY Slots
      <4> QED
        BY <4>1 DEF Underway, Gap
    <3>2. Placing(u)'
      BY <2>1, <2>4, <2>6, <3>1 DEF Placing
    <3> QED
      BY <2>5, <3>2 DEF PlaceInv
  <2>10. /\ Claimed(disk)' = Claimed(disk) /\ Claimed(before[u])' = Claimed(disk)
         /\ lease' # Absent /\ Truthful(Claimed(disk))
         /\ installed_version = Claimed(disk).version
    BY <1>3, <2>1, <2>4, AlwaysTruthful, ReleasesTyped
       DEF Claimed, installed_version, installed_meta
  <2>11. MetaInv'
    <3>1. \A m : Truthful(m) => Truthful(m)'
      BY <2>1 DEF Truthful
    <3>2. \A w \in Updaters : pc'[w] # "idle" => Truthful(job[w].prev)
      BY <2>4, <2>6 DEF IInv, MetaInv
    <3> QED
      BY <2>1, <2>5, <2>10, <3>1, <3>2 DEF MetaInv
  <2>12. PairInv'
    <3>1. crashes = 0 => PairWhole(disk)
      BY <1>1 DEF IInv, PairInv
    <3> QED
      BY <2>1, <2>4, <2>5, <2>10, <3>1 DEF PairInv, PairWhole
  <2>13. VersionInv'
    BY <1>1, <1>3, <2>1, <2>5, <2>10 DEF IInv, VersionInv
  <2>14. EngineInv'
    <3>1. EnginesAdvance /\ crashes = 0 =>
              /\ disk["pob"] = Claimed(disk).engine
              /\ \A w \in Updaters : pc'[w] # "idle" =>
                     job[w].prev.version <= Claimed(disk).version
      BY <1>1, <2>4, <2>6 DEF IInv, EngineInv
    <3> QED
      BY <2>1, <2>4, <2>5, <2>6, <2>10, <3>1 DEF EngineInv, Installing
  <2> QED
    BY <2>7, <2>8, <2>9, <2>11, <2>12, <2>13, <2>14 DEF IInv
<1> QED
  BY <1>2, <1>3 DEF begin_install

----------------------------------------------------------------------------
(* The invariant *)

LEMMA Initial ==
    ASSUME Init PROVE IInv
<1>1. Empty \in Directories /\ Claimed(Empty) = NoMetadata
  BY DEF Empty, Directories, Files, Contents, Payload, Claimed
<1>2. <<>> \in Seq(Contents) /\ Len(<<>>) <= 4 /\ 0 \in 0 .. 4
  OBVIOUS
<1>3. /\ 0 \in 0 .. MaxRelease /\ 0 \in 0 .. MaxFailures /\ 0 \in 0 .. MaxCrashes
      /\ 0 \in 0 .. MaxManual
  BY ReleasesTyped, FaultsTyped
<1>4. TypeOK
  BY <1>1, <1>2, <1>3, NoJobTyped DEF Init, TypeOK
<1>5. \A u \in Updaters : pc[u] = "idle" /\ pc[u] \notin Installing
  BY DEF Init, Installing
<1>6. LeaseInv
  BY <1>5, ReleasesTyped DEF Init, LeaseInv
<1>7. PlaceInv
  BY <1>5 DEF PlaceInv
<1>8. MetaInv
  BY <1>1, <1>5 DEF Init, MetaInv, Truthful, Recorded, NoMetadata
<1>9. PairInv /\ VersionInv /\ EngineInv
  BY <1>1, <1>5 DEF Init, PairInv, PairWhole, VersionInv, EngineInv, Empty, NoMetadata, Files
<1> QED
  BY <1>4, <1>6, <1>7, <1>8, <1>9 DEF IInv

LEMMA NextKeeps ==
    ASSUME IInv, [Next]_vars PROVE IInv'
<1>1. CASE publish
  BY <1>1, PublishKeeps
<1>2. CASE day_passes
  BY <1>2, UnchangedKeeps DEF day_passes, history, faults
<1>3. CASE update_corpus
  BY <1>3, UpdateCorpusKeeps
<1>4. ASSUME NEW u \in Updaters, apply_updates(u) PROVE IInv'
  <2>1. Decides(u) /\ due' \in BOOLEAN
    BY <1>4 DEF apply_updates, IInv, TypeOK
  <2> QED
    BY <2>1, DecidesKeeps
<1>5. ASSUME NEW u \in Updaters, auto_update(u) PROVE IInv'
  <2>1. due' \in BOOLEAN
    BY <1>5 DEF auto_update
  <2>2. CASE Decides(u)
    BY <2>1, <2>2, DecidesKeeps
  <2>3. CASE ~Decides(u)
    BY <1>5, <2>1, <2>3, UnchangedKeeps DEF auto_update, history, faults
  <2> QED
    BY <2>2, <2>3
<1>6. ASSUME NEW u \in Updaters, stage(u) \/ begin_install(u) PROVE IInv'
  BY <1>6, StageKeeps, BeginKeeps
<1>7. ASSUME NEW u \in Updaters, give_up(u) PROVE IInv'
  BY <1>7, GiveUpKeeps DEF give_up, history, faults
<1>8. ASSUME NEW u \in Updaters, Install(u) PROVE IInv'
  BY <1>8, BackUpKeeps, BackUpFailsKeeps, PutKeeps, PutFailsKeeps, RemoveKeeps,
     RestoreKeeps, FinishKeeps, RolledBackKeeps DEF Install
<1>9. ASSUME NEW u \in Updaters, crash(u) PROVE IInv'
  BY <1>9, CrashKeeps
<1>10. CASE UNCHANGED vars
  <2>1. due' \in BOOLEAN
    BY <1>10 DEF vars, IInv, TypeOK
  <2> QED
    BY <1>10, <2>1, UnchangedKeeps DEF vars
<1> QED
  BY <1>1, <1>2, <1>3, <1>4, <1>5, <1>6, <1>7, <1>8, <1>9, <1>10 DEF Next

\* Every directory, decision, backup and plan of every reachable state is the
\* one PlaceInv and the rest say, whatever fails, dies or overtakes
\* (update.py, apply_updates and _install_replacements).
THEOREM InstallInvariant == Spec => []IInv
  BY Initial, NextKeeps, PTL DEF Spec

\* A failed install leaves the directory exactly as it found it, at whichever
\* of its replacements it failed (update.py, the except branch of
\* _install_replacements).
THEOREM RollbacksAreExact == Spec => []RollbackExact
<1>1. IInv => RollbackExact
  BY UndoneIsBefore DEF RollbackExact
<1> QED
  BY <1>1, InstallInvariant, PTL

\* No install ends with an older release than one that ended before it, as
\* long as no process dies inside an install (update.py, the version read
\* again under the lease).
THEOREM NothingIsDowngraded == Spec => []NoDowngrade
<1>1. IInv => NoDowngrade
  BY DEF IInv, VersionInv, NoDowngrade, Claimed, installed_version, installed_meta
<1> QED
  BY <1>1, InstallInvariant, PTL

\* Between installs the certificate is that of the corpus and the metadata
\* names both, whichever engines the releases carry, until a process dies
\* inside an install or a corpus is put there by hand (update.py, the
\* replacements under the corpus guard).
THEOREM PairsAreWhole == Spec => [](lease = Absent /\ crashes = 0 => PairWhole(disk))
<1>1. IInv => (lease = Absent /\ crashes = 0 => PairWhole(disk))
  BY DEF IInv, PairInv
<1> QED
  BY <1>1, InstallInvariant, PTL

\* And the directory holds a whole release, its engine included, provided that
\* no later release goes back to an engine that another one had replaced: an
\* updater decides whether the engine is to be replaced from the metadata it
\* read before the lease (update.py, replace_engine).
THEOREM InstallIsSound ==
    ASSUME EnginesAdvance
    PROVE  Spec => []InstallSound
<1>1. IInv => TypeOK /\ InstalledWhole
  BY DEF IInv, PairInv, PairWhole, EngineInv, InstalledWhole, Claimed, installed_meta
<1>2. IInv => NoDowngrade
  BY DEF IInv, VersionInv, NoDowngrade, Claimed, installed_version, installed_meta
<1>3. IInv => InstallSound
  BY <1>1, <1>2 DEF InstallSound
<1> QED
  BY <1>3, InstallInvariant, PTL

----------------------------------------------------------------------------
(* Each install is one step *)

\* An install found a version that is not newer than its own, also after a death.
FoundInv ==
    \A u \in Updaters : pc[u] \in Installing => Claimed(before[u]).version <= job[u].release

LEMMA FoundStep ==
    ASSUME IInv, FoundInv, [Next]_vars PROVE FoundInv'
<1>1. ASSUME NEW u \in Updaters, \A w \in Updaters \ {u} : pc'[w] = pc[w] /\ job'[w] = job[w],
             before' = before,
             pc'[u] \in Installing => pc[u] \in Installing /\ job'[u] = job[u]
      PROVE  FoundInv'
  BY <1>1 DEF FoundInv, Claimed
<1>2. ASSUME UNCHANGED <<pc, job, before>> PROVE FoundInv'
  BY <1>2 DEF FoundInv, Claimed
<1>3. CASE UNCHANGED vars \/ publish \/ day_passes \/ update_corpus
  BY <1>2, <1>3 DEF vars, publish, day_passes, update_corpus, history
<1>4. ASSUME NEW u \in Updaters,
             apply_updates(u) \/ auto_update(u) \/ stage(u) \/ give_up(u)
      PROVE  FoundInv'
  <2>1. CASE UNCHANGED <<pc, job, before>>
    BY <1>2, <2>1
  <2>2. CASE Decides(u) \/ stage(u) \/ give_up(u)
    <3>1. /\ before' = before
          /\ job' = job \/ \E x : job' = [job EXCEPT ![u] = x]
          /\ \E x \in {"staging", "staged", "idle"} : pc' = [pc EXCEPT ![u] = x]
      BY <2>2 DEF Decides, stage, give_up, history
    <3>2. DOMAIN pc = Updaters /\ DOMAIN job = Updaters
      BY DEF IInv, TypeOK
    <3> QED BY <1>1, <3>1, <3>2 DEF Installing
  <2> QED BY <1>4, <2>1, <2>2 DEF apply_updates, auto_update, history
<1>5. ASSUME NEW u \in Updaters, begin_install(u)
      PROVE  FoundInv'
  <2>0. DOMAIN pc = Updaters /\ DOMAIN job = Updaters /\ DOMAIN before = Updaters
    BY DEF IInv, TypeOK
  <2>1. CASE installed_version > job[u].release /\ pc' = [pc EXCEPT ![u] = "idle"]
             /\ job' = [job EXCEPT ![u] = NoJob] /\ before' = before
    BY <1>1, <2>0, <2>1 DEF Installing
  <2>2. CASE /\ installed_version <= job[u].release /\ job' = job
             /\ pc' = [pc EXCEPT ![u] = "installing"] /\ before' = [before EXCEPT ![u] = disk]
    <3>1. ASSUME NEW w \in Updaters \ {u}, pc'[w] \in Installing
          PROVE  Claimed(before[w])'.version <= job'[w].release
      BY <2>0, <2>2, <3>1 DEF FoundInv, Claimed
    <3>2. Claimed(before[u])'.version <= job'[u].release
      BY <2>0, <2>2 DEF Claimed, installed_version, installed_meta
    <3> QED BY <3>1, <3>2 DEF FoundInv
  <2> QED BY <1>5, <2>1, <2>2 DEF begin_install
<1>6. ASSUME NEW u \in Updaters, Install(u) \/ crash(u)
      PROVE  FoundInv'
  <2>1. /\ pc[u] \in Installing /\ before' = before
        /\ \/ job' = job /\ (pc' = pc \/ \E x \in Installing : pc' = [pc EXCEPT ![u] = x])
           \/ Unplace(u)
    BY <1>6 DEF Install, back_up, back_up_fails, put, put_fails, finish_install, remove, restore,
       rolled_back, crash, history, Installing
  <2>2. DOMAIN pc = Updaters /\ DOMAIN job = Updaters
    BY DEF IInv, TypeOK
  <2> QED BY <1>1, <2>1, <2>2 DEF Unplace, Installing
<1> QED BY <1>3, <1>4, <1>5, <1>6 DEF Next

\* The whole release, and how far its files are in place.
LEMMA ReleaseIs ==
    ASSUME NEW j, NEW f \in Files
    PROVE  New(j, f) = Installed!Release(j.release)[f]
BY DEF New, Metadata, Installed!Release, Files

\* In an install, or in its undoing, the directory is the release up to some
\* file and the one that was found after it.
LEMMA MixIs ==
    ASSUME IInv, NEW u \in Updaters, pc[u] \in Installing
    PROVE  \E n \in 1 .. 5, gap \in BOOLEAN :
              /\ disk = Installed!Replaced(job[u].release, n, gap, ~replace_engine(job[u]))
              /\ pc[u] = "installing" /\ Complete(u) => n = 5 /\ gap = FALSE
<1> DEFINE j == job[u]
           b == before[u]
           keep == ~replace_engine(j)
           m == IF pc[u] = "restoring" THEN placed[u] - 1 ELSE placed[u]
           n == IF keep /\ m >= 2 THEN m + 2 ELSE m + 1
           gap == \/ pc[u] = "restoring"
                  \/ pc[u] = "installing" /\ Len(backups[u]) = placed[u] + 1
<1>1. /\ Placing(u) /\ placed[u] \in Nat /\ Len(backups[u]) \in Nat
      /\ Len(Replacements(j)) = Last(j) /\ Last(j) = (IF keep THEN 3 ELSE 4)
      /\ disk \in [Files -> Contents] /\ lease = u /\ lease # Absent
  BY InProgress, OneInstalls DEF IInv, Last, Directories
<1>2. /\ m \in 0 .. Last(j) /\ n \in 1 .. 5 /\ gap \in BOOLEAN
      /\ pc[u] = "installing" /\ Complete(u) => n = 5 /\ gap = FALSE
  <2>1. /\ Len(backups[u]) <= Last(j)
        /\ pc[u] = "installing" => Len(backups[u]) \in {placed[u], placed[u] + 1}
        /\ pc[u] \in {"rolling", "restoring"} => placed[u] < Last(j)
        /\ pc[u] = "restoring" => placed[u] > 0
    BY <1>1 DEF Placing, Underway
  <2>2. m \in 0 .. Last(j)
    BY <1>1, <2>1 DEF Installing
  <2>3. n \in 1 .. 5
    BY <1>1, <2>2
  <2>4. gap \in BOOLEAN
    OBVIOUS
  <2>5. ASSUME pc[u] = "installing", Complete(u) PROVE n = 5 /\ gap = FALSE
    <3>1. placed[u] = Last(j)
      BY <1>1, <2>5 DEF Complete
    <3> QED BY <1>1, <2>1, <2>5, <3>1
  <2> QED BY <2>2, <2>3, <2>4, <2>5
<1>3. ASSUME NEW f \in Files
      PROVE  disk[f] = IF keep /\ f = "pob" THEN b[f]
                       ELSE IF Installed!Order[f] < n THEN New(j, f)
                       ELSE IF gap /\ Installed!Order[f] = n THEN Absent
                       ELSE b[f]
  <2> DEFINE k == Slot(j, f)
  <2>1. /\ ~(keep /\ f = "pob") =>
              /\ k \in 1 .. 4
              /\ k <= m <=> Installed!Order[f] < n
              /\ k = m + 1 <=> Installed!Order[f] = n
        /\ keep /\ f = "pob" => k = 0
    BY <1>1, <1>2 DEF Slot, Files, Installed!Order
  <2>2. disk[f] = IF Gap(j, pc[u], placed[u], backups[u], f) THEN Absent
                  ELSE IF k \in 1 .. placed[u] THEN New(j, f) ELSE b[f]
    BY <1>1 DEF Placing, Underway
  <2>3. k # 0 => (Gap(j, pc[u], placed[u], backups[u], f) <=> gap /\ k = m + 1)
    BY <1>1, <2>1 DEF Gap
  <2>4. k = 0 => ~Gap(j, pc[u], placed[u], backups[u], f)
    BY <1>1 DEF Gap, Placing, Underway
  <2> HIDE DEF k
  <2> QED BY <1>1, <1>2, <2>1, <2>2, <2>3, <2>4
<1>4. disk = Installed!Replaced(j.release, n, gap, keep)
  <2>1. \A f \in Files : New(j, f) = Installed!Release(j.release)[f]
    BY ReleaseIs
  <2>2. DOMAIN Installed!Order = Files
    BY DEF Installed!Order, Files
  <2> HIDE DEF n, gap, keep, j
  <2> QED BY <1>1, <1>3, <2>1, <2>2 DEF Installed!Replaced, b
<1> QED BY <1>2, <1>4

Shown == IF lease = Absent THEN disk ELSE before[lease]

LEMMA ReleaseStep ==
    ASSUME IInv, FoundInv, EnginesAdvance, [Next]_vars
    PROVE  [Installed!Next]_<<published, Shown, crashes > 0>>
<1>1. ASSUME UNCHANGED <<published, crashes, lease, before>>, disk' = disk \/ lease # Absent
      PROVE  UNCHANGED <<published, Shown, crashes > 0>>
  BY <1>1 DEF Shown
<1>2. ASSUME NEW u \in Updaters, pc[u] \in Installing
      PROVE  /\ lease = u /\ lease # Absent /\ Shown = before[u]
             /\ Installed!MayInstall(job[u].release, ~replace_engine(job[u]))
             /\ job[u].release \in Installed!Releases
  <2>1. lease = u /\ lease # Absent /\ Shown = before[u]
    BY <1>2, OneInstalls DEF IInv, Shown
  <2>2. job[u].release \in 1 .. published /\ Claimed(before[u]).version <= job[u].release
        /\ job[u].release \in Releases
    BY <1>2, InProgress DEF IInv, LeaseInv, FoundInv, Installing
  <2>3. job[u].release >= Installed!version
    BY <2>1, <2>2 DEF Installed!version, Claimed, NoMetadata, Releases
  <2>4. ~replace_engine(job[u]) => crashes > 0 \/ before[u]["pob"] = EngineOf[job[u].release]
    BY <1>2, <2>2, KeptEngine DEF IInv, TypeOK
  <2> QED BY <2>1, <2>2, <2>3, <2>4 DEF Installed!MayInstall, Installed!Releases, Releases
<1>3. CASE UNCHANGED vars
  BY <1>1, <1>3 DEF vars, history, faults
<1>4. CASE publish
  <2>1. Installed!Publish
    BY <1>4 DEF publish, Installed!Publish, history, faults
  <2> QED BY <2>1 DEF Installed!Next
<1>5. CASE day_passes
  BY <1>1, <1>5 DEF day_passes, history, faults
<1>6. CASE update_corpus
  <2>1. PICK r \in Releases : disk' = [disk EXCEPT !["corpus"] = CorpusOf[r]]
    BY <1>6 DEF update_corpus, Corpora
  <2>2. lease = Absent /\ UNCHANGED <<published, lease, crashes>>
    BY <1>6 DEF update_corpus, history
  <2>3. Installed!UpdateCorpus
    BY <2>1, <2>2 DEF Installed!UpdateCorpus, Installed!Releases, Releases
  <2> QED BY <2>3 DEF Installed!Next
<1>7. ASSUME NEW u \in Updaters,
             apply_updates(u) \/ auto_update(u) \/ stage(u) \/ give_up(u)
      PROVE  UNCHANGED <<published, Shown, crashes > 0>>
  BY <1>1, <1>7 DEF apply_updates, auto_update, Decides, stage, give_up, history, faults
<1>8. ASSUME NEW u \in Updaters, begin_install(u)
      PROVE  UNCHANGED <<published, Shown, crashes > 0>>
  <2>1. lease = Absent /\ UNCHANGED <<disk, published, crashes>>
    BY <1>8 DEF begin_install, faults
  <2>2. CASE UNCHANGED <<lease, before>>
    BY <1>1, <2>1, <2>2
  <2>3. CASE lease' = u /\ before' = [before EXCEPT ![u] = disk]
    <3>1. u # Absent /\ before'[u] = disk
      BY <2>3, ReleasesTyped DEF IInv, TypeOK
    <3> QED BY <2>1, <2>3, <3>1 DEF Shown
  <2> QED BY <1>8, <2>2, <2>3 DEF begin_install
<1>9. ASSUME NEW u \in Updaters,
             \/ back_up(u) \/ back_up_fails(u) \/ put(u) \/ put_fails(u)
             \/ remove(u) \/ restore(u)
      PROVE  UNCHANGED <<published, Shown, crashes > 0>>
  <2>1. pc[u] \in Installing /\ UNCHANGED <<published, crashes, lease, before>>
    BY <1>9 DEF back_up, back_up_fails, put, put_fails, remove, restore, history, faults, Installing
  <2> QED BY <1>1, <1>2, <2>1
<1>10. ASSUME NEW u \in Updaters, finish_install(u)
       PROVE  Installed!Next
  <2> DEFINE r == job[u].release
             keep == ~replace_engine(job[u])
  <2>1. /\ pc[u] = "installing" /\ pc[u] \in Installing /\ Complete(u) /\ Shown' = disk
        /\ UNCHANGED <<published, crashes>>
    BY <1>10 DEF finish_install, Unplace, faults, Installing, Shown
  <2>2. disk = Installed!Replaced(r, 5, FALSE, keep)
    BY <2>1, MixIs
  <2>3. Installed!Install(r)
    BY <1>2, <2>1, <2>2 DEF Installed!Install, Shown
  <2> QED BY <1>2, <2>1, <2>3 DEF Installed!Next
<1>11. ASSUME NEW u \in Updaters, rolled_back(u)
       PROVE  UNCHANGED <<published, Shown, crashes > 0>>
  <2>1. /\ pc[u] = "rolling" /\ placed[u] = 0 /\ lease' = Absent
        /\ UNCHANGED <<disk, published, crashes>>
    BY <1>11 DEF rolled_back, Unplace, faults
  <2>2. disk = before[u] /\ Shown = before[u]
    BY <1>2, <2>1, UndoneIsBefore DEF Installing
  <2> QED BY <2>1, <2>2 DEF Shown
<1>12. ASSUME NEW u \in Updaters, crash(u)
       PROVE  Installed!Next
  <2> DEFINE r == job[u].release
             keep == ~replace_engine(job[u])
  <2>1. /\ pc[u] \in Installing /\ Shown' = disk /\ published' = published
        /\ crashes' > 0
    BY <1>12 DEF crash, Unplace, Installing, Shown, IInv, TypeOK
  <2>2. PICK n \in 1 .. 5, gap \in BOOLEAN : disk = Installed!Replaced(r, n, gap, keep)
    BY <2>1, MixIs
  <2>3. Installed!Die(r)
    BY <1>2, <2>1, <2>2 DEF Installed!Die, Shown
  <2> QED BY <1>2, <2>1, <2>3 DEF Installed!Next
<1> QED BY <1>3, <1>4, <1>5, <1>6, <1>7, <1>8, <1>9, <1>10, <1>11, <1>12 DEF Next, Install

\* For every number of updaters, releases and faults, whoever takes the guard
\* finds one whole release after another, as InstalledRelease says, and after a
\* death a mix of two that the order of the replacements allows, provided that no
\* later release goes back to an engine that another one had replaced.
THEOREM InstallsImplementReleases ==
    ASSUME EnginesAdvance
    PROVE  Spec => ImplementsReleases
<1>1. Init => Installed!Init
  BY DEF Init, Installed!Init, Installed!Order, Empty, Files
<1>2. Init => FoundInv
  BY DEF Init, FoundInv, Installing
<1>3. IInv /\ FoundInv /\ [Next]_vars => FoundInv'
  BY FoundStep
<1>4. IInv /\ FoundInv /\ [Next]_vars => [Installed!Next]_(Installed!view)
  BY ReleaseStep DEF Installed!view, Shown
<1> QED
  BY <1>1, <1>2, <1>3, <1>4, Initial, NextKeeps, PTL DEF Spec, ImplementsReleases, Installed!Spec
=============================================================================
