---------------------------- MODULE UpdateInstall ----------------------------
(***************************************************************************)
(* The self-update of server/live/update.py, with the manual corpus update *)
(* of server/live/version.py.  Several processes share one user-data       *)
(* directory; each reads the latest manifest and the installed metadata,   *)
(* downloads, and then, under the exclusive runtime lease and the corpus   *)
(* guard, moves every target to a backup and the staged file into its      *)
(* place, undoing all of it when a move fails.  A process may die anywhere.*)
(*                                                                         *)
(* A file is its contents: the corpus and the engine are payloads of       *)
(* releases, the certificate is the corpus it certifies, installed.json is *)
(* a record, and Absent is no file.  Versions are release numbers; 0 is    *)
(* the version of the bundle, whose seed corpus is certified.              *)
(***************************************************************************)
EXTENDS Integers, Sequences, FiniteSets

CONSTANTS Updaters,
          MaxRelease,     \* bound: releases ever published
          CorpusOf,       \* the corpus payload of each release
          EngineOf,       \* its engine payload
          Absent,         \* no file
          MaxFailures,    \* bound: failed os.replace calls
          MaxCrashes,     \* bound: process deaths
          MaxManual       \* bound: manual corpus updates

Releases == 1 .. MaxRelease
Corpora == {CorpusOf[r] : r \in Releases}
Engines == {EngineOf[r] : r \in Releases}

Payload(S) == S \cup {Absent}
Metadatas == [version : 0 .. MaxRelease, engine : Payload(Engines),
              corpus : Payload(Corpora), certificate : Payload(Corpora)]
Contents == Payload(Corpora \cup Engines \cup Metadatas)

ASSUME ReleasesTyped ==
    /\ MaxRelease \in Nat \ {0}
    /\ DOMAIN CorpusOf = Releases /\ DOMAIN EngineOf = Releases
    /\ Absent \notin Corpora \cup Engines \cup Metadatas \cup Updaters
ASSUME FaultsTyped == MaxFailures \in Nat /\ MaxCrashes \in Nat /\ MaxManual \in Nat

VARIABLES disk,           \* the user-data directory
          published,      \* the latest release
          due,            \* last_check is a day old, or was never written
          lease,          \* the holder of the runtime lease and the corpus guard
          pc, job,        \* each updater: where it is, what it decided from
          placed,         \* replacements whose target is in place
          backups,        \* what was moved to the backup directory, in order
          before,         \* (history) the directory when the install began
          highest,        \* (history) the latest version an install ended with
          failures, crashes, manual

vars == <<disk, published, due, lease, pc, job, placed, backups, before, highest,
          failures, crashes, manual>>
history == <<before, highest>>
faults == <<failures, crashes, manual>>

Files == {"corpus", "certificate", "pob", "installed"}
NoMetadata == [version |-> 0, engine |-> Absent, corpus |-> Absent, certificate |-> Absent]
NoJob == [release |-> 0, prev |-> NoMetadata]
Empty == [f \in Files |-> Absent]

Init ==
    /\ disk = Empty
    /\ published = 0 /\ due = TRUE
    /\ lease = Absent
    /\ pc = [u \in Updaters |-> "idle"]
    /\ job = [u \in Updaters |-> NoJob]
    /\ placed = [u \in Updaters |-> 0]
    /\ backups = [u \in Updaters |-> <<>>]
    /\ before = [u \in Updaters |-> Empty]
    /\ highest = 0
    /\ failures = 0 /\ crashes = 0 /\ manual = 0

----------------------------------------------------------------------------
(* Reading the directory *)

installed_meta == IF disk["installed"] = Absent THEN NoMetadata ELSE disk["installed"]
installed_version == installed_meta.version

\* The corpus in use has a certificate bound to its bytes: the installed one,
\* or the bundle's, for the seed that serves when there is no user copy.
active_certificate ==
    \/ disk["corpus"] = Absent
    \/ /\ disk["certificate"] = disk["corpus"]
       /\ installed_meta.corpus = disk["corpus"]
       /\ installed_meta.certificate = disk["certificate"]

needs_corpus_repair(r) == r = installed_version /\ lease = Absent /\ ~active_certificate

replace_engine(j) == EngineOf[j.release] # j.prev.engine

Metadata(j) == [version |-> j.release, engine |-> EngineOf[j.release],
                corpus |-> CorpusOf[j.release], certificate |-> CorpusOf[j.release]]

\* Mutant: the certificate stays the old one.
Replacements_without_certificate(j) ==
    <<<<"corpus", CorpusOf[j.release]>>>>
        \o (IF replace_engine(j) THEN <<<<"pob", EngineOf[j.release]>>>> ELSE <<>>)
        \o <<<<"installed", Metadata(j)>>>>

\* Mutant: the metadata goes first.
Replacements_metadata_first(j) ==
    <<<<"installed", Metadata(j)>>, <<"corpus", CorpusOf[j.release]>>,
      <<"certificate", CorpusOf[j.release]>>>>
        \o (IF replace_engine(j) THEN <<<<"pob", EngineOf[j.release]>>>> ELSE <<>>)

\* What an install moves into place, in this order.
Replacements(j) ==
    LET corpus == <<"corpus", CorpusOf[j.release]>>
        certificate == <<"certificate", CorpusOf[j.release]>>
        pob == <<"pob", EngineOf[j.release]>>
        installed == <<"installed", Metadata(j)>>
    IN  IF replace_engine(j) THEN <<corpus, certificate, pob, installed>>
                             ELSE <<corpus, certificate, installed>>

----------------------------------------------------------------------------
(* apply_updates *)

\* A release is published (external).
publish ==
    /\ published < MaxRelease
    /\ published' = published + 1
    /\ UNCHANGED <<disk, due, lease, pc, job, placed, backups, history, faults>>

\* CHECK_INTERVAL_SECONDS have passed since last_check was written (external).
day_passes ==
    /\ ~due
    /\ due' = TRUE
    /\ UNCHANGED <<disk, published, lease, pc, job, placed, backups, history, faults>>

\* check_for_updates: the manifest and the metadata call for an install.
available == published > 0 /\ (published > installed_version \/ needs_corpus_repair(published))

\* What is installed is read, holding nothing, before the download.
Decides(u) ==
    /\ pc[u] = "idle" /\ available
    /\ job' = [job EXCEPT ![u] = [release |-> published, prev |-> installed_meta]]
    /\ pc' = [pc EXCEPT ![u] = "staging"]
    /\ UNCHANGED <<disk, published, lease, placed, backups, history, faults>>

\* The tool: no throttle.
apply_updates(u) == Decides(u) /\ UNCHANGED due

\* At startup, once a day: last_check is written before the attempt, whatever
\* then becomes of it.
auto_update(u) ==
    /\ pc[u] = "idle" /\ due
    /\ due' = FALSE
    /\ \/ Decides(u)
       \/ /\ ~available
          /\ UNCHANGED <<disk, published, lease, pc, job, placed, backups, history, faults>>

\* Downloaded, verified, unpacked and validated.
stage(u) ==
    /\ pc[u] = "staging"
    /\ pc' = [pc EXCEPT ![u] = "staged"]
    /\ UNCHANGED <<disk, published, due, lease, job, placed, backups, history, faults>>

\* An early return: the download or a check of it failed, or the lease or the
\* gate was busy.
give_up(u) ==
    /\ pc[u] \in {"staging", "staged"}
    /\ pc' = [pc EXCEPT ![u] = "idle"]
    /\ job' = [job EXCEPT ![u] = NoJob]
    /\ UNCHANGED <<disk, published, due, lease, placed, backups, history, faults>>

\* Mutant: what was installed during the download is not looked at.
begin_install_blindly(u) ==
    /\ pc[u] = "staged" /\ lease = Absent
    /\ lease' = u
    /\ pc' = [pc EXCEPT ![u] = "installing"]
    /\ before' = [before EXCEPT ![u] = disk]
    /\ UNCHANGED <<disk, published, due, job, placed, backups, highest, faults>>

\* Lease and guard in hand, the version is looked at once more.
begin_install(u) ==
    /\ pc[u] = "staged" /\ lease = Absent
    /\ \/ /\ installed_version > job[u].release
          /\ pc' = [pc EXCEPT ![u] = "idle"]
          /\ job' = [job EXCEPT ![u] = NoJob]
          /\ UNCHANGED <<lease, before>>
       \/ /\ installed_version <= job[u].release
          /\ lease' = u
          /\ pc' = [pc EXCEPT ![u] = "installing"]
          /\ before' = [before EXCEPT ![u] = disk]
          /\ UNCHANGED job
    /\ UNCHANGED <<disk, published, due, placed, backups, highest, faults>>

----------------------------------------------------------------------------
(* _install_replacements *)

Target(u, k) == Replacements(job[u])[k][1]
Staged(u, k) == Replacements(job[u])[k][2]
Complete(u) == placed[u] = Len(Replacements(job[u]))
Moved(u) == Len(backups[u]) > placed[u]

Unplace(u) ==
    /\ placed' = [placed EXCEPT ![u] = 0]
    /\ backups' = [backups EXCEPT ![u] = <<>>]
    /\ job' = [job EXCEPT ![u] = NoJob]
    /\ pc' = [pc EXCEPT ![u] = "idle"]
    /\ lease' = Absent

\* The next target, if there is one, is moved to the backup directory ...
back_up(u) ==
    /\ pc[u] = "installing" /\ ~Complete(u) /\ ~Moved(u)
    /\ LET f == Target(u, placed[u] + 1)
       IN  /\ backups' = [backups EXCEPT ![u] = Append(@, disk[f])]
           /\ disk' = [disk EXCEPT ![f] = Absent]
    /\ UNCHANGED <<published, due, lease, pc, job, placed, history, faults>>

back_up_fails(u) ==
    /\ pc[u] = "installing" /\ ~Complete(u) /\ ~Moved(u)
    /\ disk[Target(u, placed[u] + 1)] # Absent
    /\ failures < MaxFailures
    /\ failures' = failures + 1
    /\ pc' = [pc EXCEPT ![u] = "rolling"]
    /\ UNCHANGED <<disk, published, due, lease, job, placed, backups, history, crashes, manual>>

\* ... and the staged file into its place,
put(u) ==
    /\ pc[u] = "installing" /\ Moved(u)
    /\ disk' = [disk EXCEPT ![Target(u, placed[u] + 1)] = Staged(u, placed[u] + 1)]
    /\ placed' = [placed EXCEPT ![u] = @ + 1]
    /\ UNCHANGED <<published, due, lease, pc, job, backups, history, faults>>

\* Mutant: the target that could not be replaced is left in the backups.
put_fails_leaving_gap(u) ==
    /\ pc[u] = "installing" /\ Moved(u)
    /\ failures < MaxFailures
    /\ failures' = failures + 1
    /\ backups' = [backups EXCEPT ![u] = SubSeq(@, 1, placed[u])]
    /\ pc' = [pc EXCEPT ![u] = "rolling"]
    /\ UNCHANGED <<disk, published, due, lease, job, placed, history, crashes, manual>>

\* or, that failing, the backup back.
put_fails(u) ==
    /\ pc[u] = "installing" /\ Moved(u)
    /\ failures < MaxFailures
    /\ failures' = failures + 1
    /\ disk' = [disk EXCEPT ![Target(u, placed[u] + 1)] = backups[u][placed[u] + 1]]
    /\ backups' = [backups EXCEPT ![u] = SubSeq(@, 1, placed[u])]
    /\ pc' = [pc EXCEPT ![u] = "rolling"]
    /\ UNCHANGED <<published, due, lease, job, placed, history, crashes, manual>>

finish_install(u) ==
    /\ pc[u] = "installing" /\ Complete(u)
    /\ Unplace(u)
    /\ highest' = IF job[u].release > highest THEN job[u].release ELSE highest
    /\ UNCHANGED <<disk, published, due, before, faults>>

\* The undoing, last replacement first: the new file is deleted ...
remove(u) ==
    /\ pc[u] = "rolling" /\ placed[u] > 0
    /\ disk' = [disk EXCEPT ![Target(u, placed[u])] = Absent]
    /\ pc' = [pc EXCEPT ![u] = "restoring"]
    /\ UNCHANGED <<published, due, lease, job, placed, backups, history, faults>>

\* ... and the backup, if there is one, put back.
restore(u) ==
    /\ pc[u] = "restoring"
    /\ disk' = [disk EXCEPT ![Target(u, placed[u])] = backups[u][placed[u]]]
    /\ placed' = [placed EXCEPT ![u] = @ - 1]
    /\ backups' = [backups EXCEPT ![u] = SubSeq(@, 1, placed[u] - 1)]
    /\ pc' = [pc EXCEPT ![u] = "rolling"]
    /\ UNCHANGED <<published, due, lease, job, history, faults>>

rolled_back(u) ==
    /\ pc[u] = "rolling" /\ placed[u] = 0
    /\ Unplace(u)
    /\ UNCHANGED <<disk, published, due, history, faults>>

\* The process dies, and with it lease and guard; its staging directory, the
\* backups in it, is never looked at again.  A failure of the undoing itself
\* has the same effect.
crash(u) ==
    /\ pc[u] \in {"installing", "rolling", "restoring"}
    /\ crashes < MaxCrashes
    /\ crashes' = crashes + 1
    /\ Unplace(u)
    /\ UNCHANGED <<disk, published, due, history, failures, manual>>

----------------------------------------------------------------------------
\* update_corpus: a corpus without a certificate, under the lease.
update_corpus ==
    /\ lease = Absent /\ manual < MaxManual
    /\ manual' = manual + 1
    /\ \E c \in Corpora : disk' = [disk EXCEPT !["corpus"] = c]
    /\ UNCHANGED <<published, due, lease, pc, job, placed, backups, history, failures, crashes>>

Install(u) ==
    \/ back_up(u) \/ back_up_fails(u) \/ put(u) \/ put_fails(u) \/ finish_install(u)
    \/ remove(u) \/ restore(u) \/ rolled_back(u)

Next ==
    \/ publish \/ day_passes
    \/ update_corpus
    \/ \E u \in Updaters :
        \/ apply_updates(u) \/ auto_update(u) \/ stage(u) \/ give_up(u) \/ begin_install(u)
        \/ Install(u) \/ crash(u)

Spec == Init /\ [][Next]_vars

\* Days pass and servers are started again and again, each of which checks for
\* updates if nobody has that day; nobody need ever call the tool.  Not every
\* download fails, an install that has begun ends, and the project keeps
\* publishing up to the bound.
Fairness ==
    /\ WF_vars(publish) /\ WF_vars(day_passes)
    /\ \A u \in Updaters :
        /\ WF_vars(auto_update(u)) /\ SF_vars(stage(u)) /\ SF_vars(begin_install(u))
        /\ WF_vars(Install(u))

FairSpec == Spec /\ Fairness

----------------------------------------------------------------------------
(* Properties *)

Directories ==
    {d \in [Files -> Contents] :
        /\ d["corpus"] \in Payload(Corpora) /\ d["certificate"] \in Payload(Corpora)
        /\ d["pob"] \in Payload(Engines) /\ d["installed"] \in Payload(Metadatas)}

\* Every file of the directory holds a payload of a published release, of its
\* own kind, or is absent, and the updaters are where apply_updates can be.
TypeOK ==
    /\ disk \in Directories
    /\ due \in BOOLEAN /\ published \in 0 .. MaxRelease /\ highest \in 0 .. MaxRelease
    /\ lease \in Updaters \cup {Absent}
    /\ pc \in [Updaters -> {"idle", "staging", "staged", "installing", "rolling", "restoring"}]
    /\ job \in [Updaters -> [release : 0 .. MaxRelease, prev : Metadatas]]
    /\ placed \in [Updaters -> 0 .. 4]
    /\ backups \in [Updaters -> Seq(Contents)] /\ before \in [Updaters -> Directories]
    /\ \A u \in Updaters : Len(backups[u]) <= 4
    /\ failures \in 0 .. MaxFailures /\ crashes \in 0 .. MaxCrashes /\ manual \in 0 .. MaxManual

\* Short of a process death, whoever takes the corpus guard finds a whole
\* release: corpus, certificate and metadata of one release, or none of them,
\* whichever replacement failed and whoever else was updating ("Serialize
\* certificate reads and whole-pair replacements"); and the engine in place is
\* the one installed.json claims, since its compatibility is decided by that
\* claim alone ("engine_app_version is bound to the engine payload").
InstalledWhole ==
    lease = Absent /\ crashes = 0 =>
        /\ installed_meta.engine = disk["pob"]
        /\ manual = 0 => /\ disk["certificate"] = disk["corpus"]
                         /\ installed_meta.corpus = disk["corpus"]
                         /\ installed_meta.certificate = disk["corpus"]

\* A failed install leaves the directory exactly as it found it
\* ("install failure rolls back every replacement").
RollbackExact ==
    \A u \in Updaters : pc[u] = "rolling" /\ placed[u] = 0 => disk = before[u]

\* A slow updater never replaces a release by an older one.
NoDowngrade == lease = Absent /\ crashes = 0 => installed_version >= highest

\* The directory is well formed, and between installs it holds a whole release,
\* none older than one that an install has ended with.
InstallSound == TypeOK /\ InstalledWhole /\ NoDowngrade

\* The directory as whoever takes the guard finds it; while an install has the
\* guard, that is the one from before.
Installed == INSTANCE InstalledRelease WITH
    shown <- IF lease = Absent THEN disk ELSE before[lease],
    torn <- crashes > 0

\* Through six renames and the undoing of any of them, by several updaters that
\* decided from what they read before the lease, the directory changes as if
\* each install were a single step, and a death leaves no other mix of files
\* than the order of the replacements allows.
ImplementsReleases == Installed!Spec

\* The installed corpus, certificate, engine and metadata are those of the
\* last release.
UpToDate ==
    LET r == MaxRelease
    IN  /\ lease = Absent
        /\ disk["corpus"] = CorpusOf[r] /\ disk["certificate"] = CorpusOf[r]
        /\ disk["pob"] = EngineOf[r]
        /\ installed_version = r

\* In the end the last release is installed, completely and for good, whatever
\* failed or died on the way ("installs newer corpus + engine").
Converges == <>[]UpToDate
=============================================================================
