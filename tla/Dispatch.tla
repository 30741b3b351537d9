------------------------------- MODULE Dispatch -------------------------------
(***************************************************************************)
(* How policyd comes to open a task (ec-policyd, dispatch.rs): a package   *)
(* directory is reviewed and installed, a draft is previewed against the   *)
(* install and the pushed table, and a commit names the preview.           *)
(*                                                                         *)
(* Reviews and previews live in memory only; an install is a file that is  *)
(* written whole.  The manifests on disk change under the daemon, between  *)
(* its handlers and, for install_begin, between its two reads.  Dates,     *)
(* lengths and accounts are left out: a draft they refuse is refused like  *)
(* any other.  What create then journals is TaskStore's OpenForHuman.      *)
(***************************************************************************)
EXTENDS Integers, FiniteSets

CONSTANTS
  Packages,    \* directories <id>/<version>: the path fixes the package id
  Manifests,   \* contents of a manifest.kdl, [lines, resumable]
  Slots,       \* the compositor's commit slots
  Drafts,      \* what a client may ask, [package, statement, narrow, resumes]
  MaxPreviews, \* MAX_PREVIEWS
  MaxIds,      \* bound on the review and preview ids drawn
  MaxVersion,  \* bound on the table version
  MaxEdits,    \* bound on the times a manifest changes on disk
  None

VARIABLES
  disk,      \* the manifest in each directory, or None
  installs,  \* the install record of each package, or None
  reviews,   \* installs waiting for the human
  previews,  \* drafts the human may commit
  ids,       \* how many review and preview ids were drawn
  version,   \* the version of the pushed table
  compiled,  \* whether a table was compiled in this run of the daemon
  edits,     \* how many times a manifest changed
  tasks      \* the tasks opened, by the preview they came from

dispatchVars ==
  <<disk, installs, reviews, previews, ids, version, compiled, edits, tasks>>

Lines == UNION { m.lines : m \in Manifests }

Installs == [hash : Manifests, lines : SUBSET Lines, seq : 1..(MaxIds + 1)]

Reviews  == [id : 1..MaxIds, package : Packages, manifest : Manifests,
             hash : Manifests]

(* What a preview promises, a card shows and a task gets.                  *)
Promises == [package : Packages, statement : {d.statement : d \in Drafts},
             lines : SUBSET Lines, resumes : {d.resumes : d \in Drafts}]
Previews == [id : 1..MaxIds, slot : Slots, promise : Promises,
             version : 1..MaxVersion, seq : 1..(MaxIds + 1)]
Tasks    == [preview : 1..MaxIds, slot : Slots, promise : Promises]

(* None stands apart from what it is the absence of.                       *)
ASSUME DispatchAssumption ==
  /\ \A d \in Drafts : d.package \in Packages
  /\ None \notin Manifests \cup Drafts
  /\ None \notin [hash : Manifests, lines : SUBSET Lines, seq : Nat]
  /\ None \notin [id : Nat, promise : Promises]

-----------------------------------------------------------------------------
(* Installing a package.                                                   *)

Edited(p, m) ==
  /\ disk' = [disk EXCEPT ![p] = m]
  /\ edits' = IF m = disk[p] THEN edits ELSE edits + 1

(* install_begin: the manifest is loaded, and then read again for the hash *)
(* the review is bound to; the file may change between.                    *)
InstallBegin(p) ==
  /\ disk[p] # None /\ ids < MaxIds
  /\ \E m \in Manifests :
       /\ m = disk[p] \/ edits < MaxEdits
       /\ Edited(p, m)
       /\ reviews' = reviews \cup
            {[id |-> ids + 1, package |-> p, manifest |-> disk[p], hash |-> m]}
  /\ ids' = ids + 1
  /\ UNCHANGED <<installs, previews, version, compiled, tasks>>

(* REVIEW_TTL_MS passes: from then on an answer to it does nothing, and    *)
(* when the map forgets it makes no difference.                            *)
ReviewExpires(r) ==
  /\ reviews' = reviews \ {r}
  /\ UNCHANGED <<disk, installs, previews, ids, version, compiled, edits, tasks>>

NextSeq(p) == IF installs[p] = None THEN 1 ELSE installs[p].seq + 1

(* install_answer: the package must still be the one reviewed.             *)
InstallAnswer(r, approve) ==
  /\ reviews' = reviews \ {r}
  /\ installs' =
       IF approve /\ disk[r.package] = r.hash
       THEN [installs EXCEPT ![r.package] =
               [hash |-> r.hash, lines |-> r.manifest.lines, seq |-> NextSeq(r.package)]]
       ELSE installs
  /\ UNCHANGED <<disk, previews, ids, version, compiled, edits, tasks>>

-----------------------------------------------------------------------------
(* Previewing a draft and creating its task.                               *)

(* resume_ok: the closed task is of this package, which is resumable, and  *)
(* the statement is the original one.                                      *)
MayResume(d) ==
  d.resumes # None =>
    /\ disk[d.package].resumable
    /\ d.resumes.package = d.package
    /\ d.resumes.statement = d.statement

(* current_manifest: installed means reviewed and still there as reviewed. *)
Present(p) == installs[p] # None /\ disk[p] = installs[p].hash

(* narrow: only whole lines of the install.                                *)
Narrows(d) == d.narrow # None => d.narrow \subseteq installs[d.package].lines

Previewable(d) ==
  compiled /\ Present(d.package) /\ Narrows(d) /\ MayResume(d)

Promise(d) ==
  [package |-> d.package, statement |-> d.statement, resumes |-> d.resumes,
   lines |-> IF d.narrow = None THEN installs[d.package].lines ELSE d.narrow]

(* At the limit every preview goes; otherwise the slot's last one.         *)
Kept(s) ==
  IF Cardinality(previews) >= MaxPreviews THEN {}
  ELSE { p \in previews : p.slot # s }

NewPreview(s, d) ==
  [id |-> ids + 1, slot |-> s, promise |-> Promise(d), version |-> version,
   seq |-> installs[d.package].seq]

Preview(s, d) ==
  /\ Previewable(d) /\ ids < MaxIds
  /\ previews' = Kept(s) \cup {NewPreview(s, d)}
  /\ ids' = ids + 1
  /\ UNCHANGED <<disk, installs, reviews, version, compiled, edits, tasks>>

(* create: a preview of another slot, table or install is stale.           *)
Fresh_AnyInstall(p, s) == p.slot = s /\ compiled /\ p.version = version
Fresh(p, s) ==
  /\ p.slot = s
  /\ compiled /\ p.version = version
  /\ installs[p.promise.package].seq = p.seq

Named(id) == { p \in previews : p.id = id }

(* Whatever the answer, the preview is spent.                              *)
Spend(id) ==
  /\ previews' = previews \ Named(id)
  /\ UNCHANGED <<disk, installs, reviews, ids, version, compiled, edits>>

Create(p) == tasks' = tasks \cup {[preview |-> p.id, slot |-> p.slot,
                                   promise |-> p.promise]}

-----------------------------------------------------------------------------
(* Around it: the disk, the policy watcher and the daemon's own restarts.  *)

Edit(p) ==
  /\ edits < MaxEdits
  /\ \E m \in (Manifests \cup {None}) \ {disk[p]} : Edited(p, m)
  /\ UNCHANGED <<installs, reviews, previews, ids, version, compiled, tasks>>

(* recompile: a failed compile keeps the previous table.                   *)
Recompile ==
  /\ version < MaxVersion
  /\ version' = version + 1 /\ compiled' = TRUE
  /\ UNCHANGED <<disk, installs, reviews, previews, ids, edits, tasks>>

(* main: versions move on by the clock; the first compile may fail.        *)
Restart ==
  /\ version < MaxVersion
  /\ version' = version + 1 /\ compiled' \in BOOLEAN
  /\ reviews' = {} /\ previews' = {}
  /\ UNCHANGED <<disk, installs, ids, edits, tasks>>

(* Every package was installed in an earlier run of the daemon.            *)
DispatchInit ==
  /\ disk \in [Packages -> Manifests]
  /\ installs = [p \in Packages |->
                   [hash |-> disk[p], lines |-> disk[p].lines, seq |-> 1]]
  /\ reviews = {} /\ previews = {} /\ tasks = {}
  /\ ids = 0 /\ edits = 0 /\ version = 1 /\ compiled = TRUE

Installing ==
  \/ \E p \in Packages : InstallBegin(p)
  \/ \E r \in reviews : ReviewExpires(r)
  \/ \E r \in reviews, approve \in BOOLEAN : InstallAnswer(r, approve)

DispatchTypeOK ==
  /\ disk \in [Packages -> Manifests \cup {None}]
  /\ installs \in [Packages -> Installs \cup {None}]
  /\ reviews \subseteq Reviews /\ previews \subseteq Previews
  /\ tasks \subseteq Tasks
  /\ ids \in 0..MaxIds /\ edits \in 0..MaxEdits
  /\ version \in 1..MaxVersion /\ compiled \in BOOLEAN
==============================================================================
